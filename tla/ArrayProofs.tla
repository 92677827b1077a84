----------------------------- MODULE ArrayProofs ------------------------------
(***************************************************************************)
(* Proofs about the arrays of ArrayInstance.tla, of any length and with    *)
(* any cutoff: their two stores do not overlap, and they behave like the   *)
(* sequences of ECMA-262.                                                  *)
(***************************************************************************)
EXTENDS ArrayInstance, InductionLemmas

Cells == Element \cup {Null}

Arrays ==
    [length : Nat, storage : UNION {[0 .. c - 1 -> Cells] : c \in Nat},
     storageLength : Nat, sparse : UNION {[D -> Element] : D \in SUBSET Nat}]

\* The layout of an array: what StorageLayout says, of any array.
Laid(a) ==
    /\ a.storageLength <= a.length
    /\ 0 .. a.storageLength - 1 \subseteq DOMAIN a.storage
    /\ \A i \in DOMAIN a.sparse : i >= Cutoff /\ i >= a.storageLength /\ i < a.length
    /\ \A i \in DOMAIN a.storage : i >= a.storageLength => a.storage[i] = Null

Layouts == {a \in Arrays : Laid(a)}

\* The array as get shows it.
View(a) == [i \in Nat |-> get(a, i)]

------------------------------------------------------------------------------
(* The fields of an array.                                                 *)

LEMMA ArrayIs ==
    ASSUME NEW a \in Arrays
    PROVE  /\ a = [length |-> a.length, storage |-> a.storage,
                   storageLength |-> a.storageLength, sparse |-> a.sparse]
           /\ a.length \in Nat /\ a.storageLength \in Nat
           /\ \E c \in Nat : a.storage \in [0 .. c - 1 -> Cells] /\ capacity(a) = c
           /\ DOMAIN a.sparse \subseteq Nat /\ a.sparse \in [DOMAIN a.sparse -> Element]
  <1>1. a.storage \in UNION {[0 .. c - 1 -> Cells] : c \in Nat}
    BY DEF Arrays
  <1>2. PICK c \in Nat : a.storage \in [0 .. c - 1 -> Cells]
    BY <1>1
  <1>3. capacity(a) = c
    <2>1. 0 \in Int /\ c - 1 \in Int /\ (0 > c - 1 => c = 0)
      OBVIOUS
    <2>2. Cardinality(0 .. c - 1) = c
      BY <2>1, FS_Interval
    <2> QED
      BY <1>2, <2>2 DEF capacity
  <1>4. a.sparse \in UNION {[D -> Element] : D \in SUBSET Nat}
    BY DEF Arrays
  <1>5. DOMAIN a.sparse \subseteq Nat /\ a.sparse \in [DOMAIN a.sparse -> Element]
    BY <1>4
  <1>6. a = [length |-> a.length, storage |-> a.storage,
             storageLength |-> a.storageLength, sparse |-> a.sparse]
    BY DEF Arrays
  <1>7. a.length \in Nat /\ a.storageLength \in Nat
    BY DEF Arrays
  <1> QED
    BY <1>2, <1>3, <1>5, <1>6, <1>7

\* What get finds.
LEMMA GetIs ==
    ASSUME NEW a \in Layouts, NEW i \in Nat
    PROVE  /\ get(a, i) \in Element
           /\ get(a, i) =
                IF i < a.storageLength
                THEN IF a.storage[i] = Null THEN Undefined ELSE a.storage[i]
                ELSE IF i \in DOMAIN a.sparse THEN a.sparse[i] ELSE Undefined
           /\ i >= a.length => get(a, i) = Undefined
           /\ getProperty(a, i) = Null => get(a, i) = Undefined
           /\ getProperty(a, i) # Null => get(a, i) = getProperty(a, i)
  <1>1. a \in Arrays /\ Laid(a)
    BY DEF Layouts
  <1>2. /\ a.length \in Nat /\ a.storageLength \in Nat
        /\ a.sparse \in [DOMAIN a.sparse -> Element]
    BY <1>1, ArrayIs
  <1>3. i < a.storageLength => a.storage[i] \in Cells
    <2>1. PICK c \in Nat : a.storage \in [0 .. c - 1 -> Cells]
      BY <1>1, ArrayIs
    <2>2. i < a.storageLength => i \in 0 .. a.storageLength - 1
      BY <1>2
    <2> QED
      BY <1>1, <2>1, <2>2 DEF Laid
  <1>4. Null \notin Element /\ Undefined \in Element
    BY SpecialAssumption DEF Element
  <1>5. i < a.storageLength => i < a.length
    BY <1>1, <1>2 DEF Laid
  <1>6. i \in DOMAIN a.sparse => i < a.length /\ ~(i < a.storageLength) /\ a.sparse[i] \in Element
    BY <1>1, <1>2 DEF Laid
  <1>7. CASE i < a.storageLength
    <2>1. ~(i >= a.length)
      BY <1>2, <1>5, <1>7
    <2>2. getProperty(a, i) = IF a.storage[i] = Undefined THEN Null ELSE a.storage[i]
      BY <1>7, <2>1 DEF getProperty
    <2>3. getProperty(a, i) = Null => a.storage[i] \in {Undefined, Null}
      BY <2>2
    <2> QED
      BY <1>3, <1>4, <1>7, <2>1, <2>2, <2>3 DEF get, Cells
  <1>8. CASE ~(i < a.storageLength) /\ i \in DOMAIN a.sparse
    <2>1. ~(i >= a.length)
      BY <1>2, <1>6, <1>8
    <2>2. getProperty(a, i) = a.sparse[i]
      BY <1>8, <2>1 DEF getProperty
    <2> QED
      BY <1>4, <1>6, <1>8, <2>1, <2>2 DEF get
  <1>9. CASE ~(i < a.storageLength) /\ i \notin DOMAIN a.sparse
    <2>1. getProperty(a, i) = Null
      BY <1>9 DEF getProperty
    <2> QED
      BY <1>4, <1>9, <2>1 DEF get
  <1> QED
    BY <1>7, <1>8, <1>9

LEMMA ViewType ==
    ASSUME NEW a \in Layouts
    PROVE  /\ View(a) \in [Nat -> Element]
           /\ \A i \in Nat : View(a)[i] = get(a, i)
           /\ \A i \in Nat : i >= a.length => View(a)[i] = Undefined
           /\ a.length \in Nat
  <1>1. \A i \in Nat : get(a, i) \in Element /\ (i >= a.length => get(a, i) = Undefined)
    BY GetIs
  <1>2. a.length \in Nat
    BY ArrayIs DEF Layouts
  <1> QED
    BY <1>1, <1>2 DEF View

\* The fields l, s, m and p are those of an array with a layout that shows w.
Stores(l, s, m, p, w) ==
    /\ l \in Nat /\ m \in Nat /\ m <= l
    /\ \E c \in Nat : s \in [0 .. c - 1 -> Cells] /\ m <= c
    /\ DOMAIN p \subseteq Nat /\ p \in [DOMAIN p -> Element]
    /\ \A i \in DOMAIN p : i >= Cutoff /\ i >= m /\ i < l
    /\ \A i \in DOMAIN s : i >= m => s[i] = Null
    /\ w \in [Nat -> Element]
    /\ \A i \in 0 .. m - 1 : w[i] = IF s[i] = Null THEN Undefined ELSE s[i]
    /\ \A i \in DOMAIN p : w[i] = p[i]
    /\ \A i \in Nat : i >= m /\ i \notin DOMAIN p => w[i] = Undefined

LEMMA LayoutShows ==
    ASSUME NEW l, NEW s, NEW m, NEW p, NEW w, Stores(l, s, m, p, w),
           NEW a, a = [length |-> l, storage |-> s, storageLength |-> m, sparse |-> p]
    PROVE  /\ a \in Layouts /\ View(a) = w
           /\ a.length = l /\ a.storage = s /\ a.storageLength = m /\ a.sparse = p
  <1>1. PICK c \in Nat : s \in [0 .. c - 1 -> Cells] /\ m <= c
    BY DEF Stores
  <1>2. /\ a \in Arrays /\ a.length = l /\ a.storage = s /\ a.storageLength = m
        /\ a.sparse = p
    <2>1. s \in UNION {[0 .. k - 1 -> Cells] : k \in Nat}
      BY <1>1
    <2>2. p \in UNION {[E -> Element] : E \in SUBSET Nat}
      BY DEF Stores
    <2> QED
      BY <2>1, <2>2 DEF Arrays, Stores
  <1>3. Laid(a)
    <2>1. 0 .. m - 1 \subseteq DOMAIN s
      BY <1>1 DEF Stores
    <2> QED
      BY <1>2, <2>1 DEF Laid, Stores
  <1>4. a \in Layouts
    BY <1>2, <1>3 DEF Layouts
  <1>5. ASSUME NEW i \in Nat PROVE get(a, i) = w[i]
    <2>1. get(a, i) = IF i < m THEN IF s[i] = Null THEN Undefined ELSE s[i]
                      ELSE IF i \in DOMAIN p THEN p[i] ELSE Undefined
      BY <1>2, <1>4, GetIs
    <2>2. m \in Nat
      BY DEF Stores
    <2>3. CASE i < m
      <3>1. i \in 0 .. m - 1
        BY <2>2, <2>3
      <3> QED
        BY <2>1, <2>3, <3>1 DEF Stores
    <2>4. CASE ~(i < m)
      <3>1. i >= m
        BY <2>2, <2>4
      <3> QED
        BY <2>1, <2>4, <3>1 DEF Stores
    <2> QED
      BY <2>3, <2>4
  <1> QED
    BY <1>2, <1>4, <1>5 DEF View, Stores

------------------------------------------------------------------------------
(* One element is set, deleted or copied; the length is set.               *)

LEMMA LargerIs ==
    ASSUME NEW m \in Int, NEW n \in Int
    PROVE  /\ Max({m, n}) = IF m >= n THEN m ELSE n
           /\ Min({m, n}) = IF m <= n THEN m ELSE n
  <1>1. \E x \in {m, n} : \A y \in {m, n} : x >= y
    OBVIOUS
  <1>2. \E x \in {m, n} : \A y \in {m, n} : x <= y
    OBVIOUS
  <1>3. Max({m, n}) \in {m, n} /\ \A y \in {m, n} : Max({m, n}) >= y
    BY <1>1 DEF Max
  <1>4. Min({m, n}) \in {m, n} /\ \A y \in {m, n} : Min({m, n}) <= y
    BY <1>2 DEF Min
  <1> QED
    BY <1>3, <1>4

\* The vector after resizeStorage.
Resized(a, n, t, b) ==
    /\ b = [length |-> a.length, storage |-> t, storageLength |-> n, sparse |-> a.sparse]
    /\ \E c \in Nat : n <= c /\ t \in [0 .. c - 1 -> Cells]
    /\ DOMAIN a.storage \subseteq DOMAIN t
    /\ \A i \in DOMAIN t :
        t[i] = IF i < n /\ i < a.storageLength THEN a.storage[i] ELSE Null

LEMMA ZeroFromIs ==
    ASSUME NEW a \in Layouts, NEW n \in Nat
    PROVE  /\ ZeroFrom(a, n) = [length |-> a.length, storage |-> ZeroFrom(a, n).storage,
                                storageLength |-> a.storageLength, sparse |-> a.sparse]
           /\ DOMAIN ZeroFrom(a, n).storage = DOMAIN a.storage
           /\ \A i \in DOMAIN a.storage : ZeroFrom(a, n).storage[i] =
                IF i < n /\ i < a.storageLength THEN a.storage[i] ELSE Null
  <1>1. PICK t : t = [i \in DOMAIN a.storage |->
                        IF n <= i /\ i < a.storageLength THEN Null ELSE a.storage[i]]
    OBVIOUS
  <1>2. a \in Arrays /\ Laid(a)
    BY DEF Layouts
  <1>3. ZeroFrom(a, n) = [length |-> a.length, storage |-> t,
                          storageLength |-> a.storageLength, sparse |-> a.sparse]
    <2>1. ZeroFrom(a, n) = [a EXCEPT !.storage = t]
      BY <1>1 DEF ZeroFrom
    <2> QED
      BY <1>2, <2>1, ArrayIs
  <1>4. PICK c \in Nat : DOMAIN a.storage = 0 .. c - 1
    BY <1>2, ArrayIs
  <1>5. ASSUME NEW i \in DOMAIN a.storage
        PROVE  t[i] = IF i < n /\ i < a.storageLength THEN a.storage[i] ELSE Null
    <2>1. i \in Nat /\ a.storageLength \in Nat
      BY <1>2, <1>4, ArrayIs
    <2>2. i >= a.storageLength => a.storage[i] = Null
      BY <1>2 DEF Laid
    <2> QED
      BY <1>1, <2>1, <2>2
  <1> QED
    BY <1>1, <1>3, <1>5

LEMMA ZeroFromMaps ==
    ASSUME NEW a \in Layouts, NEW n \in Nat, NEW y, y = ZeroFrom(a, n).storage
    PROVE  y = [i \in DOMAIN a.storage |-> y[i]]
  <1>1. PICK t : t = [i \in DOMAIN a.storage |->
                        IF n <= i /\ i < a.storageLength THEN Null ELSE a.storage[i]]
    OBVIOUS
  <1>2. a \in Arrays
    BY DEF Layouts
  <1>3. ZeroFrom(a, n) = [a EXCEPT !.storage = t]
    BY <1>1 DEF ZeroFrom
  <1>4. y = t
    BY <1>2, <1>3, ArrayIs
  <1> QED
    BY <1>1, <1>4

LEMMA ResizeIs ==
    ASSUME NEW a \in Layouts, NEW n \in Nat
    PROVE  \E t : Resized(a, n, t, resizeStorage(a, n))
  <1>1. a \in Arrays /\ Laid(a)
    BY DEF Layouts
  <1>2. PICK c \in Nat : a.storage \in [0 .. c - 1 -> Cells] /\ capacity(a) = c
    BY <1>1, ArrayIs
  <1>3. PICK z : z = ZeroFrom(a, n)
    OBVIOUS
  <1>4. /\ DOMAIN z.storage = DOMAIN a.storage
        /\ \A i \in DOMAIN a.storage :
            z.storage[i] = IF i < n /\ i < a.storageLength THEN a.storage[i] ELSE Null
    BY <1>3, ZeroFromIs
  <1>5. PICK k : k = IF n <= c THEN c
                     ELSE IF n > Cutoff THEN n ELSE Min({(n * 3 + 1) \div 2, Cutoff})
    OBVIOUS
  <1>6. k \in Nat /\ n <= k /\ c <= k
    <2>1. Cutoff \in Nat
      BY BoundsAssumption
    <2>2. (n * 3 + 1) \div 2 \in Nat /\ (n * 3 + 1) \div 2 >= n
      OBVIOUS
    <2>3. Min({(n * 3 + 1) \div 2, Cutoff}) =
            IF (n * 3 + 1) \div 2 <= Cutoff THEN (n * 3 + 1) \div 2 ELSE Cutoff
      BY <2>1, <2>2, LargerIs
    <2>4. CASE n <= c
      BY <1>5, <2>4
    <2>5. CASE ~(n <= c) /\ n > Cutoff
      BY <1>5, <2>5
    <2>6. CASE ~(n <= c) /\ ~(n > Cutoff)
      BY <1>5, <2>1, <2>2, <2>3, <2>6
    <2> QED
      BY <2>4, <2>5, <2>6
  <1>7. PICK t : t = [i \in 0 .. k - 1 |-> IF i < c THEN z.storage[i] ELSE Null]
    OBVIOUS
  <1>8. resizeStorage(a, n) = [length |-> a.length, storage |-> t, storageLength |-> n,
                               sparse |-> a.sparse]
    <2>1. resizeStorage(a, n) = [a EXCEPT !.storage = t, !.storageLength = n]
      BY <1>2, <1>3, <1>5, <1>7 DEF resizeStorage
    <2> QED
      BY <1>1, <2>1, ArrayIs
  <1>9. DOMAIN t = 0 .. k - 1
    BY <1>7
  <1>10. ASSUME NEW i \in 0 .. k - 1
         PROVE  t[i] = IF i < n /\ i < a.storageLength THEN a.storage[i] ELSE Null
    <2>1. i \in 0 .. c - 1 => t[i] = z.storage[i]
      BY <1>7
    <2>2. i \notin 0 .. c - 1 => t[i] = Null
      BY <1>7
    <2>3. i < a.storageLength => i \in 0 .. c - 1
      <3>1. a.storageLength \in Nat
        BY <1>1, ArrayIs
      <3>2. i < a.storageLength => i \in 0 .. a.storageLength - 1
        BY <3>1
      <3> QED
        BY <1>1, <1>2, <3>2 DEF Laid
    <2> QED
      BY <1>2, <1>4, <2>1, <2>2, <2>3
  <1>11. t \in [0 .. k - 1 -> Cells]
    <2>1. ASSUME NEW i \in 0 .. k - 1 PROVE t[i] \in Cells
      <3>1. i < a.storageLength => a.storage[i] \in Cells
        <4>1. a.storageLength \in Nat
          BY <1>1, ArrayIs
        <4>2. i < a.storageLength => i \in 0 .. a.storageLength - 1
          BY <4>1
        <4> QED
          BY <1>1, <1>2, <4>2 DEF Laid
      <3>2. Null \in Cells
        BY DEF Cells
      <3> QED
        BY <1>10, <3>1, <3>2
    <2>2. t = [i \in DOMAIN t |-> t[i]]
      BY <1>7
    <2> QED
      BY <1>9, <2>1, <2>2
  <1>12. DOMAIN a.storage \subseteq DOMAIN t
    BY <1>2, <1>6, <1>9
  <1> QED
    BY <1>6, <1>8, <1>9, <1>10, <1>11, <1>12 DEF Resized

\* Everything about an array with a layout that the proofs below start from.
LEMMA LayoutIs ==
    ASSUME NEW a \in Layouts
    PROVE  /\ a = [length |-> a.length, storage |-> a.storage,
                   storageLength |-> a.storageLength, sparse |-> a.sparse]
           /\ a.length \in Nat /\ a.storageLength \in Nat /\ a.storageLength <= a.length
           /\ \E c \in Nat : /\ a.storage \in [0 .. c - 1 -> Cells] /\ capacity(a) = c
                             /\ a.storageLength <= c
           /\ DOMAIN a.sparse \subseteq Nat /\ a.sparse \in [DOMAIN a.sparse -> Element]
           /\ \A i \in DOMAIN a.sparse : i >= Cutoff /\ i >= a.storageLength /\ i < a.length
           /\ \A i \in DOMAIN a.storage : i >= a.storageLength => a.storage[i] = Null
           /\ Cutoff \in Nat
  <1>1. a \in Arrays /\ Laid(a)
    BY DEF Layouts
  <1>2. PICK c \in Nat : a.storage \in [0 .. c - 1 -> Cells] /\ capacity(a) = c
    BY <1>1, ArrayIs
  <1>3. a.storageLength <= c
    <2>1. a.storageLength \in Nat /\ 0 .. a.storageLength - 1 \subseteq 0 .. c - 1
      BY <1>1, <1>2, ArrayIs DEF Laid
    <2>2. a.storageLength > 0 => a.storageLength - 1 \in 0 .. a.storageLength - 1
      BY <2>1
    <2>3. a.storageLength > 0 => a.storageLength - 1 \in 0 .. c - 1
      BY <2>1, <2>2
    <2> QED
      BY <2>1, <2>3
  <1> QED
    BY <1>1, <1>2, <1>3, ArrayIs, BoundsAssumption DEF Laid

\* The view of an array in terms of its stores.
LEMMA ViewIs ==
    ASSUME NEW a \in Layouts, NEW w, w = View(a)
    PROVE  /\ w \in [Nat -> Element]
           /\ \A i \in 0 .. a.storageLength - 1 :
                w[i] = IF a.storage[i] = Null THEN Undefined ELSE a.storage[i]
           /\ \A i \in DOMAIN a.sparse : w[i] = a.sparse[i]
           /\ \A i \in Nat : i >= a.storageLength /\ i \notin DOMAIN a.sparse => w[i] = Undefined
           /\ \A i \in Nat : i >= a.length => w[i] = Undefined
  <1>1. w \in [Nat -> Element] /\ \A i \in Nat : w[i] = get(a, i)
    BY ViewType
  <1>2. /\ a.storageLength \in Nat /\ DOMAIN a.sparse \subseteq Nat
        /\ \A i \in DOMAIN a.sparse : i >= a.storageLength
    BY LayoutIs
  <1>3. \A i \in Nat :
            /\ get(a, i) = IF i < a.storageLength
                           THEN IF a.storage[i] = Null THEN Undefined ELSE a.storage[i]
                           ELSE IF i \in DOMAIN a.sparse THEN a.sparse[i] ELSE Undefined
            /\ i >= a.length => get(a, i) = Undefined
    BY GetIs
  <1>4. ASSUME NEW i \in DOMAIN a.sparse PROVE w[i] = a.sparse[i]
    <2>1. i \in Nat /\ ~(i < a.storageLength)
      BY <1>2
    <2> QED
      BY <1>1, <1>3, <2>1
  <1>5. ASSUME NEW i \in 0 .. a.storageLength - 1
        PROVE  w[i] = IF a.storage[i] = Null THEN Undefined ELSE a.storage[i]
    <2>1. i \in Nat /\ i < a.storageLength
      BY <1>2
    <2> QED
      BY <1>1, <1>3, <2>1
  <1>6. ASSUME NEW i \in Nat, i >= a.storageLength, i \notin DOMAIN a.sparse
        PROVE  w[i] = Undefined
    <2>1. ~(i < a.storageLength)
      BY <1>2, <1>6
    <2> QED
      BY <1>1, <1>3, <1>6, <2>1
  <1> QED
    BY <1>1, <1>3, <1>4, <1>5, <1>6

\* b is a with element i set to v.
SetTo(a, b, i, v) ==
    /\ b \in Layouts
    /\ View(b) = [View(a) EXCEPT ![i] = v]
    /\ DOMAIN b.sparse \subseteq DOMAIN a.sparse \cup {i}

LEMMA PutIs ==
    ASSUME NEW a \in Layouts, NEW i \in Nat, NEW v \in Element
    PROVE  /\ SetTo(a, put(a, i, v), i, v)
           /\ put(a, i, v).length = IF i < a.length THEN a.length ELSE i + 1
  <1>1. PICK L : L = IF i < a.length THEN a.length ELSE i + 1
    OBVIOUS
  <1>2. /\ a = [length |-> a.length, storage |-> a.storage,
                storageLength |-> a.storageLength, sparse |-> a.sparse]
        /\ a.length \in Nat /\ a.storageLength \in Nat /\ a.storageLength <= a.length
        /\ DOMAIN a.sparse \subseteq Nat /\ a.sparse \in [DOMAIN a.sparse -> Element]
        /\ \A j \in DOMAIN a.sparse : j >= Cutoff /\ j >= a.storageLength /\ j < a.length
        /\ \A j \in DOMAIN a.storage : j >= a.storageLength => a.storage[j] = Null
        /\ Cutoff \in Nat
    BY LayoutIs
  <1>3. PICK c \in Nat : /\ a.storage \in [0 .. c - 1 -> Cells] /\ capacity(a) = c
                         /\ a.storageLength <= c
    BY LayoutIs
  <1>4. PICK u, w : u = View(a) /\ w = [u EXCEPT ![i] = v]
    OBVIOUS
  <1>5. /\ u \in [Nat -> Element]
        /\ \A j \in 0 .. a.storageLength - 1 :
            u[j] = IF a.storage[j] = Null THEN Undefined ELSE a.storage[j]
        /\ \A j \in DOMAIN a.sparse : u[j] = a.sparse[j]
        /\ \A j \in Nat : j >= a.storageLength /\ j \notin DOMAIN a.sparse => u[j] = Undefined
    BY <1>4, ViewIs
  <1>6. /\ w \in [Nat -> Element] /\ w[i] = v /\ \A j \in Nat : j # i => w[j] = u[j]
        /\ v # Null /\ v \in Cells /\ Null \in Cells
    <2>1. v # Null /\ v \in Cells /\ Null \in Cells
      BY SpecialAssumption DEF Cells, Element
    <2> QED
      BY <1>4, <1>5, <2>1
  <1>7. L \in Nat /\ i < L /\ a.length <= L /\ Max({a.length, i + 1}) = L
    <2>1. Max({a.length, i + 1}) = IF a.length >= i + 1 THEN a.length ELSE i + 1
      <3>1. a.length \in Int /\ i + 1 \in Int
        BY <1>2
      <3> QED
        BY ONLY <3>1, LargerIs
    <2> QED
      BY <1>1, <1>2, <2>1
  <1>8. CASE i < Cutoff /\ i >= a.storageLength
    <2>1. PICK t : Resized(a, i + 1, t, resizeStorage(a, i + 1))
      <3>1. i + 1 \in Nat
        OBVIOUS
      <3> QED
        BY <3>1, ResizeIs
    <2>2. PICK k \in Nat : i + 1 <= k /\ t \in [0 .. k - 1 -> Cells]
      BY <2>1 DEF Resized
    <2>3. \A j \in 0 .. k - 1 :
            t[j] = IF j < i + 1 /\ j < a.storageLength THEN a.storage[j] ELSE Null
      BY <2>1, <2>2 DEF Resized
    <2>4. PICK s : s = [t EXCEPT ![i] = v]
      OBVIOUS
    <2>5. /\ s \in [0 .. k - 1 -> Cells] /\ i \in 0 .. k - 1 /\ s[i] = v
          /\ \A j \in 0 .. k - 1 : j # i => s[j] = t[j]
      BY <1>6, <2>2, <2>4
    <2>6. put(a, i, v) = [length |-> L, storage |-> s, storageLength |-> i + 1,
                          sparse |-> a.sparse]
      <3>1. PICK r : r = resizeStorage(a, i + 1)
        OBVIOUS
      <3>2. r = [length |-> a.length, storage |-> t, storageLength |-> i + 1,
                 sparse |-> a.sparse]
        BY <2>1, <3>1 DEF Resized
      <3>3. PICK l : l = [r EXCEPT !.length = Max({r.length, i + 1})]
        OBVIOUS
      <3>4. l = [length |-> L, storage |-> t, storageLength |-> i + 1, sparse |-> a.sparse]
        <4>1. r.length = a.length
          BY <3>2
        <4> QED
          BY <1>7, <3>2, <3>3, <4>1
      <3>5. put(a, i, v) = [l EXCEPT !.storage[i] = v]
        <4>1. i < l.storageLength
          BY <3>4
        <4> QED
          BY <1>8, <3>1, <3>3, <4>1 DEF put
      <3> QED
        BY <2>4, <3>4, <3>5
    <2>7. \A j \in DOMAIN a.sparse : j >= Cutoff /\ j >= i + 1 /\ j < L /\ j # i
      BY <1>2, <1>7, <1>8
    <2>8. \A j \in 0 .. k - 1 : j >= i + 1 => s[j] = Null
      BY <2>3, <2>5
    <2>9. ASSUME NEW j \in 0 .. i
          PROVE  w[j] = IF s[j] = Null THEN Undefined ELSE s[j]
      <3>1. j \in 0 .. k - 1 /\ j \in Nat
        BY <2>2
      <3>2. CASE j = i
        BY <1>6, <2>5, <3>2
      <3>3. CASE j # i /\ j < a.storageLength
        <4>1. j \in 0 .. a.storageLength - 1 /\ j < i + 1
          BY <1>2, <3>3
        <4>2. s[j] = a.storage[j] /\ w[j] = u[j]
          BY <1>6, <2>3, <2>5, <3>1, <3>3, <4>1
        <4> QED
          BY <1>5, <4>1, <4>2
      <3>4. CASE j # i /\ ~(j < a.storageLength)
        <4>1. s[j] = Null
          BY <2>3, <2>5, <3>1, <3>4
        <4>2. j >= a.storageLength /\ j \notin DOMAIN a.sparse
          BY <1>2, <2>7, <3>4
        <4>3. u[j] = Undefined /\ w[j] = u[j]
          BY <1>5, <1>6, <3>1, <3>4, <4>2
        <4> QED
          BY <4>1, <4>3
      <3> QED
        BY <3>2, <3>3, <3>4
    <2>10. \A j \in DOMAIN a.sparse : w[j] = a.sparse[j]
      BY <1>2, <1>5, <1>6, <2>7
    <2>11. ASSUME NEW j \in Nat, j >= i + 1, j \notin DOMAIN a.sparse
           PROVE  w[j] = Undefined
      <3>1. j # i /\ j >= a.storageLength
        BY <1>2, <1>8, <2>11
      <3> QED
        BY <1>5, <1>6, <2>11, <3>1
    <2>12. /\ i + 1 \in Nat /\ i + 1 <= L /\ (i + 1) - 1 = i
      BY <1>7
    <2>13. put(a, i, v) \in Layouts /\ View(put(a, i, v)) = w /\ put(a, i, v).length = L
           /\ put(a, i, v).sparse = a.sparse
      <3>1. Stores(L, s, i + 1, a.sparse, w)
        BY <1>2, <1>6, <1>7, <2>2, <2>5, <2>7, <2>8, <2>9, <2>10, <2>11, <2>12 DEF Stores
      <3> QED
        BY ONLY <2>6, <3>1, LayoutShows
    <2> QED
      BY <1>1, <1>4, <2>13 DEF SetTo
  <1>9. CASE i < a.storageLength
    <2>1. PICK s : s = [a.storage EXCEPT ![i] = v]
      OBVIOUS
    <2>2. /\ s \in [0 .. c - 1 -> Cells] /\ i \in 0 .. c - 1 /\ s[i] = v
          /\ \A j \in 0 .. c - 1 : j # i => s[j] = a.storage[j]
      BY <1>2, <1>3, <1>6, <1>9, <2>1
    <2>3. put(a, i, v) = [length |-> L, storage |-> s, storageLength |-> a.storageLength,
                          sparse |-> a.sparse]
      <3>1. ~(i >= a.storageLength)
        BY <1>2, <1>9
      <3>2. PICK l : l = [a EXCEPT !.length = Max({a.length, i + 1})]
        OBVIOUS
      <3>3. l = [length |-> L, storage |-> a.storage, storageLength |-> a.storageLength,
                 sparse |-> a.sparse]
        BY <1>2, <1>7, <3>2
      <3>4. put(a, i, v) = [l EXCEPT !.storage[i] = v]
        BY <1>9, <3>1, <3>2, <3>3 DEF put
      <3> QED
        BY <2>1, <3>3, <3>4
    <2>4. \A j \in DOMAIN a.sparse : j >= Cutoff /\ j >= a.storageLength /\ j < L /\ j # i
      BY <1>2, <1>7, <1>9
    <2>5. \A j \in 0 .. c - 1 : j >= a.storageLength => s[j] = Null
      <3>1. \A j \in 0 .. c - 1 : j >= a.storageLength => j # i /\ a.storage[j] = Null
        BY <1>2, <1>3, <1>9
      <3> QED
        BY <2>2, <3>1
    <2>6. ASSUME NEW j \in 0 .. a.storageLength - 1
          PROVE  w[j] = IF s[j] = Null THEN Undefined ELSE s[j]
      <3>1. j \in 0 .. c - 1 /\ j \in Nat
        BY <1>2, <1>3
      <3>2. CASE j = i
        BY <1>6, <2>2, <3>2
      <3>3. CASE j # i
        BY <1>5, <1>6, <2>2, <3>1, <3>3
      <3> QED
        BY <3>2, <3>3
    <2>7. \A j \in DOMAIN a.sparse : w[j] = a.sparse[j]
      BY <1>2, <1>5, <1>6, <2>4
    <2>8. ASSUME NEW j \in Nat, j >= a.storageLength, j \notin DOMAIN a.sparse
          PROVE  w[j] = Undefined
      <3>1. j # i
        BY <1>2, <1>9, <2>8
      <3> QED
        BY <1>5, <1>6, <2>8, <3>1
    <2>9. a.storageLength <= L
      BY <1>2, <1>7
    <2>10. put(a, i, v) \in Layouts /\ View(put(a, i, v)) = w /\ put(a, i, v).length = L
           /\ put(a, i, v).sparse = a.sparse
      <3>1. Stores(L, s, a.storageLength, a.sparse, w)
        BY <1>2, <1>3, <1>6, <1>7, <2>2, <2>4, <2>5, <2>6, <2>7, <2>8, <2>9 DEF Stores
      <3> QED
        BY ONLY <2>3, <3>1, LayoutShows
    <2> QED
      BY <1>1, <1>4, <2>10 DEF SetTo
  <1>10. CASE i >= a.storageLength /\ ~(i < Cutoff)
    <2>1. PICK D, p : D = DOMAIN a.sparse \cup {i} /\ p = With(a.sparse, i, v)
      OBVIOUS
    <2>2. /\ p \in [D -> Element] /\ D \subseteq Nat /\ p[i] = v
          /\ \A j \in DOMAIN a.sparse : j # i => p[j] = a.sparse[j]
      BY <1>2, <2>1 DEF With
    <2>3. put(a, i, v) = [length |-> L, storage |-> a.storage,
                          storageLength |-> a.storageLength, sparse |-> p]
      <3>1. ~(i < a.storageLength)
        BY <1>2, <1>10
      <3>2. PICK l : l = [a EXCEPT !.length = Max({a.length, i + 1})]
        OBVIOUS
      <3>3. l = [length |-> L, storage |-> a.storage, storageLength |-> a.storageLength,
                 sparse |-> a.sparse]
        BY <1>2, <1>7, <3>2
      <3>4. put(a, i, v) = [l EXCEPT !.sparse = With(l.sparse, i, v)]
        BY <1>10, <3>1, <3>2, <3>3 DEF put
      <3> QED
        BY <2>1, <3>3, <3>4
    <2>4. \A j \in D : j >= Cutoff /\ j >= a.storageLength /\ j < L
      BY <1>2, <1>7, <1>10, <2>1
    <2>5. \A j \in 0 .. c - 1 : j >= a.storageLength => a.storage[j] = Null
      BY <1>2, <1>3
    <2>6. ASSUME NEW j \in 0 .. a.storageLength - 1
          PROVE  w[j] = IF a.storage[j] = Null THEN Undefined ELSE a.storage[j]
      <3>1. j \in Nat /\ j # i
        BY <1>2, <1>10
      <3> QED
        BY <1>5, <1>6, <3>1
    <2>7. \A j \in D : w[j] = p[j]
      BY <1>2, <1>5, <1>6, <2>1, <2>2
    <2>8. ASSUME NEW j \in Nat, j >= a.storageLength, j \notin D
          PROVE  w[j] = Undefined
      <3>1. j # i /\ j \notin DOMAIN a.sparse
        BY <2>1, <2>8
      <3> QED
        BY <1>5, <1>6, <2>8, <3>1
    <2>9. a.storageLength <= L
      BY <1>2, <1>7
    <2>10. put(a, i, v) \in Layouts /\ View(put(a, i, v)) = w /\ put(a, i, v).length = L
           /\ put(a, i, v).sparse = p
      <3>1. Stores(L, a.storage, a.storageLength, p, w)
        BY <1>2, <1>3, <1>6, <1>7, <2>2, <2>4, <2>5, <2>6, <2>7, <2>8, <2>9 DEF Stores
      <3> QED
        BY ONLY <2>3, <3>1, LayoutShows
    <2> QED
      BY <1>1, <1>4, <2>1, <2>2, <2>10 DEF SetTo
  <1> QED
    <2>1. i < a.storageLength \/ i >= a.storageLength
      BY <1>2
    <2> QED
      BY <1>8, <1>9, <1>10, <2>1

\* A set of a view, spelt out.
LEMMA SetView ==
    ASSUME NEW u \in [Nat -> Element], NEW i \in Nat, NEW v \in Element,
           NEW w, w = [u EXCEPT ![i] = v]
    PROVE  /\ w \in [Nat -> Element] /\ w[i] = v
           /\ \A j \in Nat : j # i => w[j] = u[j]
  OBVIOUS

LEMMA DeleteIs ==
    ASSUME NEW a \in Layouts, NEW i \in Nat
    PROVE  /\ SetTo(a, deleteProperty(a, i), i, Undefined)
           /\ deleteProperty(a, i).length = a.length
           /\ DOMAIN deleteProperty(a, i).sparse \subseteq DOMAIN a.sparse \ {i}
  <1>1. /\ a = [length |-> a.length, storage |-> a.storage,
                storageLength |-> a.storageLength, sparse |-> a.sparse]
        /\ a.length \in Nat /\ a.storageLength \in Nat /\ a.storageLength <= a.length
        /\ DOMAIN a.sparse \subseteq Nat /\ a.sparse \in [DOMAIN a.sparse -> Element]
        /\ \A j \in DOMAIN a.sparse : j >= Cutoff /\ j >= a.storageLength /\ j < a.length
        /\ \A j \in DOMAIN a.storage : j >= a.storageLength => a.storage[j] = Null
        /\ Cutoff \in Nat
    BY LayoutIs
  <1>2. PICK c \in Nat : /\ a.storage \in [0 .. c - 1 -> Cells] /\ capacity(a) = c
                         /\ a.storageLength <= c
    BY LayoutIs
  <1>3. PICK u, w : u = View(a) /\ w = [u EXCEPT ![i] = Undefined]
    OBVIOUS
  <1>4. /\ u \in [Nat -> Element]
        /\ \A j \in 0 .. a.storageLength - 1 :
            u[j] = IF a.storage[j] = Null THEN Undefined ELSE a.storage[j]
        /\ \A j \in DOMAIN a.sparse : u[j] = a.sparse[j]
        /\ \A j \in Nat : j >= a.storageLength /\ j \notin DOMAIN a.sparse => u[j] = Undefined
        /\ \A j \in Nat : j >= a.length => u[j] = Undefined
    BY <1>3, ViewIs
  <1>5. Undefined \in Element /\ Null \in Cells
    BY DEF Cells, Element
  <1>6. w \in [Nat -> Element] /\ w[i] = Undefined /\ \A j \in Nat : j # i => w[j] = u[j]
    BY <1>3, <1>4, <1>5, SetView
  <1>7. CASE i >= a.length
    <2>1. deleteProperty(a, i) = a
      BY <1>7 DEF deleteProperty
    <2>2. w = u
      <3>1. \A j \in Nat : w[j] = u[j]
        BY <1>4, <1>6, <1>7
      <3> QED
        BY <1>4, <1>6, <3>1
    <2>3. i \notin DOMAIN a.sparse
      BY <1>1, <1>7
    <2> QED
      BY <1>3, <2>1, <2>2, <2>3 DEF SetTo
  <1>8. CASE ~(i >= a.length) /\ i < a.storageLength
    <2>1. PICK s : s = [a.storage EXCEPT ![i] = Null]
      OBVIOUS
    <2>2. /\ s \in [0 .. c - 1 -> Cells] /\ i \in 0 .. c - 1 /\ s[i] = Null
          /\ \A j \in 0 .. c - 1 : j # i => s[j] = a.storage[j]
      BY <1>1, <1>2, <1>5, <1>8, <2>1
    <2>3. deleteProperty(a, i) = [length |-> a.length, storage |-> s,
                                  storageLength |-> a.storageLength, sparse |-> a.sparse]
      <3>1. deleteProperty(a, i) = [a EXCEPT !.storage[i] = Null]
        BY <1>8 DEF deleteProperty
      <3> QED
        BY <1>1, <2>1, <3>1
    <2>4. \A j \in DOMAIN a.sparse : j # i
      BY <1>1, <1>8
    <2>5. \A j \in 0 .. c - 1 : j >= a.storageLength => s[j] = Null
      BY <1>1, <1>2, <2>2
    <2>6. ASSUME NEW j \in 0 .. a.storageLength - 1
          PROVE  w[j] = IF s[j] = Null THEN Undefined ELSE s[j]
      <3>1. j \in 0 .. c - 1 /\ j \in Nat
        BY <1>1, <1>2
      <3>2. CASE j = i
        BY <1>6, <2>2, <3>2
      <3>3. CASE j # i
        BY <1>4, <1>6, <2>2, <3>1, <3>3
      <3> QED
        BY <3>2, <3>3
    <2>7. \A j \in DOMAIN a.sparse : w[j] = a.sparse[j]
      BY <1>1, <1>4, <1>6, <2>4
    <2>8. \A j \in Nat : j >= a.storageLength /\ j \notin DOMAIN a.sparse => w[j] = Undefined
      BY <1>4, <1>6
    <2>9. PICK b : b = deleteProperty(a, i)
      OBVIOUS
    <2>10. b \in Layouts /\ View(b) = w /\ b.length = a.length /\ b.sparse = a.sparse
      <3>1. Stores(a.length, s, a.storageLength, a.sparse, w)
        BY <1>1, <1>2, <1>6, <2>2, <2>5, <2>6, <2>7, <2>8 DEF Stores
      <3> QED
        BY ONLY <2>3, <2>9, <3>1, LayoutShows
    <2>11. DOMAIN b.sparse \subseteq DOMAIN a.sparse \ {i}
      BY <2>4, <2>10
    <2>12. SetTo(a, b, i, Undefined)
      BY <1>3, <2>10, <2>11 DEF SetTo
    <2> QED
      BY <2>9, <2>10, <2>11, <2>12
  <1>9. CASE ~(i >= a.length) /\ ~(i < a.storageLength)
    <2>1. PICK p : p = Without(a.sparse, {i})
      OBVIOUS
    <2>2. /\ DOMAIN p = DOMAIN a.sparse \ {i} /\ p \in [DOMAIN p -> Element]
          /\ \A j \in DOMAIN p : j # i /\ p[j] = a.sparse[j]
      BY <1>1, <2>1 DEF Without
    <2>3. deleteProperty(a, i) = [length |-> a.length, storage |-> a.storage,
                                  storageLength |-> a.storageLength, sparse |-> p]
      <3>1. deleteProperty(a, i) = [a EXCEPT !.sparse = p]
        BY <1>9, <2>1 DEF deleteProperty
      <3> QED
        BY <1>1, <3>1
    <2>4. \A j \in DOMAIN p : j \in Nat /\ j >= Cutoff /\ j >= a.storageLength /\ j < a.length
      BY <1>1, <2>2
    <2>5. ASSUME NEW j \in 0 .. a.storageLength - 1
          PROVE  w[j] = IF a.storage[j] = Null THEN Undefined ELSE a.storage[j]
      <3>1. j \in Nat /\ j # i
        BY <1>1, <1>9
      <3> QED
        BY <1>4, <1>6, <3>1
    <2>6. \A j \in DOMAIN p : w[j] = p[j]
      BY <1>1, <1>4, <1>6, <2>2, <2>4
    <2>7. \A j \in Nat : j >= a.storageLength /\ j \notin DOMAIN p => w[j] = Undefined
      BY <1>4, <1>6, <2>2
    <2>8. PICK b : b = deleteProperty(a, i)
      OBVIOUS
    <2>9. b \in Layouts /\ View(b) = w /\ b.length = a.length /\ b.sparse = p
      <3>1. Stores(a.length, a.storage, a.storageLength, p, w)
        BY <1>1, <1>2, <1>6, <2>2, <2>4, <2>5, <2>6, <2>7 DEF Stores
      <3> QED
        BY ONLY <2>3, <2>8, <3>1, LayoutShows
    <2>10. DOMAIN b.sparse \subseteq DOMAIN a.sparse \ {i}
      BY <2>2, <2>9
    <2>11. SetTo(a, b, i, Undefined)
      BY <1>3, <2>9, <2>10 DEF SetTo
    <2> QED
      BY <2>8, <2>9, <2>10, <2>11
  <1> QED
    BY <1>7, <1>8, <1>9

LEMMA CopyIs ==
    ASSUME NEW a \in Layouts, NEW from \in Nat, NEW to \in Nat
    PROVE  /\ SetTo(a, Copy(a, from, to), to, View(a)[from])
           /\ Copy(a, from, to).length \in {a.length, IF to < a.length THEN a.length ELSE to + 1}
  <1>1. /\ View(a)[from] = get(a, from) /\ get(a, from) \in Element
    BY ViewType, GetIs
  <1>2. CASE getProperty(a, from) = Null
    <2>1. get(a, from) = Undefined
      BY <1>2, GetIs
    <2> QED
      BY <1>1, <1>2, <2>1, DeleteIs DEF Copy
  <1>3. CASE getProperty(a, from) # Null
    <2>1. get(a, from) = getProperty(a, from)
      BY <1>3, GetIs
    <2>2. PICK v \in Element : v = getProperty(a, from)
      BY <1>1, <2>1
    <2>3. /\ SetTo(a, put(a, to, v), to, v)
          /\ put(a, to, v).length = IF to < a.length THEN a.length ELSE to + 1
      BY PutIs
    <2>4. Copy(a, from, to) = put(a, to, v)
      BY <1>3, <2>2 DEF Copy
    <2> QED
      BY <1>1, <2>1, <2>2, <2>3, <2>4
  <1> QED
    BY <1>2, <1>3

\* The length may be set to n if n is not the name of a property.
LEMMA SetLengthIs ==
    ASSUME NEW a \in Layouts, NEW n \in Nat, n \notin DOMAIN a.sparse
    PROVE  /\ setLength(a, n) \in Layouts /\ setLength(a, n).length = n
           /\ View(setLength(a, n)) = [i \in Nat |-> IF i < n THEN View(a)[i] ELSE Undefined]
  <1>1. /\ a = [length |-> a.length, storage |-> a.storage,
                storageLength |-> a.storageLength, sparse |-> a.sparse]
        /\ a.length \in Nat /\ a.storageLength \in Nat /\ a.storageLength <= a.length
        /\ DOMAIN a.sparse \subseteq Nat /\ a.sparse \in [DOMAIN a.sparse -> Element]
        /\ \A j \in DOMAIN a.sparse : j >= Cutoff /\ j >= a.storageLength /\ j < a.length
        /\ \A j \in DOMAIN a.storage : j >= a.storageLength => a.storage[j] = Null
        /\ Cutoff \in Nat
    BY LayoutIs
  <1>2. PICK c \in Nat : /\ a.storage \in [0 .. c - 1 -> Cells] /\ capacity(a) = c
                         /\ a.storageLength <= c
    BY LayoutIs
  <1>3. PICK u, w : u = View(a) /\ w = [i \in Nat |-> IF i < n THEN u[i] ELSE Undefined]
    OBVIOUS
  <1>4. /\ u \in [Nat -> Element]
        /\ \A j \in 0 .. a.storageLength - 1 :
            u[j] = IF a.storage[j] = Null THEN Undefined ELSE a.storage[j]
        /\ \A j \in DOMAIN a.sparse : u[j] = a.sparse[j]
        /\ \A j \in Nat : j >= a.storageLength /\ j \notin DOMAIN a.sparse => u[j] = Undefined
        /\ \A j \in Nat : j >= a.length => u[j] = Undefined
    BY <1>3, ViewIs
  <1>5. w \in [Nat -> Element] /\ \A j \in Nat : w[j] = IF j < n THEN u[j] ELSE Undefined
    <2>1. Undefined \in Element
      BY DEF Element
    <2> QED
      BY <1>3, <1>4, <2>1
  <1>6. PICK r : r = IF n <= a.storageLength THEN resizeStorage(a, n) ELSE a
    OBVIOUS
  <1>7. PICK m : m = IF n <= a.storageLength THEN n ELSE a.storageLength
    OBVIOUS
  <1>8. \E s : /\ r = [length |-> a.length, storage |-> s, storageLength |-> m,
                       sparse |-> a.sparse]
               /\ \E k \in Nat : m <= k /\ s \in [0 .. k - 1 -> Cells]
               /\ \A j \in DOMAIN s :
                    s[j] = IF j < m THEN a.storage[j] ELSE Null
    <2>1. CASE n <= a.storageLength
      <3>1. PICK t : Resized(a, n, t, r)
        BY <1>6, <2>1, ResizeIs
      <3>2. PICK k \in Nat : n <= k /\ t \in [0 .. k - 1 -> Cells]
        BY <3>1 DEF Resized
      <3>3. ASSUME NEW j \in 0 .. k - 1 PROVE t[j] = IF j < m THEN a.storage[j] ELSE Null
        <4>1. t[j] = IF j < n /\ j < a.storageLength THEN a.storage[j] ELSE Null
          BY <3>1, <3>2 DEF Resized
        <4> QED
          BY <1>1, <1>7, <2>1, <4>1
      <3> QED
        BY <1>7, <2>1, <3>1, <3>2, <3>3 DEF Resized
    <2>2. CASE ~(n <= a.storageLength)
      <3>1. \A j \in 0 .. c - 1 : a.storage[j] = IF j < m THEN a.storage[j] ELSE Null
        BY <1>1, <1>2, <1>7, <2>2
      <3>2. r = [length |-> a.length, storage |-> a.storage, storageLength |-> m,
                 sparse |-> a.sparse]
        BY <1>1, <1>6, <1>7, <2>2
      <3>3. m <= c
        BY <1>2, <1>7, <2>2
      <3> QED
        BY <1>2, <3>1, <3>2, <3>3
    <2> QED
      BY <2>1, <2>2
  <1>9. PICK s : /\ r = [length |-> a.length, storage |-> s, storageLength |-> m,
                         sparse |-> a.sparse]
                 /\ \E k \in Nat : m <= k /\ s \in [0 .. k - 1 -> Cells]
                 /\ \A j \in DOMAIN s : s[j] = IF j < m THEN a.storage[j] ELSE Null
    BY <1>8
  <1>10. PICK k \in Nat : m <= k /\ s \in [0 .. k - 1 -> Cells]
    BY <1>9
  <1>11. PICK p : p = Without(a.sparse, {i \in DOMAIN a.sparse : n < i /\ i < a.length})
    OBVIOUS
  <1>12. /\ DOMAIN p = {i \in DOMAIN a.sparse : i < n} /\ p \in [DOMAIN p -> Element]
         /\ \A j \in DOMAIN p : p[j] = a.sparse[j]
    <2>1. \A j \in DOMAIN a.sparse : (n < j /\ j < a.length) <=> ~(j < n)
      BY <1>1
    <2> QED
      BY <1>1, <1>11, <2>1 DEF Without
  <1>13. setLength(a, n) = [length |-> n, storage |-> s, storageLength |-> m, sparse |-> p]
    <2>1. r.length = a.length /\ r.sparse = a.sparse
      BY <1>9
    <2>2. setLength(a, n) = [r EXCEPT !.sparse = p, !.length = n]
      BY <1>6, <1>11, <2>1 DEF setLength
    <2> QED
      BY <1>9, <2>2
  <1>14. m \in Nat /\ m <= n /\ m <= a.storageLength
    BY <1>1, <1>7
  <1>15. \A j \in DOMAIN p : j \in Nat /\ j >= Cutoff /\ j >= m /\ j < n
    BY <1>1, <1>12, <1>14
  <1>16. \A j \in DOMAIN s : j >= m => s[j] = Null
    BY <1>9, <1>10, <1>14
  <1>17. ASSUME NEW j \in 0 .. m - 1
         PROVE  w[j] = IF s[j] = Null THEN Undefined ELSE s[j]
    <2>1. j \in 0 .. k - 1 /\ j \in Nat /\ j < n /\ j \in 0 .. a.storageLength - 1 /\ j < m
      BY <1>1, <1>10, <1>14
    <2>2. s[j] = a.storage[j]
      BY <1>9, <1>10, <2>1
    <2> QED
      BY <1>4, <1>5, <2>1, <2>2
  <1>18. \A j \in DOMAIN p : w[j] = p[j]
    BY <1>4, <1>5, <1>12, <1>15
  <1>19. ASSUME NEW j \in Nat, j >= m, j \notin DOMAIN p PROVE w[j] = Undefined
    <2>1. CASE j < n
      <3>1. j >= a.storageLength
        BY <1>1, <1>7, <1>19, <2>1
      <3>2. j \notin DOMAIN a.sparse
        BY <1>12, <1>19, <2>1
      <3> QED
        BY <1>4, <1>5, <2>1, <3>1, <3>2
    <2>2. CASE ~(j < n)
      BY <1>5, <2>2
    <2> QED
      BY <2>1, <2>2
  <1>20. Stores(n, s, m, p, w)
    BY <1>5, <1>10, <1>12, <1>14, <1>15, <1>16, <1>17, <1>18, <1>19 DEF Stores
  <1>21. PICK b : b = setLength(a, n)
    OBVIOUS
  <1>22. b \in Layouts /\ View(b) = w /\ b.length = n
    BY ONLY <1>13, <1>20, <1>21, LayoutShows
  <1> QED
    BY <1>3, <1>21, <1>22

------------------------------------------------------------------------------
(* The loops: each pass starts from what the last one left.                *)

LEMMA CopiesRun ==
    ASSUME NEW a \in Layouts, NEW s \in Seq(Nat), NEW d \in Int,
           \A n \in 1 .. Len(s) : s[n] + d \in Nat
    PROVE  \E f :
            /\ f[0] = a
            /\ \A n \in 1 .. Len(s) : f[n] = Copy(f[n - 1], s[n], s[n] + d)
            /\ CopyAll(a, s, d) = f[Len(s)]
  <1> DEFINE N == Len(s)
             A == Layouts
             next(b, n) == Copy(b, s[n], s[n] + d)
             step == [n \in 1 .. N |-> [b \in A |-> next(b, n)]]
             loop[i \in 0 .. N] == IF i = 0 THEN a ELSE Copy(loop[i - 1], s[i], s[i] + d)
  <1>0. N \in Nat
    OBVIOUS
  <1>1. step \in [1 .. N -> [A -> A]]
    <2>1. ASSUME NEW n \in 1 .. N, NEW b \in A PROVE next(b, n) \in A
      <3>1. s[n] \in Nat /\ s[n] + d \in Nat
        OBVIOUS
      <3> QED
        BY <2>1, <3>1, CopyIs DEF SetTo
    <2> HIDE DEF A, next
    <2> QED
      BY <2>1
  <1>2. PICK f : Run(N, A, a, step, f)
    <2> HIDE DEF step
    <2>1. N \in Nat /\ a \in A
      OBVIOUS
    <2> HIDE DEF A, N
    <2> QED
      BY <1>1, <2>1, Recursion
  <1>3. /\ f[0] = a /\ \A n \in 1 .. N : f[n] = next(f[n - 1], n)
        /\ f \in [0 .. N -> A]
    <2>1. ASSUME NEW n \in 1 .. N PROVE f[n] = next(f[n - 1], n)
      <3>1. n - 1 \in 0 .. N
        BY <1>0
      <3>2. f[n - 1] \in A /\ f[n] = step[n][f[n - 1]]
        <4> HIDE DEF A, step
        <4> QED
          BY <1>2, <3>1 DEF Run
      <3> HIDE DEF A, next
      <3> QED
        BY <3>2
    <2>2. f[0] = a /\ f \in [0 .. N -> A]
      <3> HIDE DEF A, step, N
      <3> QED
        BY <1>2 DEF Run
    <2> QED
      BY <2>1, <2>2
  <1>4. f = [i \in 0 .. N |-> IF i = 0 THEN a ELSE Copy(f[i - 1], s[i], s[i] + d)]
    <2>1. \A n \in 0 .. N : n = 0 \/ n \in 1 .. N
      BY <1>0
    <2> HIDE DEF A, N
    <2> QED
      BY <1>3, <2>1
  <1>5. loop = [i \in 0 .. N |-> IF i = 0 THEN a ELSE Copy(loop[i - 1], s[i], s[i] + d)]
    <2> HIDE DEF N
    <2> QED
      BY <1>4, Zenon
  <1>6. CopyAll(a, s, d) = loop[N]
    BY DEF CopyAll
  <1> HIDE DEF loop
  <1>7. ASSUME NEW n \in 1 .. N PROVE loop[n] = next(loop[n - 1], n)
    <2>1. n \in 0 .. N /\ n # 0
      BY <1>0
    <2> HIDE DEF N
    <2> QED
      BY <1>5, <2>1
  <1>8. loop[0] = a
    <2>1. 0 \in 0 .. N
      BY <1>0
    <2> HIDE DEF N
    <2> QED
      BY <1>5, <2>1
  <1> QED
    BY <1>6, <1>7, <1>8

LEMMA DeletionsRun ==
    ASSUME NEW a \in Layouts, NEW s \in Seq(Nat)
    PROVE  \E f :
            /\ f[0] = a
            /\ \A n \in 1 .. Len(s) : f[n] = deleteProperty(f[n - 1], s[n])
            /\ DeleteAll(a, s) = f[Len(s)]
  <1> DEFINE N == Len(s)
             A == Layouts
             next(b, n) == deleteProperty(b, s[n])
             step == [n \in 1 .. N |-> [b \in A |-> next(b, n)]]
             loop[i \in 0 .. N] == IF i = 0 THEN a ELSE deleteProperty(loop[i - 1], s[i])
  <1>0. N \in Nat
    OBVIOUS
  <1>1. step \in [1 .. N -> [A -> A]]
    <2>1. ASSUME NEW n \in 1 .. N, NEW b \in A PROVE next(b, n) \in A
      <3>1. s[n] \in Nat
        OBVIOUS
      <3> QED
        BY <2>1, <3>1, DeleteIs DEF SetTo
    <2> HIDE DEF A, next
    <2> QED
      BY <2>1
  <1>2. PICK f : Run(N, A, a, step, f)
    <2> HIDE DEF step
    <2>1. N \in Nat /\ a \in A
      OBVIOUS
    <2> HIDE DEF A, N
    <2> QED
      BY <1>1, <2>1, Recursion
  <1>3. /\ f[0] = a /\ \A n \in 1 .. N : f[n] = next(f[n - 1], n)
        /\ f \in [0 .. N -> A]
    <2>1. ASSUME NEW n \in 1 .. N PROVE f[n] = next(f[n - 1], n)
      <3>1. n - 1 \in 0 .. N
        BY <1>0
      <3>2. f[n - 1] \in A /\ f[n] = step[n][f[n - 1]]
        <4> HIDE DEF A, step
        <4> QED
          BY <1>2, <3>1 DEF Run
      <3> HIDE DEF A, next
      <3> QED
        BY <3>2
    <2>2. f[0] = a /\ f \in [0 .. N -> A]
      <3> HIDE DEF A, step, N
      <3> QED
        BY <1>2 DEF Run
    <2> QED
      BY <2>1, <2>2
  <1>4. f = [i \in 0 .. N |-> IF i = 0 THEN a ELSE deleteProperty(f[i - 1], s[i])]
    <2>1. \A n \in 0 .. N : n = 0 \/ n \in 1 .. N
      BY <1>0
    <2> HIDE DEF A, N
    <2> QED
      BY <1>3, <2>1
  <1>5. loop = [i \in 0 .. N |-> IF i = 0 THEN a ELSE deleteProperty(loop[i - 1], s[i])]
    <2> HIDE DEF N
    <2> QED
      BY <1>4, Zenon
  <1>6. DeleteAll(a, s) = loop[N]
    BY DEF DeleteAll
  <1> HIDE DEF loop
  <1>7. ASSUME NEW n \in 1 .. N PROVE loop[n] = next(loop[n - 1], n)
    <2>1. n \in 0 .. N /\ n # 0
      BY <1>0
    <2> HIDE DEF N
    <2> QED
      BY <1>5, <2>1
  <1>8. loop[0] = a
    <2>1. 0 \in 0 .. N
      BY <1>0
    <2> HIDE DEF N
    <2> QED
      BY <1>5, <2>1
  <1> QED
    BY <1>6, <1>7, <1>8

LEMMA PutsRun ==
    ASSUME NEW a \in Layouts, NEW i \in Nat, NEW args \in Seq(Element)
    PROVE  \E f :
            /\ f[0] = a
            /\ \A n \in 1 .. Len(args) : f[n] = put(f[n - 1], i + n - 1, args[n])
            /\ PutAll(a, i, args) = f[Len(args)]
  <1> DEFINE N == Len(args)
             A == Layouts
             next(b, n) == put(b, i + n - 1, args[n])
             step == [n \in 1 .. N |-> [b \in A |-> next(b, n)]]
             loop[j \in 0 .. N] == IF j = 0 THEN a ELSE put(loop[j - 1], i + j - 1, args[j])
  <1>0. N \in Nat
    OBVIOUS
  <1>1. step \in [1 .. N -> [A -> A]]
    <2>1. ASSUME NEW n \in 1 .. N, NEW b \in A PROVE next(b, n) \in A
      <3>1. i + n - 1 \in Nat /\ args[n] \in Element
        <4>1. n \in Nat /\ n >= 1
          OBVIOUS
        <4>2. i + n - 1 \in Nat
          BY ONLY <4>1, i \in Nat
        <4> QED
          BY <4>2
      <3> QED
        BY <2>1, <3>1, PutIs DEF SetTo
    <2> HIDE DEF A, next
    <2> QED
      BY <2>1
  <1>2. PICK f : Run(N, A, a, step, f)
    <2> HIDE DEF step
    <2>1. N \in Nat /\ a \in A
      OBVIOUS
    <2> HIDE DEF A, N
    <2> QED
      BY <1>1, <2>1, Recursion
  <1>3. /\ f[0] = a /\ \A n \in 1 .. N : f[n] = next(f[n - 1], n)
        /\ f \in [0 .. N -> A]
    <2>1. ASSUME NEW n \in 1 .. N PROVE f[n] = next(f[n - 1], n)
      <3>1. n - 1 \in 0 .. N
        BY <1>0
      <3>2. f[n - 1] \in A /\ f[n] = step[n][f[n - 1]]
        <4> HIDE DEF A, step
        <4> QED
          BY <1>2, <3>1 DEF Run
      <3> HIDE DEF A, next
      <3> QED
        BY <3>2
    <2>2. f[0] = a /\ f \in [0 .. N -> A]
      <3> HIDE DEF A, step, N
      <3> QED
        BY <1>2 DEF Run
    <2> QED
      BY <2>1, <2>2
  <1>4. f = [j \in 0 .. N |-> IF j = 0 THEN a ELSE put(f[j - 1], i + j - 1, args[j])]
    <2>1. \A n \in 0 .. N : n = 0 \/ n \in 1 .. N
      BY <1>0
    <2> HIDE DEF A, N
    <2> QED
      BY <1>3, <2>1
  <1>5. loop = [j \in 0 .. N |-> IF j = 0 THEN a ELSE put(loop[j - 1], i + j - 1, args[j])]
    <2> HIDE DEF N
    <2> QED
      BY <1>4, Zenon
  <1>6. PutAll(a, i, args) = loop[N]
    BY DEF PutAll
  <1> HIDE DEF loop
  <1>7. ASSUME NEW n \in 1 .. N PROVE loop[n] = next(loop[n - 1], n)
    <2>1. n \in 0 .. N /\ n # 0
      BY <1>0
    <2> HIDE DEF N
    <2> QED
      BY <1>5, <2>1
  <1>8. loop[0] = a
    <2>1. 0 \in 0 .. N
      BY <1>0
    <2> HIDE DEF N
    <2> QED
      BY <1>5, <2>1
  <1> QED
    BY <1>6, <1>7, <1>8

\* b is a with elements i and j changed round.
Swapped(a, b, i, j) ==
    /\ b \in Layouts
    /\ View(b) = [View(a) EXCEPT ![i] = View(a)[j], ![j] = View(a)[i]]
    /\ DOMAIN b.sparse \subseteq DOMAIN a.sparse \cup {i, j}

LEMMA SwapIs ==
    ASSUME NEW a \in Layouts, NEW i \in Nat, NEW j \in Nat
    PROVE  /\ Swapped(a, Swap(a, i, j), i, j)
           /\ i < a.length /\ j < a.length => Swap(a, i, j).length = a.length
  <1>1. PICK b : b = Copy(a, j, i)
    OBVIOUS
  <1>2. /\ SetTo(a, b, i, View(a)[j])
        /\ b.length \in {a.length, IF i < a.length THEN a.length ELSE i + 1}
    BY <1>1, CopyIs
  <1>3. b \in Layouts /\ DOMAIN b.sparse \subseteq DOMAIN a.sparse \cup {i}
    BY <1>2 DEF SetTo
  <1>4. /\ View(a)[i] = get(a, i) /\ get(a, i) \in Element
        /\ getProperty(a, i) = Null => get(a, i) = Undefined
        /\ getProperty(a, i) # Null => get(a, i) = getProperty(a, i)
    BY ViewType, GetIs
  <1>5. PICK c : c = Swap(a, i, j)
    OBVIOUS
  <1>6. SetTo(b, c, j, View(a)[i]) /\ (j < b.length => c.length = b.length)
    <2>1. CASE getProperty(a, i) = Null
      <3>1. c = deleteProperty(b, j)
        BY <1>1, <1>5, <2>1 DEF Swap
      <3> QED
        BY <1>3, <1>4, <2>1, <3>1, DeleteIs
    <2>2. CASE getProperty(a, i) # Null
      <3>1. c = put(b, j, View(a)[i])
        BY <1>1, <1>4, <1>5, <2>2 DEF Swap
      <3> QED
        BY <1>3, <1>4, <3>1, PutIs
    <2> QED
      BY <2>1, <2>2
  <1>7. Swapped(a, c, i, j)
    <2>1. PICK u, w : u = View(a) /\ w = View(b)
      OBVIOUS
    <2>2. u \in [Nat -> Element]
      BY <2>1, ViewType
    <2>3. w = [u EXCEPT ![i] = u[j]] /\ View(c) = [w EXCEPT ![j] = u[i]]
      BY <1>2, <1>6, <2>1 DEF SetTo
    <2>4. View(c) = [u EXCEPT ![i] = u[j], ![j] = u[i]]
      BY <2>2, <2>3
    <2>5. c \in Layouts /\ DOMAIN c.sparse \subseteq DOMAIN a.sparse \cup {i, j}
      BY <1>3, <1>6 DEF SetTo
    <2> QED
      BY <2>1, <2>4, <2>5 DEF Swapped
  <1>8. ASSUME i < a.length, j < a.length PROVE c.length = a.length
    BY <1>2, <1>6, <1>8
  <1> QED
    BY <1>5, <1>7, <1>8

LEMMA SwapsRun ==
    ASSUME NEW a \in Layouts
    PROVE  \E f :
            /\ f[0] = a
            /\ \A n \in 1 .. (a.length \div 2) : f[n] = Swap(f[n - 1], n - 1, a.length - n)
            /\ reverse(a) = f[(a.length \div 2)]
  <1> DEFINE N == (a.length \div 2)
             A == Layouts
             next(b, n) == Swap(b, n - 1, a.length - n)
             step == [n \in 1 .. N |-> [b \in A |-> next(b, n)]]
             loop[i \in 0 .. N] == IF i = 0 THEN a ELSE Swap(loop[i - 1], i - 1, a.length - i)
  <1>0. N \in Nat
    <2>1. a.length \in Nat
      BY LayoutIs
    <2> QED
      BY <2>1
  <1>1. step \in [1 .. N -> [A -> A]]
    <2>1. ASSUME NEW n \in 1 .. N, NEW b \in A PROVE next(b, n) \in A
      <3>1. a.length \in Nat
        BY LayoutIs
      <3>2. n - 1 \in Nat /\ a.length - n \in Nat
        BY <3>1
      <3> QED
        BY <2>1, <3>2, SwapIs DEF Swapped
    <2> HIDE DEF A, next
    <2> QED
      BY <2>1
  <1>2. PICK f : Run(N, A, a, step, f)
    <2> HIDE DEF step
    <2>1. N \in Nat /\ a \in A
      BY <1>0
    <2> HIDE DEF A, N
    <2> QED
      BY <1>1, <2>1, Recursion
  <1>3. /\ f[0] = a /\ \A n \in 1 .. N : f[n] = next(f[n - 1], n)
        /\ f \in [0 .. N -> A]
    <2>1. ASSUME NEW n \in 1 .. N PROVE f[n] = next(f[n - 1], n)
      <3>1. n - 1 \in 0 .. N
        BY <1>0
      <3>2. f[n - 1] \in A /\ f[n] = step[n][f[n - 1]]
        <4> HIDE DEF A, step
        <4> QED
          BY <1>2, <3>1 DEF Run
      <3> HIDE DEF A, next
      <3> QED
        BY <3>2
    <2>2. f[0] = a /\ f \in [0 .. N -> A]
      <3> HIDE DEF A, step, N
      <3> QED
        BY <1>2 DEF Run
    <2> QED
      BY <2>1, <2>2
  <1>4. f = [i \in 0 .. N |-> IF i = 0 THEN a ELSE Swap(f[i - 1], i - 1, a.length - i)]
    <2>1. \A n \in 0 .. N : n = 0 \/ n \in 1 .. N
      BY <1>0
    <2> HIDE DEF A, N
    <2> QED
      BY <1>3, <2>1
  <1>5. loop = [i \in 0 .. N |-> IF i = 0 THEN a ELSE Swap(loop[i - 1], i - 1, a.length - i)]
    <2> HIDE DEF N
    <2> QED
      BY <1>4, Zenon
  <1>6. reverse(a) = loop[N]
    BY DEF reverse
  <1> HIDE DEF loop
  <1>7. ASSUME NEW n \in 1 .. N PROVE loop[n] = next(loop[n - 1], n)
    <2>1. n \in 0 .. N /\ n # 0
      BY <1>0
    <2> HIDE DEF N
    <2> QED
      BY <1>5, <2>1
  <1>8. loop[0] = a
    <2>1. 0 \in 0 .. N
      BY <1>0
    <2> HIDE DEF N
    <2> QED
      BY <1>5, <2>1
  <1> QED
    BY <1>6, <1>7, <1>8

LEMMA UpIs ==
    ASSUME NEW m \in Nat, NEW n \in Int, m <= n + 1
    PROVE  /\ Up(m, n) \in Seq(Nat) /\ Len(Up(m, n)) = n - m + 1
           /\ \A k \in 1 .. Len(Up(m, n)) : Up(m, n)[k] = m + k - 1
  <1>1. n - m + 1 \in Nat
    OBVIOUS
  <1>2. PICK t : t = Up(m, n)
    OBVIOUS
  <1>3. t = [i \in 1 .. n - m + 1 |-> m + i - 1]
    BY <1>2 DEF Up
  <1>4. t \in [1 .. n - m + 1 -> Nat]
    BY <1>3
  <1>5. t \in Seq(Nat) /\ Len(t) = n - m + 1
    BY <1>1, <1>4
  <1> QED
    BY <1>2, <1>3, <1>5

LEMMA DownIs ==
    ASSUME NEW m \in Int, NEW n \in Nat, n <= m + 1
    PROVE  /\ Down(m, n) \in Seq(Nat) /\ Len(Down(m, n)) = m - n + 1
           /\ \A k \in 1 .. Len(Down(m, n)) : Down(m, n)[k] = m - k + 1
  <1>1. m - n + 1 \in Nat
    OBVIOUS
  <1>2. PICK t : t = Down(m, n)
    OBVIOUS
  <1>3. t = [i \in 1 .. m - n + 1 |-> m - i + 1]
    BY <1>2 DEF Down
  <1>4. t \in [1 .. m - n + 1 -> Nat]
    BY <1>3
  <1>5. t \in Seq(Nat) /\ Len(t) = m - n + 1
    BY <1>1, <1>4
  <1> QED
    BY <1>2, <1>3, <1>5

\* b is a with the elements from m up to k - 1 copied d places down (d < 0).
MovedDown(a, b, m, k, d) ==
    /\ b \in Layouts /\ b.length = a.length
    /\ \A j \in Nat : View(b)[j] = IF m <= j - d /\ j - d < k THEN View(a)[j - d] ELSE View(a)[j]

LEMMA CopyUpIs ==
    ASSUME NEW a \in Layouts, NEW m \in Nat, m <= a.length, NEW d \in Int, d < 0, m + d >= 0
    PROVE  MovedDown(a, CopyAll(a, Up(m, a.length - 1), d), m, a.length, d)
  <1>1. PICK L : L = a.length
    OBVIOUS
  <1>2. L \in Nat /\ m <= L
    BY <1>1, LayoutIs
  <1>3. PICK s : s = Up(m, L - 1)
    OBVIOUS
  <1>4. /\ s \in Seq(Nat) /\ Len(s) = L - m
        /\ \A k \in 1 .. L - m : s[k] = m + k - 1
    <2>1. L - 1 \in Int /\ m <= (L - 1) + 1 /\ (L - 1) - m + 1 = L - m
      BY <1>2
    <2>2. /\ s \in Seq(Nat) /\ Len(s) = (L - 1) - m + 1
          /\ \A k \in 1 .. Len(s) : s[k] = m + k - 1
      BY <1>3, <2>1, UpIs
    <2> QED
      BY <2>1, <2>2
  <1>5. \A k \in 1 .. Len(s) : s[k] + d \in Nat
    BY <1>2, <1>4
  <1>6. PICK f : /\ f[0] = a
                 /\ \A n \in 1 .. Len(s) : f[n] = Copy(f[n - 1], s[n], s[n] + d)
                 /\ CopyAll(a, s, d) = f[Len(s)]
    BY <1>4, <1>5, CopiesRun
  <1>7. PICK S : S = {k \in 0 .. L - m : MovedDown(a, f[k], m, m + k, d)}
    OBVIOUS
  <1>8. 0 \in S
    <2>1. \A j \in Nat : ~(m <= j - d /\ j - d < m + 0)
      OBVIOUS
    <2> QED
      BY <1>1, <1>2, <1>6, <1>7, <2>1 DEF MovedDown
  <1>9. ASSUME NEW k \in 0 .. (L - m) - 1, k \in S PROVE k + 1 \in S
    <2>1. PICK b, c : b = f[k] /\ c = f[k + 1]
      OBVIOUS
    <2>2. b \in Layouts /\ b.length = L
      BY <1>1, <1>7, <1>9, <2>1 DEF MovedDown
    <2>3. \A j \in Nat :
            View(b)[j] = IF m <= j - d /\ j - d < m + k THEN View(a)[j - d] ELSE View(a)[j]
      BY <1>7, <1>9, <2>1 DEF MovedDown
    <2>4. c = Copy(b, m + k, m + k + d) /\ m + k \in Nat /\ m + k + d \in Nat /\ m + k + d < L
      <3>1. k + 1 \in 1 .. L - m /\ (k + 1) - 1 = k /\ m + (k + 1) - 1 = m + k
        BY <1>2
      <3>2. f[k + 1] = Copy(f[k], m + k, m + k + d)
        BY <1>4, <1>6, <3>1
      <3> QED
        BY <1>2, <2>1, <3>2
    <2>5. /\ SetTo(b, c, m + k + d, View(b)[m + k])
          /\ c.length \in {b.length, IF m + k + d < b.length THEN b.length ELSE (m + k + d) + 1}
      BY <2>2, <2>4, CopyIs
    <2>6. c \in Layouts /\ c.length = L
      BY <2>2, <2>4, <2>5 DEF SetTo
    <2>7. /\ View(c)[m + k + d] = View(b)[m + k]
          /\ \A j \in Nat : j # m + k + d => View(c)[j] = View(b)[j]
      <3>1. View(b) \in [Nat -> Element] /\ View(b)[m + k] \in Element
        BY <2>2, <2>4, ViewType
      <3>2. View(c) = [View(b) EXCEPT ![m + k + d] = View(b)[m + k]]
        BY <2>5 DEF SetTo
      <3> QED
        BY <2>4, <3>1, <3>2
    <2>8. View(b)[m + k] = View(a)[m + k]
      <3>1. ~(m + k - d < m + k)
        BY <1>2
      <3> QED
        BY <2>3, <2>4, <3>1
    <2>9. ASSUME NEW j \in Nat
          PROVE  View(c)[j] = IF m <= j - d /\ j - d < m + (k + 1) THEN View(a)[j - d]
                              ELSE View(a)[j]
      <3>1. CASE j = m + k + d
        <4>1. j - d = m + k /\ m <= j - d /\ j - d < m + (k + 1)
          BY <1>2, <3>1
        <4> QED
          BY <2>7, <2>8, <3>1, <4>1
      <3>2. CASE j # m + k + d
        <4>1. (j - d < m + (k + 1)) <=> (j - d < m + k)
          BY <1>2, <3>2
        <4> QED
          BY <2>3, <2>7, <3>2, <4>1
      <3> QED
        BY <3>1, <3>2
    <2> QED
      BY <1>1, <1>2, <1>7, <2>1, <2>6, <2>9 DEF MovedDown
  <1>10. L - m \in 0 .. L - m /\ L - m \in Nat
    BY <1>2
  <1>11. L - m \in S
    BY <1>8, <1>9, <1>10, IntervalInduction
  <1>12. m + (L - m) = L
    BY <1>2
  <1>13. MovedDown(a, f[L - m], m, L, d)
    BY <1>7, <1>11, <1>12
  <1> QED
    BY <1>1, <1>3, <1>4, <1>6, <1>13

\* b is a with the elements above k copied d places up (d >= 0).
MovedUp(a, b, k, d) ==
    /\ b \in Layouts /\ a.length <= b.length /\ b.length <= a.length + d
    /\ \A j \in Nat :
        View(b)[j] = IF k < j - d /\ j - d < a.length THEN View(a)[j - d] ELSE View(a)[j]

LEMMA CopyDownIs ==
    ASSUME NEW a \in Layouts, NEW m \in Nat, m <= a.length, NEW d \in Nat
    PROVE  MovedUp(a, CopyAll(a, Down(a.length - 1, m), d), m - 1, d)
  <1>1. PICK L : L = a.length
    OBVIOUS
  <1>2. L \in Nat /\ m <= L
    BY <1>1, LayoutIs
  <1>3. PICK s : s = Down(L - 1, m)
    OBVIOUS
  <1>4. /\ s \in Seq(Nat) /\ Len(s) = L - m
        /\ \A k \in 1 .. L - m : s[k] = L - k
    <2>1. L - 1 \in Int /\ m <= (L - 1) + 1 /\ (L - 1) - m + 1 = L - m
      BY <1>2
    <2>2. /\ s \in Seq(Nat) /\ Len(s) = (L - 1) - m + 1
          /\ \A k \in 1 .. Len(s) : s[k] = (L - 1) - k + 1
      BY <1>3, <2>1, DownIs
    <2>3. \A k \in 1 .. Len(s) : (L - 1) - k + 1 = L - k
      BY <1>2, <2>1, <2>2
    <2> QED
      BY <2>1, <2>2, <2>3
  <1>5. d \in Int /\ \A k \in 1 .. Len(s) : s[k] + d \in Nat
    <2>1. ASSUME NEW k \in 1 .. Len(s) PROVE s[k] + d \in Nat
      <3>1. s[k] \in Nat
        BY <1>4
      <3> QED
        BY <3>1
    <2> QED
      BY <2>1
  <1>6. PICK f : /\ f[0] = a
                 /\ \A n \in 1 .. Len(s) : f[n] = Copy(f[n - 1], s[n], s[n] + d)
                 /\ CopyAll(a, s, d) = f[Len(s)]
    BY <1>4, <1>5, CopiesRun
  <1>7. PICK S : S = {k \in 0 .. L - m : MovedUp(a, f[k], L - 1 - k, d)}
    OBVIOUS
  <1>8. 0 \in S
    <2>1. \A j \in Nat : ~(L - 1 - 0 < j - d /\ j - d < L)
      BY <1>2
    <2>2. MovedUp(a, a, L - 1 - 0, d)
      BY <1>1, <1>2, <2>1 DEF MovedUp
    <2>3. 0 \in 0 .. L - m
      BY <1>2
    <2> QED
      BY <1>6, <1>7, <2>2, <2>3
  <1>9. ASSUME NEW k \in 0 .. (L - m) - 1, k \in S PROVE k + 1 \in S
    <2>1. PICK b, c : b = f[k] /\ c = f[k + 1]
      OBVIOUS
    <2>2. b \in Layouts /\ L <= b.length /\ b.length <= L + d /\ b.length \in Nat
      <3>1. b \in Layouts /\ L <= b.length /\ b.length <= L + d
        BY <1>1, <1>7, <1>9, <2>1 DEF MovedUp
      <3> QED
        BY <3>1, LayoutIs
    <2>3. \A j \in Nat :
            View(b)[j] = IF L - 1 - k < j - d /\ j - d < L THEN View(a)[j - d] ELSE View(a)[j]
      BY <1>1, <1>7, <1>9, <2>1 DEF MovedUp
    <2>4. PICK from \in Nat : from = L - 1 - k
      BY <1>2
    <2>5. c = Copy(b, from, from + d) /\ from + d \in Nat /\ from + d < L + d
      <3>1. k + 1 \in 1 .. L - m /\ (k + 1) - 1 = k /\ L - (k + 1) = from
        BY <1>2, <2>4
      <3>2. f[k + 1] = Copy(f[k], from, from + d)
        BY <1>4, <1>6, <3>1
      <3> QED
        BY <1>2, <2>1, <2>4, <3>2
    <2>6. /\ SetTo(b, c, from + d, View(b)[from])
          /\ c.length \in {b.length, IF from + d < b.length THEN b.length ELSE (from + d) + 1}
      BY <2>2, <2>5, CopyIs
    <2>7. c \in Layouts /\ L <= c.length /\ c.length <= L + d
      <3>1. c \in Layouts
        BY <2>6 DEF SetTo
      <3>2. CASE from + d < b.length
        BY <2>2, <2>6, <3>1, <3>2
      <3>3. CASE ~(from + d < b.length)
        BY <1>2, <2>2, <2>4, <2>5, <2>6, <3>1, <3>3
      <3> QED
        BY <3>2, <3>3
    <2>8. /\ View(c)[from + d] = View(b)[from]
          /\ \A j \in Nat : j # from + d => View(c)[j] = View(b)[j]
      <3>1. View(b) \in [Nat -> Element] /\ View(b)[from] \in Element
        BY <2>2, ViewType
      <3>2. View(c) = [View(b) EXCEPT ![from + d] = View(b)[from]]
        BY <2>6 DEF SetTo
      <3> QED
        BY <2>5, <3>1, <3>2
    <2>9. View(b)[from] = View(a)[from]
      <3>1. ~(L - 1 - k < from - d)
        BY <1>2, <2>4
      <3> QED
        BY <2>3, <3>1
    <2>10. ASSUME NEW j \in Nat
           PROVE  View(c)[j] = IF L - 1 - (k + 1) < j - d /\ j - d < L THEN View(a)[j - d]
                               ELSE View(a)[j]
      <3>1. CASE j = from + d
        <4>1. j - d = from /\ L - 1 - (k + 1) < from /\ from < L
          BY <1>2, <2>4, <3>1
        <4> QED
          BY <2>8, <2>9, <3>1, <4>1
      <3>2. CASE j # from + d
        <4>1. (L - 1 - (k + 1) < j - d) <=> (L - 1 - k < j - d)
          BY <1>2, <2>4, <3>2
        <4> QED
          BY <2>3, <2>8, <3>2, <4>1
      <3> QED
        BY <3>1, <3>2
    <2>11. MovedUp(a, c, L - 1 - (k + 1), d)
      BY <1>1, <2>7, <2>10 DEF MovedUp
    <2>12. k + 1 \in 0 .. L - m
      BY <1>2
    <2> QED
      BY <1>7, <2>1, <2>11, <2>12
  <1>10. L - m \in 0 .. L - m /\ L - m \in Nat
    BY <1>2
  <1>11. L - m \in S
    BY <1>8, <1>9, <1>10, IntervalInduction
  <1>12. L - 1 - (L - m) = m - 1
    BY <1>2
  <1>13. MovedUp(a, f[L - m], m - 1, d)
    BY <1>7, <1>11, <1>12
  <1> QED
    BY <1>1, <1>3, <1>4, <1>6, <1>13

\* b is a with the first k of the elements args at place i and after it.
FilledIn(a, b, i, args, k) ==
    /\ b \in Layouts /\ a.length <= b.length
    /\ b.length <= (IF i + k > a.length THEN i + k ELSE a.length)
    /\ \A j \in Nat : View(b)[j] = IF i <= j /\ j < i + k THEN args[j - i + 1] ELSE View(a)[j]
    /\ \A j \in DOMAIN b.sparse : j \in DOMAIN a.sparse \/ (i <= j /\ j < i + k)

LEMMA PutAllIs ==
    ASSUME NEW a \in Layouts, NEW i \in Nat, NEW args \in Seq(Element)
    PROVE  FilledIn(a, PutAll(a, i, args), i, args, Len(args))
  <1>1. PICK L, N : L = a.length /\ N = Len(args)
    OBVIOUS
  <1>2. L \in Nat /\ N \in Nat
    BY <1>1, LayoutIs
  <1>3. PICK f : /\ f[0] = a
                 /\ \A n \in 1 .. N : f[n] = put(f[n - 1], i + n - 1, args[n])
                 /\ PutAll(a, i, args) = f[N]
    <2>1. \E f : /\ f[0] = a
                 /\ \A n \in 1 .. Len(args) : f[n] = put(f[n - 1], i + n - 1, args[n])
                 /\ PutAll(a, i, args) = f[Len(args)]
      BY PutsRun
    <2> QED
      BY <1>1, <2>1
  <1>4. PICK S : S = {k \in 0 .. N : FilledIn(a, f[k], i, args, k)}
    OBVIOUS
  <1>5. 0 \in S
    <2>1. \A j \in Nat : ~(i <= j /\ j < i + 0)
      OBVIOUS
    <2>2. L <= (IF i + 0 > L THEN i + 0 ELSE L)
      BY <1>2
    <2> QED
      BY <1>1, <1>2, <1>3, <1>4, <2>1, <2>2 DEF FilledIn
  <1>6. ASSUME NEW k \in 0 .. N - 1, k \in S PROVE k + 1 \in S
    <2>1. PICK b, c : b = f[k] /\ c = f[k + 1]
      OBVIOUS
    <2>2. /\ b \in Layouts /\ L <= b.length /\ b.length \in Nat
          /\ b.length <= (IF i + k > L THEN i + k ELSE L)
      <3>1. /\ b \in Layouts /\ L <= b.length
            /\ b.length <= (IF i + k > L THEN i + k ELSE L)
        BY <1>1, <1>4, <1>6, <2>1 DEF FilledIn
      <3> QED
        BY <3>1, LayoutIs
    <2>3. /\ \A j \in Nat :
                View(b)[j] = IF i <= j /\ j < i + k THEN args[j - i + 1] ELSE View(a)[j]
          /\ \A j \in DOMAIN b.sparse : j \in DOMAIN a.sparse \/ (i <= j /\ j < i + k)
      BY <1>4, <1>6, <2>1 DEF FilledIn
    <2>4. c = put(b, i + k, args[k + 1]) /\ i + k \in Nat /\ args[k + 1] \in Element
      <3>1. k + 1 \in 1 .. N /\ (k + 1) - 1 = k /\ i + (k + 1) - 1 = i + k
        BY <1>2
      <3> QED
        BY <1>1, <1>3, <2>1, <3>1
    <2>5. /\ SetTo(b, c, i + k, args[k + 1])
          /\ c.length = IF i + k < b.length THEN b.length ELSE (i + k) + 1
      BY <2>2, <2>4, PutIs
    <2>6. /\ c \in Layouts /\ L <= c.length
          /\ c.length <= (IF i + (k + 1) > L THEN i + (k + 1) ELSE L)
      <3>1. c \in Layouts
        BY <2>5 DEF SetTo
      <3>2. CASE i + k < b.length
        BY <1>2, <2>2, <2>5, <3>1, <3>2
      <3>3. CASE ~(i + k < b.length)
        BY <1>2, <2>2, <2>4, <2>5, <3>1, <3>3
      <3> QED
        BY <3>2, <3>3
    <2>7. /\ View(c)[i + k] = args[k + 1]
          /\ \A j \in Nat : j # i + k => View(c)[j] = View(b)[j]
      <3>1. View(b) \in [Nat -> Element]
        BY <2>2, ViewType
      <3>2. View(c) = [View(b) EXCEPT ![i + k] = args[k + 1]]
        BY <2>5 DEF SetTo
      <3> QED
        BY <2>4, <3>1, <3>2
    <2>8. ASSUME NEW j \in Nat
          PROVE  View(c)[j] = IF i <= j /\ j < i + (k + 1) THEN args[j - i + 1] ELSE View(a)[j]
      <3>1. CASE j = i + k
        <4>1. j - i + 1 = k + 1 /\ i <= j /\ j < i + (k + 1)
          BY <3>1
        <4> QED
          BY <2>7, <3>1, <4>1
      <3>2. CASE j # i + k
        <4>1. (j < i + (k + 1)) <=> (j < i + k)
          BY <3>2
        <4> QED
          BY <2>3, <2>7, <3>2, <4>1
      <3> QED
        BY <3>1, <3>2
    <2>9. ASSUME NEW j \in DOMAIN c.sparse
          PROVE  j \in DOMAIN a.sparse \/ (i <= j /\ j < i + (k + 1))
      <3>1. j \in DOMAIN b.sparse \/ j = i + k
        BY <2>5, <2>9 DEF SetTo
      <3>2. j \in Nat
        BY <2>6, LayoutIs
      <3> QED
        BY <2>3, <3>1, <3>2
    <2>10. FilledIn(a, c, i, args, k + 1)
      BY <1>1, <2>6, <2>8, <2>9 DEF FilledIn
    <2>11. k + 1 \in 0 .. N
      BY <1>2
    <2> QED
      BY <1>4, <2>1, <2>10, <2>11
  <1>7. N \in S
    <2>1. N \in 0 .. N
      BY <1>2
    <2> QED
      BY <1>2, <1>5, <1>6, <2>1, IntervalInduction
  <1>8. FilledIn(a, f[N], i, args, N)
    BY <1>4, <1>7
  <1> QED
    BY <1>1, <1>3, <1>8

\* b is a without the elements above k and up to m.
EmptiedIn(a, b, k, m) ==
    /\ b \in Layouts /\ a.length = b.length
    /\ \A j \in Nat : View(b)[j] = IF k < j /\ j <= m THEN Undefined ELSE View(a)[j]
    /\ \A j \in DOMAIN b.sparse : j \in DOMAIN a.sparse /\ ~(k < j /\ j <= m)

LEMMA DeleteAllIs ==
    ASSUME NEW a \in Layouts, NEW m \in Int, NEW n \in Nat, n <= m + 1
    PROVE  EmptiedIn(a, DeleteAll(a, Down(m, n)), n - 1, m)
  <1>1. PICK s, N : s = Down(m, n) /\ N = m - n + 1
    OBVIOUS
  <1>2. /\ s \in Seq(Nat) /\ Len(s) = N /\ N \in Nat
        /\ \A k \in 1 .. N : s[k] = m - k + 1
    <2>1. N \in Nat
      BY <1>1
    <2>2. /\ s \in Seq(Nat) /\ Len(s) = m - n + 1
          /\ \A k \in 1 .. Len(s) : s[k] = m - k + 1
      BY <1>1, DownIs
    <2> QED
      BY <1>1, <2>1, <2>2
  <1>3. PICK f : /\ f[0] = a
                 /\ \A k \in 1 .. N : f[k] = deleteProperty(f[k - 1], s[k])
                 /\ DeleteAll(a, s) = f[N]
    <2>1. \E f : /\ f[0] = a
                 /\ \A k \in 1 .. Len(s) : f[k] = deleteProperty(f[k - 1], s[k])
                 /\ DeleteAll(a, s) = f[Len(s)]
      BY <1>2, DeletionsRun
    <2> QED
      BY <1>2, <2>1
  <1>4. PICK S : S = {k \in 0 .. N : EmptiedIn(a, f[k], m - k, m)}
    OBVIOUS
  <1>5. 0 \in S
    <2>1. \A j \in Nat : ~(m - 0 < j /\ j <= m)
      OBVIOUS
    <2>2. DOMAIN a.sparse \subseteq Nat
      BY LayoutIs
    <2>3. EmptiedIn(a, a, m - 0, m)
      BY <2>1, <2>2 DEF EmptiedIn
    <2> QED
      BY <1>2, <1>3, <1>4, <2>3
  <1>6. ASSUME NEW k \in 0 .. N - 1, k \in S PROVE k + 1 \in S
    <2>1. PICK b, c : b = f[k] /\ c = f[k + 1]
      OBVIOUS
    <2>2. /\ b \in Layouts /\ a.length = b.length
          /\ \A j \in Nat : View(b)[j] = IF m - k < j /\ j <= m THEN Undefined ELSE View(a)[j]
          /\ \A j \in DOMAIN b.sparse : j \in DOMAIN a.sparse /\ ~(m - k < j /\ j <= m)
      BY <1>4, <1>6, <2>1 DEF EmptiedIn
    <2>3. PICK i \in Nat : i = m - k
      BY <1>1, <1>2
    <2>4. c = deleteProperty(b, i)
      <3>1. k + 1 \in 1 .. N /\ (k + 1) - 1 = k /\ m - (k + 1) + 1 = i
        BY <1>2, <2>3
      <3> QED
        BY <1>2, <1>3, <2>1, <3>1
    <2>5. /\ SetTo(b, c, i, Undefined) /\ c.length = b.length
          /\ DOMAIN c.sparse \subseteq DOMAIN b.sparse \ {i}
      BY <2>2, <2>4, DeleteIs
    <2>6. c \in Layouts /\ DOMAIN c.sparse \subseteq Nat
      BY <2>5, LayoutIs DEF SetTo
    <2>7. /\ View(c)[i] = Undefined
          /\ \A j \in Nat : j # i => View(c)[j] = View(b)[j]
      <3>1. View(b) \in [Nat -> Element] /\ Undefined \in Element
        BY <2>2, ViewType DEF Element
      <3>2. View(c) = [View(b) EXCEPT ![i] = Undefined]
        BY <2>5 DEF SetTo
      <3> QED
        BY <3>1, <3>2
    <2>8. \A j \in Nat : j # i => ((m - (k + 1) < j) <=> (m - k < j))
      BY <2>3
    <2>9. m - (k + 1) < i /\ i <= m
      BY <2>3
    <2>10. \A j \in Nat :
            View(c)[j] = IF m - (k + 1) < j /\ j <= m THEN Undefined ELSE View(a)[j]
      BY <2>2, <2>7, <2>8, <2>9
    <2>11. \A j \in DOMAIN c.sparse : j \in DOMAIN a.sparse /\ ~(m - (k + 1) < j /\ j <= m)
      BY <2>2, <2>5, <2>6, <2>8
    <2>12. EmptiedIn(a, c, m - (k + 1), m)
      BY <2>2, <2>5, <2>6, <2>10, <2>11 DEF EmptiedIn
    <2>13. k + 1 \in 0 .. N
      BY <1>2
    <2> QED
      BY <1>4, <2>1, <2>12, <2>13
  <1>7. N \in S
    <2>1. N \in 0 .. N
      BY <1>2
    <2> QED
      BY <1>2, <1>5, <1>6, <2>1, IntervalInduction
  <1>8. EmptiedIn(a, f[N], m - N, m) /\ m - N = n - 1
    BY <1>1, <1>4, <1>7
  <1> QED
    BY <1>1, <1>3, <1>8

\* b is a with its first and last k elements in reverse order.
ReversedIn(a, b, k) ==
    /\ b \in Layouts /\ b.length = a.length
    /\ \A j \in Nat : View(b)[j] = IF j < k \/ (a.length - k <= j /\ j < a.length)
                                   THEN View(a)[a.length - j - 1] ELSE View(a)[j]

LEMMA ReverseIs ==
    ASSUME NEW a \in Layouts
    PROVE  /\ reverse(a) \in Layouts /\ reverse(a).length = a.length
           /\ \A j \in 0 .. a.length - 1 : View(reverse(a))[j] = View(a)[a.length - j - 1]
  <1>1. PICK L, N : L = a.length /\ N = L \div 2
    OBVIOUS
  <1>2. L \in Nat /\ N \in Nat /\ N + N <= L /\ L <= N + N + 1
    <2>1. L \in Nat
      BY <1>1, LayoutIs
    <2> QED
      BY <1>1, <2>1
  <1>3. PICK f : /\ f[0] = a
                 /\ \A n \in 1 .. N : f[n] = Swap(f[n - 1], n - 1, L - n)
                 /\ reverse(a) = f[N]
    BY <1>1, SwapsRun
  <1>4. PICK S : S = {k \in 0 .. N : ReversedIn(a, f[k], k)}
    OBVIOUS
  <1>5. 0 \in S
    <2>1. \A j \in Nat : ~(j < 0 \/ (L - 0 <= j /\ j < L))
      BY <1>2
    <2>2. ReversedIn(a, a, 0)
      BY <1>1, <2>1 DEF ReversedIn
    <2> QED
      BY <1>2, <1>3, <1>4, <2>2
  <1>6. ASSUME NEW k \in 0 .. N - 1, k \in S PROVE k + 1 \in S
    <2>1. PICK b, c : b = f[k] /\ c = f[k + 1]
      OBVIOUS
    <2>2. /\ b \in Layouts /\ b.length = L
          /\ \A j \in Nat : View(b)[j] = IF j < k \/ (L - k <= j /\ j < L)
                                         THEN View(a)[L - j - 1] ELSE View(a)[j]
      BY <1>1, <1>4, <1>6, <2>1 DEF ReversedIn
    <2>3. PICK h \in Nat : h = L - (k + 1)
      BY <1>2
    <2>4. c = Swap(b, k, h) /\ k \in Nat /\ k < L /\ h < L /\ k < h
      <3>1. k + 1 \in 1 .. N /\ (k + 1) - 1 = k
        BY <1>2
      <3> QED
        BY <1>2, <1>3, <2>1, <2>3, <3>1
    <2>5. Swapped(b, c, k, h) /\ c.length = L
      BY <2>2, <2>4, SwapIs
    <2>6. /\ View(c)[k] = View(b)[h] /\ View(c)[h] = View(b)[k]
          /\ \A j \in Nat : j # k /\ j # h => View(c)[j] = View(b)[j]
      <3>1. View(b) \in [Nat -> Element]
        BY <2>2, ViewType
      <3>2. View(c) = [View(b) EXCEPT ![k] = View(b)[h], ![h] = View(b)[k]]
        BY <2>5 DEF Swapped
      <3> QED
        BY <2>4, <3>1, <3>2
    <2>7. View(b)[h] = View(a)[h] /\ View(b)[k] = View(a)[k]
      <3>1. ~(h < k \/ (L - k <= h /\ h < L)) /\ ~(k < k \/ (L - k <= k /\ k < L))
        BY <1>2, <2>3, <2>4
      <3> QED
        BY <2>2, <2>4, <3>1
    <2>8. ASSUME NEW j \in Nat
          PROVE  View(c)[j] = IF j < k + 1 \/ (L - (k + 1) <= j /\ j < L)
                              THEN View(a)[L - j - 1] ELSE View(a)[j]
      <3>1. CASE j = k
        <4>1. L - j - 1 = h /\ j < k + 1
          BY <1>2, <2>3, <3>1
        <4> QED
          BY <2>6, <2>7, <3>1, <4>1
      <3>2. CASE j = h
        <4>1. L - j - 1 = k /\ L - (k + 1) <= j /\ j < L
          BY <1>2, <2>3, <2>4, <3>2
        <4> QED
          BY <2>6, <2>7, <3>2, <4>1
      <3>3. CASE j # k /\ j # h
        <4>1. (j < k + 1 <=> j < k) /\ (L - (k + 1) <= j <=> L - k <= j)
          BY <1>2, <2>3, <3>3
        <4> QED
          BY <2>2, <2>6, <3>3, <4>1
      <3> QED
        BY <3>1, <3>2, <3>3
    <2>9. ReversedIn(a, c, k + 1)
      BY <1>1, <2>5, <2>8 DEF ReversedIn, Swapped
    <2>10. k + 1 \in 0 .. N
      BY <1>2
    <2> QED
      BY <1>4, <2>1, <2>9, <2>10
  <1>7. N \in S
    <2>1. N \in 0 .. N
      BY <1>2
    <2> QED
      BY <1>2, <1>5, <1>6, <2>1, IntervalInduction
  <1>8. ReversedIn(a, f[N], N)
    BY <1>4, <1>7
  <1>9. ASSUME NEW j \in 0 .. L - 1 PROVE View(f[N])[j] = View(a)[L - j - 1]
    <2>1. CASE j < N \/ (L - N <= j /\ j < L)
      BY <1>1, <1>2, <1>8, <2>1 DEF ReversedIn
    <2>2. CASE ~(j < N \/ (L - N <= j /\ j < L))
      <3>1. L - j - 1 = j
        BY <1>2, <2>2
      <3> QED
        BY <1>1, <1>2, <1>8, <2>2, <3>1 DEF ReversedIn
    <2> QED
      BY <2>1, <2>2
  <1> QED
    BY <1>1, <1>3, <1>8, <1>9 DEF ReversedIn

------------------------------------------------------------------------------
(* The functions of Array.prototype, on the sequence of the elements.      *)

LEMMA ElementsType ==
    ASSUME NEW a \in Layouts, NEW s, s = Elements(a)
    PROVE  /\ s \in Seq(Element) /\ Len(s) = a.length /\ a.length \in Nat
           /\ \A j \in 0 .. a.length - 1 : s[j + 1] = View(a)[j]
  <1>1. a.length \in Nat /\ \A j \in Nat : View(a)[j] = get(a, j) /\ get(a, j) \in Element
    BY ViewType, GetIs
  <1>2. s = [i \in 1 .. a.length |-> get(a, i - 1)]
    BY DEF Elements
  <1>3. \A i \in 1 .. a.length : i - 1 \in Nat
    BY <1>1
  <1>4. s \in [1 .. a.length -> Element]
    BY <1>1, <1>2, <1>3
  <1>5. s \in Seq(Element) /\ Len(s) = a.length
    BY <1>1, <1>4
  <1>6. ASSUME NEW j \in 0 .. a.length - 1 PROVE s[j + 1] = View(a)[j]
    <2>1. j + 1 \in 1 .. a.length /\ (j + 1) - 1 = j /\ j \in Nat
      BY <1>1
    <2> QED
      BY <1>1, <1>2, <2>1
  <1> QED
    BY <1>1, <1>5, <1>6

LEMMA SameSequence ==
    ASSUME NEW n \in Nat, NEW u \in Seq(Element), Len(u) = n, NEW t \in Seq(Element), Len(t) = n,
           \A i \in 1 .. n : u[i] = t[i]
    PROVE  u = t
  <1>1. u = [i \in 1 .. n |-> u[i]]
    OBVIOUS
  <1>2. t = [i \in 1 .. n |-> t[i]]
    OBVIOUS
  <1>3. [i \in 1 .. n |-> u[i]] = [i \in 1 .. n |-> t[i]]
    OBVIOUS
  <1> QED
    BY ONLY <1>1, <1>2, <1>3

LEMMA ElementsAre ==
    ASSUME NEW b \in Layouts, NEW t \in Seq(Element), Len(t) = b.length,
           \A j \in 0 .. b.length - 1 : View(b)[j] = t[j + 1]
    PROVE  Elements(b) = t
  <1>1. PICK u : u = Elements(b)
    OBVIOUS
  <1>2. /\ u \in Seq(Element) /\ Len(u) = b.length /\ b.length \in Nat
        /\ \A j \in 0 .. b.length - 1 : u[j + 1] = View(b)[j]
    BY <1>1, ElementsType
  <1>3. ASSUME NEW i \in 1 .. b.length PROVE u[i] = t[i]
    <2>1. i - 1 \in 0 .. b.length - 1 /\ (i - 1) + 1 = i
      BY <1>2
    <2> QED
      BY <1>2, <2>1
  <1>4. u = t
    BY ONLY <1>2, <1>3, t \in Seq(Element), Len(t) = b.length, SameSequence
  <1> QED
    BY <1>1, <1>4

LEMMA JoinIs ==
    ASSUME NEW u \in Seq(Element), NEW v \in Seq(Element), NEW t, t = u \o v
    PROVE  /\ t \in Seq(Element) /\ Len(t) = Len(u) + Len(v)
           /\ \A i \in 1 .. Len(t) : t[i] = IF i <= Len(u) THEN u[i] ELSE v[i - Len(u)]
  OBVIOUS

LEMMA PartIs ==
    ASSUME NEW u \in Seq(Element), NEW m \in Nat, m >= 1, NEW n \in Nat, n <= Len(u), m <= n + 1,
           NEW v, v = SubSeq(u, m, n)
    PROVE  /\ v \in Seq(Element) /\ Len(v) = n - m + 1
           /\ \A i \in 1 .. Len(v) : v[i] = u[m + i - 1]
  OBVIOUS

\* t is s with args in place of count elements at begin.
Splices(s, begin, count, args, t) ==
    /\ t \in Seq(Element) /\ Len(t) = Len(s) - count + Len(args)
    /\ \A j \in 0 .. Len(t) - 1 : t[j + 1] =
        IF j < begin THEN s[j + 1]
        ELSE IF j < begin + Len(args) THEN args[j - begin + 1]
        ELSE s[(j - Len(args) + count) + 1]

LEMMA SplicedIs ==
    ASSUME NEW s \in Seq(Element), NEW args \in Seq(Element), NEW begin \in Nat,
           NEW count \in Nat, begin + count <= Len(s)
    PROVE  Splices(s, begin, count, args, Ecma!Spliced(s, begin, count, args))
  <1>0. PICK t : t = Ecma!Spliced(s, begin, count, args)
    OBVIOUS
  <1>1. PICK p, q : p = SubSeq(s, 1, begin) /\ q = SubSeq(s, begin + count + 1, Len(s))
    OBVIOUS
  <1>2. PICK L, N : L = Len(s) /\ N = Len(args)
    OBVIOUS
  <1>3. L \in Nat /\ N \in Nat /\ begin <= L /\ begin + count <= L
    BY <1>2
  <1>4. p \in Seq(Element) /\ Len(p) = begin /\ \A i \in 1 .. begin : p[i] = s[i]
    BY <1>1, <1>2, <1>3
  <1>5. /\ q \in Seq(Element) /\ Len(q) = L - begin - count
        /\ \A i \in 1 .. L - begin - count : q[i] = s[begin + count + i]
    <2>1. PICK k \in Nat : k = begin + count + 1
      BY <1>3
    <2>2. /\ s \in Seq(Element) /\ k >= 1 /\ L \in Nat /\ L <= Len(s) /\ k <= L + 1
          /\ q = SubSeq(s, k, L)
      BY <1>1, <1>2, <1>3, <2>1
    <2>3. /\ q \in Seq(Element) /\ Len(q) = L - k + 1
          /\ \A i \in 1 .. Len(q) : q[i] = s[k + i - 1]
      BY ONLY <2>1, <2>2, PartIs
    <2>4. L - k + 1 = L - begin - count
      BY <1>3, <2>1
    <2>5. \A i \in 1 .. Len(q) : k + i - 1 = begin + count + i
      <3>1. \A i \in Int : (begin + count + 1) + i - 1 = begin + count + i
        OBVIOUS
      <3> QED
        BY ONLY <2>1, <3>1
    <2> QED
      BY <2>3, <2>4, <2>5
  <1>6. t = (p \o args) \o q
    BY <1>0, <1>1 DEF Ecma!Spliced
  <1>7. PICK r : r = p \o args
    OBVIOUS
  <1>8. /\ r \in Seq(Element) /\ Len(r) = begin + N
        /\ \A i \in 1 .. begin + N : r[i] = IF i <= begin THEN p[i] ELSE args[i - begin]
    <2>1. /\ r \in Seq(Element) /\ Len(r) = Len(p) + Len(args)
          /\ \A i \in 1 .. Len(r) : r[i] = IF i <= Len(p) THEN p[i] ELSE args[i - Len(p)]
      <3>1. p \in Seq(Element) /\ args \in Seq(Element)
        BY <1>4
      <3> QED
        BY ONLY <1>7, <3>1, JoinIs
    <2> QED
      BY <1>2, <1>4, <2>1
  <1>9. t = r \o q
    BY <1>6, <1>7
  <1>10. /\ t \in Seq(Element) /\ Len(t) = (begin + N) + (L - begin - count)
         /\ \A i \in 1 .. Len(t) : t[i] = IF i <= begin + N THEN r[i] ELSE q[i - (begin + N)]
    <2>1. /\ t \in Seq(Element) /\ Len(t) = Len(r) + Len(q)
          /\ \A i \in 1 .. Len(t) : t[i] = IF i <= Len(r) THEN r[i] ELSE q[i - Len(r)]
      <3>1. r \in Seq(Element) /\ q \in Seq(Element)
        BY <1>5, <1>8
      <3> QED
        BY ONLY <1>9, <3>1, JoinIs
    <2> QED
      BY <1>5, <1>8, <2>1
  <1>11. Len(t) = L - count + N
    BY <1>3, <1>10
  <1>12. ASSUME NEW j \in 0 .. Len(t) - 1
         PROVE  t[j + 1] = IF j < begin THEN s[j + 1]
                           ELSE IF j < begin + N THEN args[j - begin + 1]
                           ELSE s[(j - N + count) + 1]
    <2>1. j + 1 \in 1 .. Len(t) /\ j \in Nat
      BY <1>3, <1>11
    <2>2. CASE j < begin
      <3>1. j + 1 \in 1 .. begin /\ j + 1 \in 1 .. begin + N /\ j + 1 <= begin + N
        BY <1>3, <2>1, <2>2
      <3> QED
        BY <1>4, <1>8, <1>10, <2>1, <2>2, <3>1
    <2>3. CASE ~(j < begin) /\ j < begin + N
      <3>1. j + 1 \in 1 .. begin + N /\ j + 1 <= begin + N /\ ~(j + 1 <= begin)
            /\ (j + 1) - begin = j - begin + 1
        BY <1>3, <2>1, <2>3
      <3>2. t[j + 1] = r[j + 1]
        BY <1>10, <2>1, <3>1
      <3>3. r[j + 1] = args[(j + 1) - begin]
        BY <1>8, <3>1
      <3>4. args[(j + 1) - begin] = args[j - begin + 1]
        BY <3>1
      <3> QED
        BY <2>3, <3>2, <3>3, <3>4
    <2>4. CASE ~(j < begin) /\ ~(j < begin + N)
      <3>1. /\ ~(j + 1 <= begin + N) /\ (j + 1) - (begin + N) \in 1 .. L - begin - count
            /\ begin + count + ((j + 1) - (begin + N)) = (j - N + count) + 1
        BY <1>3, <1>11, <2>1, <2>4
      <3> QED
        BY <1>5, <1>10, <2>1, <2>4, <3>1
    <2> QED
      BY <2>2, <2>3, <2>4
  <1> QED
    BY <1>0, <1>2, <1>10, <1>11, <1>12 DEF Splices

\* b has the elements t.
Has(b, t) == b \in Layouts /\ b.length = Len(t) /\ Elements(b) = t

\* m has room, between the elements of a, for n elements in place of count at begin.
Open(a, m, begin, count, n) ==
    /\ m \in Layouts /\ a.length - count + n \notin DOMAIN m.sparse
    /\ \A j \in Nat : j < begin => View(m)[j] = View(a)[j]
    /\ \A j \in Nat : begin + n <= j /\ j < a.length - count + n
            => View(m)[j] = View(a)[j - n + count]

LEMMA InsertionIs ==
    ASSUME NEW a \in Layouts, NEW begin \in Nat, NEW count \in Nat, begin + count <= a.length,
           NEW args \in Seq(Element), NEW m, Open(a, m, begin, count, Len(args)),
           NEW s, s = Elements(a), NEW b,
           b = setLength(PutAll(m, begin, args), a.length - count + Len(args))
    PROVE  Has(b, Ecma!Spliced(s, begin, count, args))
  <1>1. PICK L, N, t : L = a.length /\ N = Len(args) /\ t = Ecma!Spliced(s, begin, count, args)
    OBVIOUS
  <1>2. /\ s \in Seq(Element) /\ Len(s) = L /\ L \in Nat
        /\ \A j \in 0 .. L - 1 : s[j + 1] = View(a)[j]
    BY <1>1, ElementsType
  <1>3. /\ t \in Seq(Element) /\ Len(t) = Len(s) - count + N
        /\ \A j \in 0 .. Len(t) - 1 : t[j + 1] =
                IF j < begin THEN s[j + 1]
                ELSE IF j < begin + N THEN args[j - begin + 1]
                ELSE s[(j - N + count) + 1]
    <2>1. begin + count <= Len(s)
      BY <1>1, <1>2
    <2>2. Splices(s, begin, count, args, t)
      BY <1>1, <1>2, <2>1, SplicedIs
    <2> QED
      BY <1>1, <2>2 DEF Splices
  <1>4. PICK p : p = PutAll(m, begin, args)
    OBVIOUS
  <1>5. m \in Layouts
    BY DEF Open
  <1>6. FilledIn(m, p, begin, args, N)
    BY <1>1, <1>4, <1>5, PutAllIs
  <1>7. p \in Layouts
    BY <1>6 DEF FilledIn
  <1>8. N \in Nat /\ L - count + N \in Nat
    BY <1>1, <1>2
  <1>9. L - count + N \notin DOMAIN p.sparse
    <2>1. L - count + N \notin DOMAIN m.sparse
      BY <1>1 DEF Open
    <2>2. ~(L - count + N < begin + N)
      BY <1>1, <1>2, <1>8
    <2> QED
      BY <1>6, <2>1, <2>2 DEF FilledIn
  <1>10. /\ b \in Layouts /\ b.length = L - count + N
         /\ View(b) = [i \in Nat |-> IF i < L - count + N THEN View(p)[i] ELSE Undefined]
    BY <1>1, <1>4, <1>7, <1>8, <1>9, SetLengthIs
  <1>11. ASSUME NEW j \in 0 .. b.length - 1 PROVE View(b)[j] = t[j + 1]
    <2>1. j \in Nat /\ j < L - count + N /\ j \in 0 .. Len(t) - 1
      BY <1>2, <1>3, <1>8, <1>10
    <2>2. View(b)[j] = View(p)[j]
      BY <1>10, <2>1
    <2>3. View(p)[j] = IF begin <= j /\ j < begin + N THEN args[j - begin + 1] ELSE View(m)[j]
      BY <1>6, <2>1 DEF FilledIn
    <2>4. CASE j < begin
      <3>1. View(m)[j] = View(a)[j] /\ j \in 0 .. L - 1
        BY <1>1, <1>2, <2>1, <2>4 DEF Open
      <3> QED
        BY <1>2, <1>3, <2>1, <2>2, <2>3, <2>4, <3>1
    <2>5. CASE ~(j < begin) /\ j < begin + N
      BY <1>3, <2>1, <2>2, <2>3, <2>5
    <2>6. CASE ~(j < begin) /\ ~(j < begin + N)
      <3>1. View(m)[j] = View(a)[j - N + count]
        <4>1. \A k \in Nat : begin + N <= k /\ k < L - count + N
                                => View(m)[k] = View(a)[k - N + count]
          BY <1>1 DEF Open
        <4>2. begin + N <= j
          BY <1>8, <2>1, <2>6
        <4> QED
          BY <2>1, <4>1, <4>2
      <3>2. j - N + count \in 0 .. L - 1
        <4>1. L \in Nat /\ count \in Nat /\ N \in Nat /\ begin \in Nat /\ j \in Nat
          BY <1>2, <1>8, <2>1
        <4>2. j < L - count + N /\ ~(j < begin + N)
          BY <2>1, <2>6
        <4> QED
          BY ONLY <4>1, <4>2
      <3> QED
        BY <1>2, <1>3, <2>1, <2>2, <2>3, <2>6, <3>1, <3>2
    <2> QED
      BY <2>4, <2>5, <2>6
  <1>12. b.length = Len(t)
    BY <1>2, <1>3, <1>10
  <1>13. Elements(b) = t
    BY <1>3, <1>10, <1>11, <1>12, ElementsAre
  <1> QED
    BY <1>1, <1>10, <1>12, <1>13 DEF Has

LEMMA PushIs ==
    ASSUME NEW a \in Layouts, NEW args \in Seq(Element)
    PROVE  Has(push(a, args), Ecma!Spliced(Elements(a), a.length, 0, args))
  <1>1. PICK L, N : L = a.length /\ N = Len(args)
    OBVIOUS
  <1>2. L \in Nat /\ N \in Nat /\ \A j \in DOMAIN a.sparse : j < L
    BY <1>1, LayoutIs
  <1>3. Open(a, a, L, 0, N)
    <2>1. L - 0 + N \notin DOMAIN a.sparse
      BY <1>2
    <2>2. \A j \in Nat : ~(L + N <= j /\ j < L - 0 + N)
      BY <1>2
    <2> QED
      BY <1>1, <2>1, <2>2 DEF Open
  <1>4. push(a, args) = setLength(PutAll(a, L, args), L - 0 + N)
    BY <1>1, <1>2 DEF push
  <1>5. L + 0 <= L
    BY <1>2
  <1> QED
    BY <1>1, <1>2, <1>3, <1>4, <1>5, InsertionIs

LEMMA UnshiftIs ==
    ASSUME NEW a \in Layouts, NEW args \in Seq(Element)
    PROVE  Has(unshift(a, args), Ecma!Spliced(Elements(a), 0, 0, args))
  <1>1. PICK L, N, m : L = a.length /\ N = Len(args) /\ m = CopyAll(a, Down(L - 1, 0), N)
    OBVIOUS
  <1>2. L \in Nat /\ N \in Nat
    BY <1>1, LayoutIs
  <1>3. MovedUp(a, m, 0 - 1, N)
    BY <1>1, <1>2, CopyDownIs
  <1>4. Open(a, m, 0, 0, N)
    <2>1. m \in Layouts /\ m.length <= L + N
      BY <1>1, <1>3 DEF MovedUp
    <2>2. L - 0 + N \notin DOMAIN m.sparse
      <3>1. m.length \in Nat /\ \A j \in DOMAIN m.sparse : j < m.length
        BY <2>1, LayoutIs
      <3> QED
        BY <1>2, <2>1, <3>1
    <2>3. ASSUME NEW j \in Nat, 0 + N <= j, j < L - 0 + N PROVE View(m)[j] = View(a)[j - N + 0]
      <3>1. 0 - 1 < j - N /\ j - N < L /\ j - N = j - N + 0
        BY <1>2, <2>3
      <3> QED
        BY <1>1, <1>3, <3>1 DEF MovedUp
    <2> QED
      BY <1>1, <2>1, <2>2, <2>3 DEF Open
  <1>5. unshift(a, args) = setLength(PutAll(m, 0, args), L - 0 + N)
    BY <1>1, <1>2 DEF unshift
  <1>6. 0 + 0 <= L
    BY <1>2
  <1> QED
    BY <1>1, <1>4, <1>5, <1>6, InsertionIs

LEMMA SpliceIs ==
    ASSUME NEW a \in Layouts, NEW begin \in Nat, NEW count \in Nat, begin + count <= a.length,
           NEW args \in Seq(Element)
    PROVE  Has(splice(a, begin, count, args), Ecma!Spliced(Elements(a), begin, count, args))
  <1>1. PICK L, N : L = a.length /\ N = Len(args)
    OBVIOUS
  <1>2. PICK d : d = N - count
    OBVIOUS
  <1>3. L \in Nat /\ N \in Nat /\ d \in Int /\ begin + count <= L /\ L + d = L - count + N
    BY <1>1, <1>2, LayoutIs
  <1>4. PICK m : m = IF d < 0
                     THEN DeleteAll(CopyAll(a, Up(begin + count, L - 1), d), Down(L - 1, L + d))
                     ELSE IF d > 0 THEN CopyAll(a, Down(L - 1, begin + count), d) ELSE a
    OBVIOUS
  <1>5. splice(a, begin, count, args) = setLength(PutAll(m, begin, args), L - count + N)
    <2>1. splice(a, begin, count, args) = setLength(PutAll(m, begin, args), L + d)
      BY <1>1, <1>2, <1>4 DEF splice
    <2> QED
      BY <1>3, <2>1
  <1>6. Open(a, m, begin, count, N)
    <2>1. CASE d < 0
      <3>1. PICK c : c = CopyAll(a, Up(begin + count, L - 1), d)
        OBVIOUS
      <3>2. begin + count \in Nat /\ begin + count + d >= 0
        BY <1>2, <1>3
      <3>3. MovedDown(a, c, begin + count, L, d)
        BY <1>1, <1>3, <2>1, <3>1, <3>2, CopyUpIs
      <3>4. c \in Layouts /\ L - 1 \in Int /\ L + d \in Nat /\ L + d <= (L - 1) + 1
        BY <1>2, <1>3, <2>1, <3>3 DEF MovedDown
      <3>5. EmptiedIn(c, m, (L + d) - 1, L - 1)
        BY <1>4, <2>1, <3>1, <3>4, DeleteAllIs
      <3>6. L - count + N \notin DOMAIN m.sparse
        <4>1. (L + d) - 1 < L + d /\ L + d <= L - 1
          BY <1>3, <2>1
        <4> QED
          BY <1>3, <3>5, <4>1 DEF EmptiedIn
      <3>7. ASSUME NEW j \in Nat, j < L + d
            PROVE  View(m)[j] = IF begin + count <= j - d /\ j - d < L THEN View(a)[j - d]
                                ELSE View(a)[j]
        <4>1. ~((L + d) - 1 < j)
          BY <1>3, <3>7
        <4> QED
          BY <3>3, <3>5, <4>1 DEF EmptiedIn, MovedDown
      <3>8. ASSUME NEW j \in Nat, j < begin PROVE View(m)[j] = View(a)[j]
        <4>1. j < L + d /\ ~(begin + count <= j - d)
          BY <1>2, <1>3, <3>8
        <4> QED
          BY <3>7, <4>1
      <3>9. ASSUME NEW j \in Nat, begin + N <= j, j < L - count + N
            PROVE  View(m)[j] = View(a)[j - N + count]
        <4>1. j < L + d /\ begin + count <= j - d /\ j - d < L /\ j - d = j - N + count
          BY <1>2, <1>3, <3>9
        <4> QED
          BY <3>7, <4>1
      <3>10. m \in Layouts
        BY <3>5 DEF EmptiedIn
      <3> QED
        BY <1>1, <3>6, <3>8, <3>9, <3>10 DEF Open
    <2>2. CASE d > 0
      <3>1. d \in Nat /\ begin + count \in Nat
        BY <1>3, <2>2
      <3>2. MovedUp(a, m, (begin + count) - 1, d)
        BY <1>1, <1>3, <1>4, <2>2, <3>1, CopyDownIs
      <3>3. m \in Layouts /\ m.length <= L + d
        BY <1>1, <3>2 DEF MovedUp
      <3>4. L - count + N \notin DOMAIN m.sparse
        <4>1. m.length \in Nat /\ \A j \in DOMAIN m.sparse : j < m.length
          BY <3>3, LayoutIs
        <4> QED
          BY <1>3, <3>3, <4>1
      <3>5. ASSUME NEW j \in Nat, j < begin PROVE View(m)[j] = View(a)[j]
        <4>1. ~((begin + count) - 1 < j - d)
          BY <2>2, <1>3, <3>5
        <4> QED
          BY <3>2, <4>1 DEF MovedUp
      <3>6. ASSUME NEW j \in Nat, begin + N <= j, j < L - count + N
            PROVE  View(m)[j] = View(a)[j - N + count]
        <4>1. (begin + count) - 1 < j - d /\ j - d < L /\ j - d = j - N + count
          BY <1>2, <1>3, <3>6
        <4> QED
          BY <1>1, <3>2, <4>1 DEF MovedUp
      <3> QED
        BY <1>1, <3>3, <3>4, <3>5, <3>6 DEF Open
    <2>3. CASE d = 0
      <3>1. m = a
        BY <1>4, <2>3
      <3>2. L - count + N \notin DOMAIN a.sparse
        <4>1. \A j \in DOMAIN a.sparse : j < L
          BY <1>1, LayoutIs
        <4> QED
          BY <1>2, <1>3, <2>3, <4>1
      <3>3. \A j \in Nat : j - N + count = j
        BY <1>2, <1>3, <2>3
      <3> QED
        BY <1>1, <3>1, <3>2, <3>3 DEF Open
    <2> QED
      BY <1>3, <2>1, <2>2, <2>3
  <1> QED
    BY <1>1, <1>5, <1>6, InsertionIs

\* t is s cut off, or filled with undefined elements, to length n.
Lengthened(s, n, t) ==
    /\ t \in Seq(Element) /\ Len(t) = n
    /\ \A j \in 0 .. n - 1 : t[j + 1] = IF j < Len(s) THEN s[j + 1] ELSE Undefined

LEMMA WithLengthIs ==
    ASSUME NEW s \in Seq(Element), NEW n \in Nat
    PROVE  Lengthened(s, n, Ecma!WithLength(s, n))
  <1>1. PICK t, L : t = Ecma!WithLength(s, n) /\ L = Len(s)
    OBVIOUS
  <1>2. L \in Nat
    BY <1>1
  <1>3. CASE n <= L
    <2>1. t = SubSeq(s, 1, n)
      BY <1>1, <1>3 DEF Ecma!WithLength
    <2>2. 1 \in Nat /\ 1 >= 1 /\ n <= Len(s) /\ 1 <= n + 1
      BY <1>1, <1>3
    <2>3. /\ t \in Seq(Element) /\ Len(t) = n - 1 + 1
          /\ \A i \in 1 .. Len(t) : t[i] = s[1 + i - 1]
      BY <2>1, <2>2, PartIs
    <2>4. ASSUME NEW j \in 0 .. n - 1
          PROVE  t[j + 1] = IF j < L THEN s[j + 1] ELSE Undefined
      <3>1. j + 1 \in 1 .. Len(t) /\ 1 + (j + 1) - 1 = j + 1 /\ j < L
        BY <1>2, <1>3, <2>3
      <3> QED
        BY <2>3, <3>1
    <2> QED
      BY <1>1, <2>3, <2>4 DEF Lengthened
  <1>4. CASE ~(n <= L)
    <2>1. PICK q : q = [i \in 1 .. n - Len(s) |-> Undefined]
      OBVIOUS
    <2>2. q \in Seq(Element) /\ Len(q) = n - L /\ \A i \in 1 .. n - L : q[i] = Undefined
      <3>1. n - L \in Nat /\ Undefined \in Element
        BY <1>2, <1>4 DEF Element
      <3>2. q \in [1 .. n - L -> Element]
        BY <1>1, <2>1, <3>1
      <3> QED
        BY <1>1, <2>1, <3>1, <3>2
    <2>3. t = s \o q
      <3>1. ~(n <= Len(s))
        BY <1>1, <1>4
      <3>2. Ecma!WithLength(s, n) =
              IF n <= Len(s) THEN SubSeq(s, 1, n) ELSE s \o [i \in 1 .. n - Len(s) |-> Undefined]
        BY Zenon DEF Ecma!WithLength
      <3>3. Ecma!WithLength(s, n) = IF n <= Len(s) THEN SubSeq(s, 1, n) ELSE s \o q
        BY <2>1, <3>2, Zenon
      <3> QED
        BY <1>1, <3>1, <3>3
    <2>4. /\ t \in Seq(Element) /\ Len(t) = Len(s) + Len(q)
          /\ \A i \in 1 .. Len(t) : t[i] = IF i <= Len(s) THEN s[i] ELSE q[i - Len(s)]
      <3>1. q \in Seq(Element)
        BY <2>2
      <3> QED
        BY ONLY s \in Seq(Element), <2>3, <3>1, JoinIs
    <2>5. ASSUME NEW j \in 0 .. n - 1
          PROVE  t[j + 1] = IF j < L THEN s[j + 1] ELSE Undefined
      <3>1. j + 1 \in 1 .. Len(t) /\ (j + 1 <= L <=> j < L)
        BY <1>1, <1>2, <1>4, <2>2, <2>4
      <3>2. ~(j < L) => (j + 1) - L \in 1 .. n - L
        BY <1>2, <1>4
      <3> QED
        BY <1>1, <2>2, <2>4, <3>1, <3>2
    <2>6. Len(t) = n
      BY <1>1, <1>2, <1>4, <2>2, <2>4
    <2> QED
      BY <1>1, <2>4, <2>5, <2>6 DEF Lengthened
  <1> QED
    BY <1>3, <1>4

LEMMA SetLengthElements ==
    ASSUME NEW a \in Layouts, NEW n \in Nat, n \notin DOMAIN a.sparse
    PROVE  Has(setLength(a, n), Ecma!WithLength(Elements(a), n))
  <1>1. PICK b, s, t : b = setLength(a, n) /\ s = Elements(a) /\ t = Ecma!WithLength(s, n)
    OBVIOUS
  <1>2. /\ s \in Seq(Element) /\ Len(s) = a.length /\ a.length \in Nat
        /\ \A j \in 0 .. a.length - 1 : s[j + 1] = View(a)[j]
    BY <1>1, ElementsType
  <1>3. /\ b \in Layouts /\ b.length = n
        /\ View(b) = [i \in Nat |-> IF i < n THEN View(a)[i] ELSE Undefined]
    BY <1>1, SetLengthIs
  <1>4. /\ t \in Seq(Element) /\ Len(t) = n
        /\ \A j \in 0 .. n - 1 : t[j + 1] = IF j < Len(s) THEN s[j + 1] ELSE Undefined
    BY <1>1, <1>2, WithLengthIs DEF Lengthened
  <1>5. \A j \in Nat : j >= a.length => View(a)[j] = Undefined
    BY ViewType
  <1>6. ASSUME NEW j \in 0 .. b.length - 1 PROVE View(b)[j] = t[j + 1]
    <2>1. j \in Nat /\ j < n /\ j \in 0 .. n - 1
      BY <1>3
    <2>2. View(b)[j] = View(a)[j]
      BY <1>3, <2>1
    <2>3. CASE j < a.length
      <3>1. j \in 0 .. a.length - 1
        BY <1>2, <2>1, <2>3
      <3> QED
        BY <1>2, <1>4, <2>1, <2>2, <2>3, <3>1
    <2>4. CASE ~(j < a.length)
      <3>1. j >= a.length
        BY <1>2, <2>1, <2>4
      <3> QED
        BY <1>2, <1>4, <1>5, <2>1, <2>2, <2>4, <3>1
    <2> QED
      BY <2>3, <2>4
  <1>7. Elements(b) = t
    BY <1>3, <1>4, <1>6, ElementsAre
  <1> QED
    BY <1>1, <1>3, <1>4, <1>7 DEF Has

LEMMA PutElements ==
    ASSUME NEW a \in Layouts, NEW i \in Nat, NEW v \in Element
    PROVE  Has(put(a, i, v), Ecma!Assigned(Elements(a), i, v))
  <1>1. PICK b, s : b = put(a, i, v) /\ s = Elements(a)
    OBVIOUS
  <1>2. /\ s \in Seq(Element) /\ Len(s) = a.length /\ a.length \in Nat
        /\ \A j \in 0 .. a.length - 1 : s[j + 1] = View(a)[j]
    BY <1>1, ElementsType
  <1>3. PICK n : n = IF i < a.length THEN a.length ELSE i + 1
    OBVIOUS
  <1>4. n \in Nat /\ i < n /\ a.length <= n
    BY <1>2, <1>3
  <1>5. SetTo(a, b, i, v) /\ b.length = n
    BY <1>1, <1>3, PutIs
  <1>6. PICK r, t : r = Ecma!WithLength(s, n) /\ t = [r EXCEPT ![i + 1] = v]
    OBVIOUS
  <1>7. t = Ecma!Assigned(s, i, v)
    BY <1>2, <1>3, <1>6 DEF Ecma!Assigned
  <1>8. /\ r \in Seq(Element) /\ Len(r) = n
        /\ \A j \in 0 .. n - 1 : r[j + 1] = IF j < Len(s) THEN s[j + 1] ELSE Undefined
    BY <1>2, <1>4, <1>6, WithLengthIs DEF Lengthened
  <1>9. /\ t \in Seq(Element) /\ Len(t) = n /\ t[i + 1] = v
        /\ \A j \in 1 .. n : j # i + 1 => t[j] = r[j]
    BY <1>4, <1>6, <1>8
  <1>10. /\ b \in Layouts /\ View(b)[i] = v
         /\ \A j \in Nat : j # i => View(b)[j] = View(a)[j]
    <2>1. View(a) \in [Nat -> Element]
      BY ViewType
    <2> QED
      BY <1>5, <2>1 DEF SetTo
  <1>11. \A j \in Nat : j >= a.length => View(a)[j] = Undefined
    BY ViewType
  <1>12. ASSUME NEW j \in 0 .. b.length - 1 PROVE View(b)[j] = t[j + 1]
    <2>1. j \in Nat /\ j \in 0 .. n - 1 /\ j + 1 \in 1 .. n
      BY <1>4, <1>5
    <2>2. CASE j = i
      BY <1>9, <1>10, <2>2
    <2>3. CASE j # i
      <3>1. t[j + 1] = r[j + 1] /\ View(b)[j] = View(a)[j]
        <4>1. j + 1 # i + 1
          BY <2>1, <2>3
        <4> QED
          BY <1>9, <1>10, <2>1, <2>3, <4>1
      <3>2. CASE j < a.length
        <4>1. j \in 0 .. a.length - 1
          BY <1>2, <2>1, <3>2
        <4> QED
          BY <1>2, <1>8, <2>1, <3>1, <3>2, <4>1
      <3>3. CASE ~(j < a.length)
        <4>1. j >= a.length
          BY <1>2, <2>1, <3>3
        <4> QED
          BY <1>2, <1>8, <1>11, <2>1, <3>1, <3>3, <4>1
      <3> QED
        BY <3>2, <3>3
    <2> QED
      BY <2>2, <2>3
  <1>13. Elements(b) = t
    BY <1>5, <1>9, <1>10, <1>12, ElementsAre
  <1> QED
    BY <1>1, <1>5, <1>7, <1>9, <1>10, <1>13 DEF Has

LEMMA DeleteElements ==
    ASSUME NEW a \in Layouts, NEW i \in Nat
    PROVE  Has(deleteProperty(a, i), Ecma!Emptied(Elements(a), i))
  <1>1. PICK b, s, t : /\ b = deleteProperty(a, i) /\ s = Elements(a)
                       /\ t = Ecma!Emptied(s, i)
    OBVIOUS
  <1>2. /\ s \in Seq(Element) /\ Len(s) = a.length /\ a.length \in Nat
        /\ \A j \in 0 .. a.length - 1 : s[j + 1] = View(a)[j]
    BY <1>1, ElementsType
  <1>3. SetTo(a, b, i, Undefined) /\ b.length = a.length
    BY <1>1, DeleteIs
  <1>4. Undefined \in Element
    BY DEF Element
  <1>5. /\ b \in Layouts /\ View(b)[i] = Undefined
        /\ \A j \in Nat : j # i => View(b)[j] = View(a)[j]
    <2>1. View(a) \in [Nat -> Element]
      BY ViewType
    <2> QED
      BY <1>3, <1>4, <2>1 DEF SetTo
  <1>6. /\ t \in Seq(Element) /\ Len(t) = a.length
        /\ \A j \in 0 .. a.length - 1 : t[j + 1] = IF j = i THEN Undefined ELSE s[j + 1]
    <2>1. CASE i < Len(s)
      <3>1. t = [s EXCEPT ![i + 1] = Undefined]
        BY <1>1, <2>1 DEF Ecma!Emptied
      <3>2. i + 1 \in 1 .. Len(s)
        BY <1>2, <2>1
      <3>3. \A j \in 0 .. a.length - 1 : j + 1 \in 1 .. Len(s) /\ (j + 1 = i + 1 <=> j = i)
        BY <1>2
      <3> QED
        BY <1>2, <1>4, <3>1, <3>2, <3>3
    <2>2. CASE ~(i < Len(s))
      <3>1. t = s
        BY <1>1, <2>2 DEF Ecma!Emptied
      <3>2. \A j \in 0 .. a.length - 1 : j # i
        BY <1>2, <2>2
      <3> QED
        BY <1>2, <3>1, <3>2
    <2> QED
      BY <2>1, <2>2
  <1>7. ASSUME NEW j \in 0 .. b.length - 1 PROVE View(b)[j] = t[j + 1]
    <2>1. j \in Nat /\ j \in 0 .. a.length - 1
      BY <1>2, <1>3
    <2> QED
      BY <1>2, <1>5, <1>6, <2>1
  <1>8. Elements(b) = t
    BY <1>3, <1>5, <1>6, <1>7, ElementsAre
  <1> QED
    BY <1>1, <1>3, <1>5, <1>6, <1>8 DEF Has

LEMMA ReverseElements ==
    ASSUME NEW a \in Layouts, NEW s, s = Elements(a)
    PROVE  Has(reverse(a), Reverse(s)) /\ Ecma!Reverse(s) = Reverse(s)
  <1>1. PICK b, t, L : b = reverse(a) /\ t = Reverse(s) /\ L = a.length
    OBVIOUS
  <1>2. /\ s \in Seq(Element) /\ Len(s) = L /\ L \in Nat
        /\ \A j \in 0 .. L - 1 : s[j + 1] = View(a)[j]
    BY <1>1, ElementsType
  <1>3. t = [i \in 1 .. L |-> s[(L - i) + 1]]
    BY <1>1, <1>2 DEF Reverse
  <1>4. t \in Seq(Element) /\ Len(t) = L
    <2>1. \A i \in 1 .. L : (L - i) + 1 \in 1 .. L
      BY <1>2
    <2>2. t \in [1 .. L -> Element]
      BY <1>2, <1>3, <2>1
    <2> QED
      BY <1>2, <2>2
  <1>5. b \in Layouts /\ b.length = L /\ \A j \in 0 .. L - 1 : View(b)[j] = View(a)[L - j - 1]
    BY <1>1, ReverseIs
  <1>6. ASSUME NEW j \in 0 .. b.length - 1 PROVE View(b)[j] = t[j + 1]
    <2>1. /\ j \in 0 .. L - 1 /\ L - j - 1 \in 0 .. L - 1 /\ j + 1 \in 1 .. L
          /\ (L - (j + 1)) + 1 = (L - j - 1) + 1
      BY <1>2, <1>5
    <2>2. t[j + 1] = s[(L - j - 1) + 1]
      BY <1>3, <2>1
    <2>3. s[(L - j - 1) + 1] = View(a)[L - j - 1]
      BY <1>2, <2>1
    <2> QED
      BY <1>5, <2>1, <2>2, <2>3
  <1>7. Elements(b) = t
    BY <1>4, <1>5, <1>6, ElementsAre
  <1>8. Ecma!Reverse(s) = t
    BY <1>2, <1>3 DEF Ecma!Reverse
  <1> QED
    BY <1>1, <1>4, <1>5, <1>7, <1>8 DEF Has

LEMMA ShiftIs ==
    ASSUME NEW a \in Layouts, a.length # 0, NEW s, s = Elements(a)
    PROVE  Has(shift(a), Ecma!Spliced(s, 0, 1, <<>>)) /\ Ecma!Spliced(s, 0, 1, <<>>) = Tail(s)
  <1>1. PICK L, m, c, b : /\ L = a.length /\ m = CopyAll(a, Up(1, L - 1), -1)
                          /\ c = deleteProperty(m, L - 1) /\ b = setLength(c, L - 1)
    OBVIOUS
  <1>2. L \in Nat /\ L >= 1 /\ L - 1 \in Nat
    <2>1. L \in Nat
      BY <1>1, LayoutIs
    <2> QED
      BY <1>1, <2>1
  <1>3. b = shift(a)
    BY <1>1 DEF shift
  <1>4. MovedDown(a, m, 1, L, -1)
    <2>1. 1 \in Nat /\ 1 <= L /\ -1 \in Int /\ -1 < 0 /\ 1 + (-1) >= 0
      BY <1>2
    <2> QED
      BY <1>1, <2>1, CopyUpIs
  <1>5. m \in Layouts /\ m.length = L
    BY <1>1, <1>4 DEF MovedDown
  <1>6. /\ SetTo(m, c, L - 1, Undefined) /\ c.length = L
        /\ L - 1 \notin DOMAIN c.sparse
    BY <1>1, <1>2, <1>5, DeleteIs
  <1>7. c \in Layouts /\ \A j \in Nat : j # L - 1 => View(c)[j] = View(m)[j]
    <2>1. View(m) \in [Nat -> Element]
      BY <1>5, ViewType
    <2> QED
      BY <1>6, <2>1 DEF SetTo
  <1>8. /\ b \in Layouts /\ b.length = L - 1
        /\ View(b) = [i \in Nat |-> IF i < L - 1 THEN View(c)[i] ELSE Undefined]
    BY <1>1, <1>2, <1>6, <1>7, SetLengthIs
  <1>9. ASSUME NEW j \in 0 .. L - 2 PROVE View(b)[j] = View(a)[j + 1]
    <2>1. /\ j \in Nat /\ j < L - 1 /\ j # L - 1 /\ 1 <= j - (-1) /\ j - (-1) < L
          /\ j - (-1) = j + 1
      BY <1>2
    <2>2. View(b)[j] = View(m)[j]
      BY <1>7, <1>8, <2>1
    <2> QED
      BY <1>1, <1>4, <2>1, <2>2 DEF MovedDown
  <1>10. /\ s \in Seq(Element) /\ Len(s) = L
         /\ \A j \in 0 .. L - 1 : s[j + 1] = View(a)[j]
    BY <1>1, ElementsType
  <1>11. PICK t : t = Tail(s)
    OBVIOUS
  <1>12. t \in Seq(Element) /\ Len(t) = L - 1 /\ \A i \in 1 .. L - 1 : t[i] = s[i + 1]
    BY <1>2, <1>10, <1>11
  <1>13. ASSUME NEW j \in 0 .. b.length - 1 PROVE View(b)[j] = t[j + 1]
    <2>1. j \in 0 .. L - 2 /\ j + 1 \in 1 .. L - 1 /\ j + 1 \in 0 .. L - 1
      BY <1>2, <1>8
    <2>2. s[(j + 1) + 1] = View(a)[j + 1]
      BY <1>10, <2>1
    <2> QED
      BY <1>9, <1>12, <2>1, <2>2
  <1>14. Elements(b) = t
    BY <1>8, <1>12, <1>13, ElementsAre
  <1>15. Ecma!Spliced(s, 0, 1, <<>>) = t
    <2>1. PICK e, r : e = <<>> /\ r = Ecma!Spliced(s, 0, 1, e)
      OBVIOUS
    <2>2. e \in Seq(Element) /\ Len(e) = 0
      BY <2>1
    <2>3. 0 + 1 <= Len(s)
      BY <1>2, <1>10
    <2>4. Splices(s, 0, 1, e, r)
      BY <1>10, <2>1, <2>2, <2>3, SplicedIs
    <2>5. /\ r \in Seq(Element) /\ Len(r) = L - 1
          /\ \A j \in 0 .. Len(r) - 1 : r[j + 1] = s[j + 2]
      <3>1. /\ r \in Seq(Element) /\ Len(r) = L - 1 + 0
            /\ \A j \in 0 .. Len(r) - 1 : r[j + 1] =
                IF j < 0 THEN s[j + 1]
                ELSE IF j < 0 + 0 THEN e[j - 0 + 1]
                ELSE s[(j - 0 + 1) + 1]
        BY <1>10, <2>2, <2>4 DEF Splices
      <3>2. \A j \in 0 .. Len(r) - 1 : ~(j < 0) /\ ~(j < 0 + 0) /\ (j - 0 + 1) + 1 = j + 2
        OBVIOUS
      <3> QED
        BY <1>2, <3>1, <3>2
    <2>6. ASSUME NEW i \in 1 .. L - 1 PROVE r[i] = t[i]
      <3>1. i - 1 \in 0 .. Len(r) - 1 /\ (i - 1) + 1 = i /\ (i - 1) + 2 = i + 1
        BY <1>2, <2>5
      <3> QED
        BY <1>12, <2>5, <3>1
    <2>7. r = t
      BY <1>12, <2>5, <2>6
    <2> QED
      BY <2>1, <2>7
  <1> QED
    BY <1>3, <1>8, <1>11, <1>12, <1>14, <1>15 DEF Has

\* f[n] is target after n of the copies of CopyInto.
FetchesAll(a, target, k, begin, end, m, f) ==
    /\ f[0] = target
    /\ \A n \in 1 .. m :
        f[n] = IF getProperty(a, begin + (n - 1)) = Null THEN f[n - 1]
               ELSE put(f[n - 1], k + (n - 1), getProperty(a, begin + (n - 1)))
    /\ CopyInto(target, k, a, begin, end) = f[m]

LEMMA FetchesRun ==
    ASSUME NEW a \in Layouts, NEW target \in Layouts, NEW k \in Nat,
           NEW begin \in Nat, NEW end \in Nat
    PROVE  \E f : FetchesAll(a, target, k, begin, end, Max({end - begin, 0}), f)
  <1> DEFINE N == Max({end - begin, 0})
             A == Layouts
             next(b, n) == IF getProperty(a, begin + (n - 1)) = Null THEN b
                           ELSE put(b, k + (n - 1), getProperty(a, begin + (n - 1)))
             step == [n \in 1 .. N |-> [b \in A |-> next(b, n)]]
             loop[i \in 0 .. N] ==
                 IF i = 0 THEN target
                 ELSE IF getProperty(a, begin + (i - 1)) = Null THEN loop[i - 1]
                 ELSE put(loop[i - 1], k + (i - 1), getProperty(a, begin + (i - 1)))
  <1>0. N \in Nat
    <2>1. Max({end - begin, 0}) = IF end - begin >= 0 THEN end - begin ELSE 0
      <3>1. end - begin \in Int /\ 0 \in Int
        OBVIOUS
      <3> QED
        BY ONLY <3>1, LargerIs
    <2> QED
      BY <2>1
  <1>1. step \in [1 .. N -> [A -> A]]
    <2>1. ASSUME NEW n \in 1 .. N, NEW b \in A PROVE next(b, n) \in A
      <3>1. begin + (n - 1) \in Nat /\ k + (n - 1) \in Nat
        BY <1>0
      <3>2. CASE getProperty(a, begin + (n - 1)) = Null
        BY <2>1, <3>2
      <3>3. CASE getProperty(a, begin + (n - 1)) # Null
        <4>1. getProperty(a, begin + (n - 1)) \in Element
          BY <3>1, <3>3, GetIs
        <4>2. put(b, k + (n - 1), getProperty(a, begin + (n - 1))) \in Layouts
          BY <2>1, <3>1, <4>1, PutIs DEF SetTo
        <4> QED
          BY <3>3, <4>2
      <3> QED
        BY <3>2, <3>3
    <2> HIDE DEF A, next
    <2> QED
      BY <2>1
  <1>2. PICK f : Run(N, A, target, step, f)
    <2> HIDE DEF step
    <2>1. N \in Nat /\ target \in A
      BY <1>0
    <2> HIDE DEF A, N
    <2> QED
      BY <1>1, <2>1, Recursion
  <1>3. /\ f[0] = target /\ \A n \in 1 .. N : f[n] = next(f[n - 1], n)
        /\ f \in [0 .. N -> A]
    <2>1. ASSUME NEW n \in 1 .. N PROVE f[n] = next(f[n - 1], n)
      <3>1. n - 1 \in 0 .. N
        BY <1>0
      <3>2. f[n - 1] \in A /\ f[n] = step[n][f[n - 1]]
        <4> HIDE DEF A, step
        <4> QED
          BY <1>2, <3>1 DEF Run
      <3> HIDE DEF A, next
      <3> QED
        BY <3>2
    <2>2. f[0] = target /\ f \in [0 .. N -> A]
      <3> HIDE DEF A, step, N
      <3> QED
        BY <1>2 DEF Run
    <2> QED
      BY <2>1, <2>2
  <1>4. f = [i \in 0 .. N |->
                 IF i = 0 THEN target
                 ELSE IF getProperty(a, begin + (i - 1)) = Null THEN f[i - 1]
                 ELSE put(f[i - 1], k + (i - 1), getProperty(a, begin + (i - 1)))]
    <2>1. \A n \in 0 .. N : n = 0 \/ n \in 1 .. N
      BY <1>0
    <2> HIDE DEF A, N
    <2> QED
      BY <1>3, <2>1
  <1>5. loop = [i \in 0 .. N |->
                 IF i = 0 THEN target
                 ELSE IF getProperty(a, begin + (i - 1)) = Null THEN loop[i - 1]
                 ELSE put(loop[i - 1], k + (i - 1), getProperty(a, begin + (i - 1)))]
    <2> HIDE DEF N
    <2> QED
      BY <1>4, Zenon
  <1>6. CopyInto(target, k, a, begin, end) = loop[N]
    BY DEF CopyInto
  <1> HIDE DEF loop
  <1>7. ASSUME NEW n \in 1 .. N PROVE loop[n] = next(loop[n - 1], n)
    <2>1. n \in 0 .. N /\ n # 0
      BY <1>0
    <2> HIDE DEF N
    <2> QED
      BY <1>5, <2>1
  <1>8. loop[0] = target
    <2>1. 0 \in 0 .. N
      BY <1>0
    <2> HIDE DEF N
    <2> QED
      BY <1>5, <2>1
  <1> QED
    BY <1>6, <1>7, <1>8 DEF FetchesAll

\* b is target with the elements of a from begin on copied to place k and after it,
\* m of them.
Fetched(target, b, k, a, begin, m) ==
    /\ b \in Layouts /\ b.length <= k + m
    /\ \A j \in Nat : View(b)[j] = IF k <= j /\ j < k + m THEN View(a)[begin + j - k]
                                   ELSE View(target)[j]

LEMMA CopyIntoIs ==
    ASSUME NEW a \in Layouts, NEW target \in Layouts, NEW k \in Nat, target.length <= k,
           NEW begin \in Nat, NEW end \in Nat, NEW m \in Nat, m = Max({end - begin, 0})
    PROVE  Fetched(target, CopyInto(target, k, a, begin, end), k, a, begin, m)
  <1>1. PICK f : /\ f[0] = target
                 /\ \A n \in 1 .. m :
                        f[n] = IF getProperty(a, begin + (n - 1)) = Null THEN f[n - 1]
                               ELSE put(f[n - 1], k + (n - 1), getProperty(a, begin + (n - 1)))
                 /\ CopyInto(target, k, a, begin, end) = f[m]
    <2>1. \E f : FetchesAll(a, target, k, begin, end, Max({end - begin, 0}), f)
      BY FetchesRun
    <2> QED
      BY <2>1 DEF FetchesAll
  <1>2. PICK S : S = {n \in Nat : n <= m => Fetched(target, f[n], k, a, begin, n)}
    OBVIOUS
  <1>3. 0 \in S
    <2>1. target.length <= k + 0
      BY ViewType
    <2>2. ASSUME NEW j \in Nat
          PROVE  View(target)[j] = IF k <= j /\ j < k + 0 THEN View(a)[begin + j - k]
                                   ELSE View(target)[j]
      <3>1. ~(k <= j /\ j < k + 0)
        OBVIOUS
      <3> QED
        BY <3>1
    <2> QED
      BY <1>1, <1>2, <2>1, <2>2 DEF Fetched
  <1>4. ASSUME NEW n \in Nat, n \in S PROVE n + 1 \in S
    <2>1. CASE ~(n + 1 <= m)
      BY <1>2, <2>1
    <2>2. CASE n + 1 <= m
      <3>1. n \in Nat /\ n <= m /\ n + 1 \in 1 .. m /\ (n + 1) - 1 = n
        BY <2>2
      <3>2. PICK b, c, v : b = f[n] /\ c = f[n + 1] /\ v = getProperty(a, begin + n)
        OBVIOUS
      <3>3. /\ b \in Layouts /\ b.length <= k + n
            /\ \A j \in Nat : View(b)[j] = IF k <= j /\ j < k + n THEN View(a)[begin + j - k]
                                           ELSE View(target)[j]
        BY <1>2, <1>4, <3>1, <3>2 DEF Fetched
      <3>4. c = IF v = Null THEN b ELSE put(b, k + n, v)
        BY <1>1, <3>1, <3>2
      <3>5. begin + n \in Nat /\ k + n \in Nat /\ b.length \in Nat
        BY <3>3, ViewType
      <3>6. /\ View(a)[begin + n] = get(a, begin + n) /\ get(a, begin + n) \in Element
            /\ v = Null => get(a, begin + n) = Undefined
            /\ v # Null => get(a, begin + n) = v
        BY <3>2, <3>5, ViewType, GetIs
      <3>7. /\ c \in Layouts /\ c.length <= k + (n + 1)
            /\ \A j \in Nat : View(c)[j] = IF j = k + n THEN View(a)[begin + n] ELSE View(b)[j]
        <4>1. CASE v = Null
          <5>1. c = b
            BY <3>4, <4>1
          <5>2. b.length <= k + (n + 1)
            BY <3>1, <3>3, <3>5
          <5>3. View(b)[k + n] = Undefined
            BY <3>3, <3>5, ViewType
          <5> QED
            BY <3>3, <3>6, <4>1, <5>1, <5>2, <5>3
        <4>2. CASE v # Null
          <5>1. PICK w : w = View(a)[begin + n]
            OBVIOUS
          <5>2. c = put(b, k + n, w) /\ w \in Element
            BY <3>4, <3>6, <4>2, <5>1
          <5>3. /\ SetTo(b, c, k + n, w)
                /\ c.length = IF k + n < b.length THEN b.length ELSE k + n + 1
            BY <3>3, <3>5, <5>2, PutIs
          <5>4. View(b) \in [Nat -> Element]
            BY <3>3, ViewType
          <5>5. c \in Layouts /\ View(c) = [View(b) EXCEPT ![k + n] = w]
            BY <5>3 DEF SetTo
          <5>6. \A j \in Nat : View(c)[j] = IF j = k + n THEN w ELSE View(b)[j]
            BY <3>5, <5>2, <5>4, <5>5
          <5>7. c.length <= k + (n + 1)
            BY <3>1, <3>3, <3>5, <5>3
          <5> QED
            BY <5>1, <5>5, <5>6, <5>7
        <4> QED
          BY <4>1, <4>2
      <3>8. ASSUME NEW j \in Nat
            PROVE  View(c)[j] = IF k <= j /\ j < k + (n + 1) THEN View(a)[begin + j - k]
                                ELSE View(target)[j]
        <4>1. CASE j = k + n
          <5>1. k <= j /\ j < k + (n + 1) /\ begin + j - k = begin + n
            BY <4>1
          <5> QED
            BY <3>7, <4>1, <5>1
        <4>2. CASE j # k + n
          <5>1. (k <= j /\ j < k + (n + 1)) <=> (k <= j /\ j < k + n)
            BY <4>2
          <5> QED
            BY <3>3, <3>7, <4>2, <5>1
        <4> QED
          BY <4>1, <4>2
      <3>9. Fetched(target, c, k, a, begin, n + 1)
        BY <3>7, <3>8 DEF Fetched
      <3> QED
        BY <1>2, <3>2, <3>9
    <2> QED
      BY <2>1, <2>2
  <1>5. Nat \subseteq S
    BY <1>3, <1>4, SetInduction
  <1>6. m \in S
    BY <1>5
  <1> QED
    BY <1>1, <1>2, <1>6

LEMMA EmptyListIs ==
    /\ ofList(<<>>) \in Layouts /\ ofList(<<>>).length = 0
    /\ \A j \in Nat : View(ofList(<<>>))[j] = Undefined
  <1>1. PICK a, s, p : a = ofList(<<>>) /\ s = [i \in 0 .. 0 - 1 |-> <<>>[i + 1]] /\ p = <<>>
    OBVIOUS
  <1>2. a = [length |-> 0, storage |-> s, storageLength |-> 0, sparse |-> p]
    BY <1>1 DEF ofList
  <1>3. 0 .. 0 - 1 = {} /\ DOMAIN p = {} /\ p = [i \in {} |-> Undefined]
    BY <1>1
  <1>4. s \in [0 .. 0 - 1 -> Cells]
    BY <1>1, <1>3
  <1>5. PICK w : w = [i \in Nat |-> Undefined]
    OBVIOUS
  <1>6. w \in [Nat -> Element] /\ \A i \in Nat : w[i] = Undefined
    BY <1>5 DEF Element
  <1>7. Stores(0, s, 0, p, w)
    <2>1. \E c \in Nat : s \in [0 .. c - 1 -> Cells] /\ 0 <= c
      BY <1>4
    <2>2. DOMAIN s = {} /\ p \in [DOMAIN p -> Element]
      BY <1>3, <1>4
    <2>3. \A i \in 0 .. 0 - 1 : w[i] = IF s[i] = Null THEN Undefined ELSE s[i]
      BY <1>3
    <2> QED
      BY <1>3, <1>6, <2>1, <2>2, <2>3 DEF Stores
  <1>8. a \in Layouts /\ View(a) = w /\ a.length = 0
    BY <1>2, <1>7, LayoutShows
  <1> QED
    BY <1>1, <1>6, <1>8

LEMMA SliceIs ==
    ASSUME NEW a \in Layouts, NEW s, s = Elements(a), NEW begin \in 0 .. Len(s),
           NEW end \in 0 .. Len(s)
    PROVE  Has(slice(a, begin, end), SubSeq(s, begin + 1, end))
  <1>1. /\ s \in Seq(Element) /\ Len(s) = a.length /\ a.length \in Nat
        /\ \A j \in 0 .. a.length - 1 : s[j + 1] = View(a)[j]
    BY ElementsType
  <1>2. begin \in Nat /\ end \in Nat /\ begin <= a.length /\ end <= a.length
    BY <1>1
  <1>3. PICK m : m = Max({end - begin, 0})
    OBVIOUS
  <1>4. m = (IF end - begin >= 0 THEN end - begin ELSE 0) /\ m \in Nat
    <2>1. end - begin \in Int /\ 0 \in Int
      BY <1>2
    <2>2. Max({end - begin, 0}) = IF end - begin >= 0 THEN end - begin ELSE 0
      BY ONLY <2>1, LargerIs
    <2> QED
      BY <1>2, <1>3, <2>2
  <1>5. PICK t, c, b : /\ t = ofList(<<>>) /\ c = CopyInto(t, 0, a, begin, end)
                       /\ b = setLength(c, m)
    OBVIOUS
  <1>6. b = slice(a, begin, end)
    <2>1. Min({begin, a.length}) = begin /\ Min({end, a.length}) = end
      <3>1. begin \in Int /\ end \in Int /\ a.length \in Int
        BY <1>1, <1>2
      <3>2. /\ Min({begin, a.length}) = IF begin <= a.length THEN begin ELSE a.length
            /\ Min({end, a.length}) = IF end <= a.length THEN end ELSE a.length
        BY ONLY <3>1, LargerIs
      <3> QED
        BY <1>2, <3>2
    <2>2. ~(begin < 0) /\ ~(end < 0)
      BY <1>2
    <2> QED
      BY <1>3, <1>5, <2>1, <2>2 DEF slice
  <1>7. /\ t \in Layouts /\ t.length <= 0 /\ \A j \in Nat : View(t)[j] = Undefined
    BY <1>5, EmptyListIs
  <1>8. Fetched(t, c, 0, a, begin, m)
    <2>1. 0 \in Nat
      OBVIOUS
    <2> QED
      BY <1>2, <1>3, <1>4, <1>5, <1>7, <2>1, CopyIntoIs
  <1>9. /\ c \in Layouts /\ c.length <= m
        /\ \A j \in Nat : View(c)[j] = IF j < m THEN View(a)[begin + j] ELSE Undefined
    <2>1. 0 + m = m /\ \A j \in Nat : 0 <= j /\ begin + j - 0 = begin + j
      BY <1>2, <1>4
    <2> QED
      BY <1>7, <1>8, <2>1 DEF Fetched
  <1>10. m \notin DOMAIN c.sparse
    <2>1. \A i \in DOMAIN c.sparse : i < c.length /\ i \in Nat /\ c.length \in Nat
      BY <1>9, LayoutIs
    <2> QED
      BY <1>4, <1>9, <2>1
  <1>11. /\ b \in Layouts /\ b.length = m
         /\ View(b) = [i \in Nat |-> IF i < m THEN View(c)[i] ELSE Undefined]
    BY <1>4, <1>5, <1>9, <1>10, SetLengthIs
  <1>12. PICK q : q = SubSeq(s, begin + 1, end)
    OBVIOUS
  <1>13. /\ q \in Seq(Element) /\ Len(q) = m
         /\ \A j \in 0 .. m - 1 : q[j + 1] = s[begin + j + 1]
    <2>1. CASE begin <= end
      <3>1. begin + 1 \in Nat /\ begin + 1 >= 1 /\ end <= Len(s) /\ begin + 1 <= end + 1
        BY <1>1, <1>2, <2>1
      <3>2. /\ q \in Seq(Element) /\ Len(q) = end - (begin + 1) + 1
            /\ \A i \in 1 .. Len(q) : q[i] = s[(begin + 1) + i - 1]
        BY <1>1, <1>2, <1>12, <3>1, PartIs
      <3>3. Len(q) = m
        BY <1>2, <1>4, <2>1, <3>2
      <3>4. ASSUME NEW j \in 0 .. m - 1 PROVE q[j + 1] = s[begin + j + 1]
        <4>1. j + 1 \in 1 .. Len(q) /\ (begin + 1) + (j + 1) - 1 = begin + j + 1
          BY <1>2, <1>4, <3>3
        <4> QED
          BY <3>2, <4>1
      <3> QED
        BY <3>2, <3>3, <3>4
    <2>2. CASE ~(begin <= end)
      <3>1. begin + 1 > end /\ m = 0
        BY <1>2, <1>4, <2>2
      <3>2. q = <<>>
        BY <1>1, <1>2, <1>12, <3>1
      <3> QED
        BY <3>1, <3>2
    <2> QED
      BY <2>1, <2>2
  <1>14. ASSUME NEW j \in 0 .. b.length - 1 PROVE View(b)[j] = q[j + 1]
    <2>1. j \in Nat /\ j < m /\ j \in 0 .. m - 1
      BY <1>4, <1>11
    <2>2. begin + j \in 0 .. a.length - 1
      BY <1>1, <1>2, <1>4, <2>1
    <2>3. View(b)[j] = View(a)[begin + j]
      BY <1>9, <1>11, <2>1
    <2> QED
      BY <1>1, <1>13, <2>1, <2>2, <2>3
  <1>15. Elements(b) = q
    BY <1>11, <1>13, <1>14, ElementsAre
  <1> QED
    BY <1>6, <1>11, <1>12, <1>13, <1>15 DEF Has

LEMMA ConcatIs ==
    ASSUME NEW a \in Layouts, NEW c \in Layouts
    PROVE  Has(concat(a, c), Elements(a) \o Elements(c))
  <1>1. PICK s, r : s = Elements(a) /\ r = Elements(c)
    OBVIOUS
  <1>2. /\ s \in Seq(Element) /\ Len(s) = a.length /\ a.length \in Nat
        /\ \A j \in 0 .. a.length - 1 : s[j + 1] = View(a)[j]
    BY <1>1, ElementsType
  <1>3. /\ r \in Seq(Element) /\ Len(r) = c.length /\ c.length \in Nat
        /\ \A j \in 0 .. c.length - 1 : r[j + 1] = View(c)[j]
    BY <1>1, ElementsType
  <1>4. PICK t, m, p, b : /\ t = ofList(<<>>) /\ m = CopyInto(t, 0, a, 0, a.length)
                          /\ p = CopyInto(m, a.length, c, 0, c.length)
                          /\ b = setLength(p, a.length + c.length)
    OBVIOUS
  <1>5. b = concat(a, c)
    BY <1>4 DEF concat
  <1>6. t \in Layouts /\ t.length <= 0
    BY <1>4, EmptyListIs
  <1>7. Max({a.length - 0, 0}) = a.length /\ Max({c.length - 0, 0}) = c.length
    <2>1. a.length - 0 \in Int /\ c.length - 0 \in Int /\ 0 \in Int
      BY <1>2, <1>3
    <2>2. /\ Max({a.length - 0, 0}) = IF a.length - 0 >= 0 THEN a.length - 0 ELSE 0
          /\ Max({c.length - 0, 0}) = IF c.length - 0 >= 0 THEN c.length - 0 ELSE 0
      BY ONLY <2>1, LargerIs
    <2> QED
      BY <1>2, <1>3, <2>2
  <1>8. Fetched(t, m, 0, a, 0, a.length)
    <2>1. 0 \in Nat
      OBVIOUS
    <2> QED
      BY <1>2, <1>4, <1>6, <1>7, <2>1, CopyIntoIs
  <1>9. /\ m \in Layouts /\ m.length <= a.length
        /\ \A j \in Nat : j < a.length => View(m)[j] = View(a)[j]
    <2>1. 0 + a.length = a.length /\ \A j \in Nat : 0 <= j /\ 0 + j - 0 = j
      BY <1>2
    <2> QED
      BY <1>8, <2>1 DEF Fetched
  <1>10. Fetched(m, p, a.length, c, 0, c.length)
    <2>1. 0 \in Nat
      OBVIOUS
    <2> QED
      BY <1>2, <1>3, <1>4, <1>7, <1>9, <2>1, CopyIntoIs
  <1>11. PICK n : n = a.length + c.length
    OBVIOUS
  <1>12. /\ p \in Layouts /\ p.length <= n /\ n \in Nat
         /\ \A j \in Nat : View(p)[j] = IF a.length <= j /\ j < n THEN View(c)[0 + j - a.length]
                                        ELSE View(m)[j]
    BY <1>2, <1>3, <1>10, <1>11 DEF Fetched
  <1>13. n \notin DOMAIN p.sparse
    <2>1. \A i \in DOMAIN p.sparse : i < p.length /\ i \in Nat /\ p.length \in Nat
      BY <1>12, LayoutIs
    <2> QED
      BY <1>12, <2>1
  <1>14. /\ b \in Layouts /\ b.length = n
         /\ View(b) = [i \in Nat |-> IF i < n THEN View(p)[i] ELSE Undefined]
    BY <1>4, <1>11, <1>12, <1>13, SetLengthIs
  <1>15. PICK q : q = s \o r
    OBVIOUS
  <1>16. /\ q \in Seq(Element) /\ Len(q) = Len(s) + Len(r)
         /\ \A i \in 1 .. Len(q) : q[i] = IF i <= Len(s) THEN s[i] ELSE r[i - Len(s)]
    <2>1. s \in Seq(Element) /\ r \in Seq(Element)
      BY <1>2, <1>3
    <2> QED
      BY ONLY <1>15, <2>1, JoinIs
  <1>17. Len(q) = n
    BY <1>2, <1>3, <1>11, <1>16
  <1>18. ASSUME NEW j \in 0 .. b.length - 1 PROVE View(b)[j] = q[j + 1]
    <2>1. j \in Nat /\ j < n /\ j + 1 \in 1 .. Len(q)
      BY <1>12, <1>14, <1>17
    <2>2. View(b)[j] = View(p)[j]
      BY <1>14, <2>1
    <2>3. CASE j < a.length
      <3>1. ~(a.length <= j) /\ j \in 0 .. a.length - 1 /\ j + 1 <= Len(s)
        BY <1>2, <2>1, <2>3
      <3>2. View(b)[j] = s[j + 1]
        BY <1>2, <1>9, <1>12, <2>1, <2>2, <2>3, <3>1
      <3> QED
        BY <1>16, <2>1, <3>1, <3>2
    <2>4. CASE ~(j < a.length)
      <3>1. /\ a.length <= j /\ 0 + j - a.length \in 0 .. c.length - 1 /\ ~(j + 1 <= Len(s))
            /\ (0 + j - a.length) + 1 = (j + 1) - Len(s)
        <4>1. j \in Nat /\ j < a.length + c.length /\ a.length \in Nat /\ c.length \in Nat
          BY <1>2, <1>3, <1>11, <2>1
        <4>2. a.length <= j
          BY <2>4, <4>1
        <4>3. 0 + j - a.length \in 0 .. c.length - 1 /\ ~(j + 1 <= a.length)
              /\ (0 + j - a.length) + 1 = (j + 1) - a.length
          BY <4>1, <4>2
        <4> QED
          BY <1>2, <4>2, <4>3
      <3>2. View(b)[j] = r[(0 + j - a.length) + 1]
        BY <1>3, <1>12, <2>1, <2>2, <3>1
      <3> QED
        BY <1>16, <2>1, <3>1, <3>2
    <2> QED
      BY <2>3, <2>4
  <1>19. Elements(b) = q
    BY <1>14, <1>16, <1>17, <1>18, ElementsAre
  <1> QED
    BY <1>1, <1>5, <1>14, <1>15, <1>17, <1>19 DEF Has

\* Whether or not n is the name of a property, the elements below it stay.
LEMMA CutIs ==
    ASSUME NEW a \in Layouts, NEW n \in Nat, n <= a.length, NEW b, b = setLength(a, n)
    PROVE  b.length = n /\ \A i \in 0 .. n - 1 : get(b, i) = get(a, i)
  <1>1. /\ a = [length |-> a.length, storage |-> a.storage,
                storageLength |-> a.storageLength, sparse |-> a.sparse]
        /\ a.length \in Nat /\ a.storageLength \in Nat
    BY LayoutIs
  <1>2. PICK r : r = IF n <= a.storageLength THEN resizeStorage(a, n) ELSE a
    OBVIOUS
  <1>3. /\ r = [length |-> a.length, storage |-> r.storage, storageLength |-> r.storageLength,
                sparse |-> a.sparse]
        /\ \A i \in 0 .. n - 1 : i < r.storageLength <=> i < a.storageLength
        /\ \A i \in 0 .. n - 1 : i < a.storageLength => r.storage[i] = a.storage[i]
    <2>1. CASE n <= a.storageLength
      <3>1. PICK t : Resized(a, n, t, r)
        BY <1>2, <2>1, ResizeIs
      <3>2. r = [length |-> a.length, storage |-> t, storageLength |-> n, sparse |-> a.sparse]
        BY <3>1 DEF Resized
      <3>3. PICK k \in Nat : n <= k /\ t \in [0 .. k - 1 -> Cells]
        BY <3>1 DEF Resized
      <3>4. ASSUME NEW i \in 0 .. n - 1 PROVE i < n /\ i < a.storageLength /\ t[i] = a.storage[i]
        <4>1. i \in 0 .. k - 1 /\ i < n /\ i < a.storageLength
          BY <1>1, <2>1, <3>3
        <4> QED
          BY <3>1, <3>3, <4>1 DEF Resized
      <3> QED
        BY <3>2, <3>4
    <2>2. CASE ~(n <= a.storageLength)
      BY <1>1, <1>2, <2>2
    <2> QED
      BY <2>1, <2>2
  <1>4. PICK p : p = Without(a.sparse, {i \in DOMAIN a.sparse : n < i /\ i < a.length})
    OBVIOUS
  <1>5. \A i \in 0 .. n - 1 : /\ i \in DOMAIN p <=> i \in DOMAIN a.sparse
                              /\ i \in DOMAIN p => p[i] = a.sparse[i]
    BY <1>4 DEF Without
  <1>6. b = [length |-> n, storage |-> r.storage, storageLength |-> r.storageLength,
             sparse |-> p]
    <2>1. b = [r EXCEPT !.sparse = p, !.length = n]
      <3>1. r.sparse = a.sparse /\ r.length = a.length
        BY <1>3
      <3> QED
        BY <1>2, <1>4, <3>1 DEF setLength
    <2> QED
      BY <1>3, <2>1
  <1>7. ASSUME NEW i \in 0 .. n - 1 PROVE get(b, i) = get(a, i)
    <2>1. ~(i >= n) /\ ~(i >= a.length)
      BY <1>1
    <2>2. PICK m, s : m = r.storageLength /\ s = r.storage
      OBVIOUS
    <2>3. b.length = n /\ b.storage = s /\ b.storageLength = m /\ b.sparse = p
      BY <1>6, <2>2
    <2>4. getProperty(b, i) = getProperty(a, i)
      <3>1. i < m <=> i < a.storageLength
        BY <1>3, <2>2
      <3>2. i < a.storageLength => s[i] = a.storage[i]
        BY <1>3, <2>2
      <3> QED
        BY <1>5, <2>1, <2>3, <3>1, <3>2 DEF getProperty
    <2> QED
      BY <2>4 DEF get
  <1> QED
    BY <1>6, <1>7

LEMMA PopIs ==
    ASSUME NEW a \in Layouts, NEW s, s = Elements(a)
    PROVE  Elements(pop(a)) = IF s = <<>> THEN s ELSE Front(s)
  <1>1. /\ s \in Seq(Element) /\ Len(s) = a.length /\ a.length \in Nat
        /\ \A j \in 0 .. a.length - 1 : s[j + 1] = View(a)[j]
    BY ElementsType
  <1>2. PICK n, b : n = (IF a.length = 0 THEN 0 ELSE a.length - 1) /\ b = setLength(a, n)
    OBVIOUS
  <1>3. pop(a) = b
    BY <1>2 DEF pop
  <1>4. n \in Nat /\ n <= a.length
    BY <1>1, <1>2
  <1>5. b.length = n /\ \A i \in 0 .. n - 1 : get(b, i) = get(a, i)
    BY <1>2, <1>4, CutIs
  <1>6. Elements(b) = [i \in 1 .. n |-> s[i]]
    <2>1. ASSUME NEW i \in 1 .. n PROVE get(b, i - 1) = s[i]
      <3>1. /\ i - 1 \in 0 .. n - 1 /\ i - 1 \in 0 .. a.length - 1 /\ (i - 1) + 1 = i
            /\ i - 1 \in Nat
        BY <1>1, <1>4
      <3>2. View(a)[i - 1] = get(a, i - 1)
        BY <3>1, ViewType
      <3> QED
        BY <1>1, <1>5, <3>1, <3>2
    <2>2. Elements(b) = [i \in 1 .. n |-> get(b, i - 1)]
      BY <1>5 DEF Elements
    <2> QED
      BY <2>1, <2>2
  <1>7. CASE s = <<>>
    <2>1. n = 0 /\ [i \in 1 .. 0 |-> s[i]] = <<>>
      BY <1>1, <1>2, <1>7
    <2> QED
      BY <1>3, <1>6, <1>7, <2>1
  <1>8. CASE s # <<>>
    <2>1. n = Len(s) - 1
      BY <1>1, <1>2, <1>8
    <2>2. Front(s) = [i \in 1 .. n |-> s[i]]
      BY <1>1, <2>1 DEF Front
    <2> QED
      BY <1>3, <1>6, <1>8, <2>2
  <1> QED
    BY <1>7, <1>8

------------------------------------------------------------------------------
(* Counting elements, and their order.                                     *)

LEMMA OneToOne ==
    ASSUME NEW S, NEW T, NEW f \in [S -> T], IsFiniteSet(S),
           \A x, y \in S : f[x] = f[y] => x = y, \A z \in T : \E x \in S : f[x] = z
    PROVE  IsFiniteSet(T) /\ Cardinality(T) = Cardinality(S)
  <1>1. f \in Bijection(S, T)
    BY DEF Bijection, Injection, Surjection, IsInjective
  <1>2. ExistsBijection(S, T)
    BY <1>1 DEF ExistsBijection
  <1> QED
    BY <1>2, FS_Bijection

\* How often v is among the elements of u from m on and before n.
Places(u, m, n, v) == {i \in m .. n - 1 : u[i] = v}
Count(u, m, n, v) == Cardinality(Places(u, m, n, v))

LEMMA CountIs ==
    ASSUME NEW u, NEW m \in Int, NEW n \in Int, NEW v
    PROVE  /\ IsFiniteSet(Places(u, m, n, v)) /\ Count(u, m, n, v) \in Nat
           /\ n <= m => Count(u, m, n, v) = 0
           /\ m <= n => Count(u, m, n + 1, v) = Count(u, m, n, v) + (IF u[n] = v THEN 1 ELSE 0)
  <1>1. IsFiniteSet(m .. n - 1)
    BY FS_Interval
  <1>2. Places(u, m, n, v) \subseteq m .. n - 1
    BY DEF Places
  <1>3. IsFiniteSet(Places(u, m, n, v))
    BY ONLY <1>1, <1>2, FS_Subset
  <1>4. Count(u, m, n, v) \in Nat
    BY <1>3, FS_CardinalityType DEF Count
  <1>5. ASSUME n <= m PROVE Count(u, m, n, v) = 0
    <2>1. Places(u, m, n, v) = {}
      BY <1>5, <1>2
    <2> QED
      BY <2>1, FS_EmptySet DEF Count
  <1>6. ASSUME m <= n
        PROVE  Count(u, m, n + 1, v) = Count(u, m, n, v) + (IF u[n] = v THEN 1 ELSE 0)
    <2>1. PICK S, T : S = Places(u, m, n, v) /\ T = Places(u, m, n + 1, v)
      OBVIOUS
    <2>2. /\ Beside(n, S, T) /\ n \notin S /\ (n \in T <=> u[n] = v)
      <3>1. \A i : i # n => (i \in m .. n - 1 <=> i \in m .. (n + 1) - 1)
        BY <1>6
      <3>2. n \notin m .. n - 1 /\ n \in m .. (n + 1) - 1
        BY <1>6
      <3> QED
        BY <2>1, <3>1, <3>2 DEF Places, Beside
    <2>3. IsFiniteSet(S)
      BY <1>3, <2>1
    <2>4. /\ Cardinality(S) \in Nat
          /\ (n \in S <=> n \in T) => Cardinality(T) = Cardinality(S)
          /\ n \notin S /\ n \in T => Cardinality(T) = Cardinality(S) + 1
      BY ONLY <2>2, <2>3, OneMoves
    <2> QED
      BY <2>1, <2>2, <2>4 DEF Count
  <1> QED
    BY <1>3, <1>4, <1>5, <1>6

\* u and w have the same elements from m on and before n.
Agree(u, w, m, n) == \A i \in m .. n - 1 : u[i] = w[i]

LEMMA CountSame ==
    ASSUME NEW u, NEW w, NEW m \in Int, NEW n \in Int, Agree(u, w, m, n), NEW v
    PROVE  Count(u, m, n, v) = Count(w, m, n, v)
  <1>1. Places(u, m, n, v) = Places(w, m, n, v)
    BY DEF Places, Agree
  <1> QED
    BY <1>1 DEF Count

LEMMA CountParts ==
    ASSUME NEW u, NEW m \in Int, NEW k \in Int, NEW n \in Int, m <= k, k <= n, NEW v
    PROVE  Count(u, m, n, v) = Count(u, m, k, v) + Count(u, k, n, v)
  <1>1. PICK S, T : S = Places(u, m, k, v) /\ T = Places(u, k, n, v)
    OBVIOUS
  <1>2. IsFiniteSet(S) /\ IsFiniteSet(T)
    BY <1>1, CountIs
  <1>3. Places(u, m, n, v) = S \cup T /\ S \cap T = {}
    <2>1. /\ \A i : i \in m .. n - 1 <=> i \in m .. k - 1 \/ i \in k .. n - 1
          /\ \A i : ~(i \in m .. k - 1 /\ i \in k .. n - 1)
      OBVIOUS
    <2> QED
      BY <1>1, <2>1 DEF Places
  <1>4. Cardinality(S \cup T) = Cardinality(S) + Cardinality(T) - Cardinality(S \cap T)
    BY ONLY <1>2, FS_Union
  <1>5. Cardinality(S \cap T) = 0 /\ Cardinality(S) \in Nat /\ Cardinality(T) \in Nat
    BY <1>2, <1>3, FS_EmptySet, FS_CardinalityType
  <1> QED
    BY <1>1, <1>3, <1>4, <1>5 DEF Count

Exchanged(u, w, i, j) == w = [u EXCEPT ![i] = u[j], ![j] = u[i]]

LEMMA SwapCounts ==
    ASSUME NEW u \in [Nat -> Element], NEW n \in Nat, NEW i \in 0 .. n - 1, NEW j \in 0 .. n - 1,
           NEW w, Exchanged(u, w, i, j), NEW v
    PROVE  Count(w, 0, n, v) = Count(u, 0, n, v)
  <1>1. PICK S, T, f : /\ S = Places(u, 0, n, v) /\ T = Places(w, 0, n, v)
                       /\ f = [k \in S |-> IF k = i THEN j ELSE IF k = j THEN i ELSE k]
    OBVIOUS
  <1>2. IsFiniteSet(S)
    BY <1>1, CountIs
  <1>3. \A k \in 0 .. n - 1 : w[k] = IF k = j THEN u[i] ELSE IF k = i THEN u[j] ELSE u[k]
    BY DEF Exchanged
  <1>4. S = {k \in 0 .. n - 1 : u[k] = v} /\ T = {k \in 0 .. n - 1 : w[k] = v}
    BY <1>1 DEF Places
  <1>5. f \in [S -> T]
    <2>1. ASSUME NEW k \in S PROVE (IF k = i THEN j ELSE IF k = j THEN i ELSE k) \in T
      BY <1>3, <1>4
    <2> QED
      BY <1>1, <2>1
  <1>6. \A x, y \in S : f[x] = f[y] => x = y
    BY <1>1
  <1>7. ASSUME NEW z \in T PROVE \E x \in S : f[x] = z
    <2>1. PICK x : x = IF z = i THEN j ELSE IF z = j THEN i ELSE z
      OBVIOUS
    <2>2. x \in S
      BY <1>3, <1>4, <2>1
    <2>3. f[x] = z
      BY <1>1, <2>1, <2>2
    <2> QED
      BY <2>2, <2>3
  <1>8. Cardinality(T) = Cardinality(S)
    BY ONLY <1>2, <1>5, <1>6, <1>7, OneToOne
  <1> QED
    BY <1>1, <1>8 DEF Count

\* The order of the comparison functions is total.
LEMMA LessIs ==
    ASSUME NEW x \in Element, NEW y \in Element
    PROVE  /\ ~ Less(x, x)
           /\ Less(x, y) => ~ Less(y, x)
           /\ x = y \/ Less(x, y) \/ Less(y, x)
           /\ Less(x, y) => x \in Values
           /\ \A z \in Element : Less(x, y) /\ Less(y, z) => Less(x, z)
  <1>1. \A z \in Element : z # Undefined => z \in Values /\ z \in Nat
    BY ValuesAssumption DEF Element
  <1> QED
    BY <1>1 DEF Less

LEMMA LeastElement ==
    ASSUME NEW T, T \subseteq Element, T # {}
    PROVE  \E x \in T : \A y \in T : ~ Less(y, x)
  <1>1. CASE T \cap Values = {}
    <2>1. PICK x \in T : TRUE
      OBVIOUS
    <2>2. \A y \in T : y = Undefined
      BY <1>1 DEF Element
    <2> QED
      BY <2>1, <2>2 DEF Less
  <1>2. CASE T \cap Values # {}
    <2>1. T \cap Values \subseteq Nat
      BY ValuesAssumption
    <2>2. PICK x \in T \cap Values : \A y \in T \cap Values : x <= y
      BY ONLY <1>2, <2>1, LeastNumber
    <2>3. x \in Nat /\ x # Undefined
      BY <2>1, <2>2, SpecialAssumption
    <2>4. ASSUME NEW y \in T PROVE ~ Less(y, x)
      <3>1. CASE y = Undefined
        BY <3>1 DEF Less
      <3>2. CASE y # Undefined
        <4>1. y \in T \cap Values
          BY <3>2 DEF Element
        <4>2. y \in Nat /\ x <= y
          BY <2>1, <2>2, <4>1
        <4> QED
          BY <2>3, <4>2 DEF Less
      <3> QED
        BY <3>1, <3>2
    <2> QED
      BY <2>2, <2>4
  <1> QED
    BY <1>1, <1>2

------------------------------------------------------------------------------
(* Sorting by selection.                                                   *)

LEMMA MinFromIs ==
    ASSUME NEW a \in Layouts, NEW i \in Nat, i < a.length, NEW j, j = MinFrom(a, i)
    PROVE  /\ j \in i .. a.length - 1
           /\ \A k \in i .. a.length - 1 : ~ Less(get(a, k), get(a, j))
  <1>1. PICK I, T : I = i .. a.length - 1 /\ T = {get(a, k) : k \in I}
    OBVIOUS
  <1>2. a.length \in Nat /\ I \subseteq Nat /\ i \in I /\ \A k \in I : get(a, k) \in Element
    <2>1. a.length \in Nat
      BY LayoutIs
    <2>2. I \subseteq Nat /\ i \in I
      BY <1>1, <2>1
    <2>3. \A k \in I : get(a, k) \in Element
      BY <2>2, GetIs
    <2> QED
      BY <2>1, <2>2, <2>3
  <1>3. T \subseteq Element /\ T # {}
    BY <1>1, <1>2
  <1>4. PICK x \in T : \A y \in T : ~ Less(y, x)
    BY <1>3, LeastElement
  <1>5. PICK K : K = {k \in I : get(a, k) = x}
    OBVIOUS
  <1>6. K \subseteq Nat /\ K # {}
    BY <1>1, <1>2, <1>4, <1>5
  <1>7. PICK m \in K : \A k \in K : m <= k
    BY ONLY <1>6, LeastNumber
  <1>8. m \in I /\ get(a, m) = x /\ m \in Nat
    BY <1>5, <1>6
  <1>9. ASSUME NEW k \in I
        PROVE  /\ ~ Less(get(a, k), get(a, m))
               /\ k < m => Less(get(a, m), get(a, k))
    <2>1. get(a, k) \in T /\ get(a, k) \in Element /\ x \in Element /\ k \in Nat
      BY <1>1, <1>2, <1>3
    <2>2. ~ Less(get(a, k), x)
      BY <1>4, <2>1
    <2>3. k < m => get(a, k) # x
      <3>1. k \in K => m <= k
        BY <1>7
      <3> QED
        BY <1>5, <1>8, <2>1, <3>1
    <2>4. x = get(a, k) \/ Less(x, get(a, k)) \/ Less(get(a, k), x)
      BY <2>1, LessIs
    <2> QED
      BY <1>8, <2>2, <2>3, <2>4
  <1> DEFINE Q(c) == \A k \in I : /\ ~ Less(get(a, k), get(a, c))
                                  /\ k < c => Less(get(a, c), get(a, k))
  <1>10. j = CHOOSE c \in I : Q(c)
    BY <1>1, Zenon DEF MinFrom
  <1>11. j \in I /\ Q(j)
    <2>1. Q(m)
      BY <1>9
    <2> HIDE DEF Q
    <2> QED
      BY <1>8, <1>10, <2>1
  <1> QED
    BY <1>1, <1>11

LEMMA SelectIs ==
    ASSUME NEW a \in Layouts, NEW i \in Nat, i < a.length
    PROVE  /\ Swapped(a, Select(a, i), i, MinFrom(a, i)) /\ Select(a, i).length = a.length
           /\ MinFrom(a, i) \in i .. a.length - 1
           /\ \A k \in i .. a.length - 1 : ~ Less(View(a)[k], View(a)[MinFrom(a, i)])
  <1>1. PICK j, b : j = MinFrom(a, i) /\ b = Select(a, i)
    OBVIOUS
  <1>2. /\ j \in i .. a.length - 1
        /\ \A k \in i .. a.length - 1 : ~ Less(get(a, k), get(a, j))
    BY <1>1, MinFromIs
  <1>3. /\ a.length \in Nat /\ j \in Nat /\ j < a.length
        /\ View(a) \in [Nat -> Element] /\ \A k \in Nat : View(a)[k] = get(a, k)
    <2>1. a.length \in Nat
      BY LayoutIs
    <2> QED
      BY <1>2, <2>1, ViewType
  <1>4. \A k \in i .. a.length - 1 : ~ Less(View(a)[k], View(a)[j])
    BY <1>2, <1>3
  <1>5. PICK u : u = View(a)
    OBVIOUS
  <1>6. Swapped(a, b, i, j) /\ b.length = a.length
    <2>1. CASE j = i
      <3>1. b = a
        BY <1>1, <2>1 DEF Select
      <3>2. u = [u EXCEPT ![i] = u[j], ![j] = u[i]]
        BY <1>3, <1>5, <2>1
      <3> QED
        BY <1>5, <3>1, <3>2 DEF Swapped
    <2>2. CASE j # i
      <3>1. PICK c : c = put(a, i, u[j])
        OBVIOUS
      <3>2. b = put(c, j, u[i]) /\ u[i] \in Element /\ u[j] \in Element /\ u \in [Nat -> Element]
        <4>1. u[i] = get(a, i) /\ u[j] = get(a, j) /\ u \in [Nat -> Element]
          BY <1>3, <1>5
        <4> QED
          BY <1>1, <1>3, <2>2, <3>1, <4>1 DEF Select
      <3>3. SetTo(a, c, i, u[j]) /\ c.length = a.length
        BY <3>1, <3>2, PutIs
      <3>4. c \in Layouts
        BY <3>3 DEF SetTo
      <3>5. SetTo(c, b, j, u[i]) /\ b.length = a.length
        BY <1>3, <3>2, <3>3, <3>4, PutIs
      <3>6. View(b) = [u EXCEPT ![i] = u[j], ![j] = u[i]]
        <4>1. PICK w : w = View(c)
          OBVIOUS
        <4>2. w = [u EXCEPT ![i] = u[j]] /\ View(b) = [w EXCEPT ![j] = u[i]]
          BY <1>5, <3>3, <3>5, <4>1 DEF SetTo
        <4> QED
          BY <3>2, <4>2
      <3>7. b \in Layouts /\ DOMAIN b.sparse \subseteq DOMAIN a.sparse \cup {i, j}
        BY <3>3, <3>5 DEF SetTo
      <3> QED
        BY <1>5, <3>5, <3>6, <3>7 DEF Swapped
    <2> QED
      BY <2>1, <2>2
  <1> QED
    BY <1>1, <1>2, <1>4, <1>6

LEMMA SelectionsRun ==
    ASSUME NEW a \in Layouts, a.length # 0
    PROVE  \E f :
            /\ f[0] = a
            /\ \A n \in 1 .. a.length - 1 : f[n] = Select(f[n - 1], n - 1)
            /\ minSort(a) = f[a.length - 1]
  <1> DEFINE N == a.length - 1
             A == {b \in Layouts : b.length = a.length}
             next(b, n) == Select(b, n - 1)
             step == [n \in 1 .. N |-> [b \in A |-> next(b, n)]]
             loop[i \in 0 .. N] == IF i = 0 THEN a ELSE Select(loop[i - 1], i - 1)
  <1>0. N \in Nat
    <2>1. a.length \in Nat
      BY LayoutIs
    <2> QED
      BY <2>1
  <1>1. step \in [1 .. N -> [A -> A]]
    <2>1. ASSUME NEW n \in 1 .. N, NEW b \in A PROVE next(b, n) \in A
      <3>1. n - 1 \in Nat /\ n - 1 < b.length /\ b \in Layouts
        <4>1. a.length \in Nat
          BY LayoutIs
        <4> QED
          BY <1>0, <2>1, <4>1
      <3> QED
        BY <2>1, <3>1, SelectIs DEF Swapped
    <2> HIDE DEF A, next
    <2> QED
      BY <2>1
  <1>2. PICK f : Run(N, A, a, step, f)
    <2> HIDE DEF step
    <2>1. N \in Nat /\ a \in A
      BY <1>0
    <2> HIDE DEF A, N
    <2> QED
      BY <1>1, <2>1, Recursion
  <1>3. /\ f[0] = a /\ \A n \in 1 .. N : f[n] = next(f[n - 1], n)
        /\ f \in [0 .. N -> A]
    <2>1. ASSUME NEW n \in 1 .. N PROVE f[n] = next(f[n - 1], n)
      <3>1. n - 1 \in 0 .. N
        BY <1>0
      <3>2. f[n - 1] \in A /\ f[n] = step[n][f[n - 1]]
        <4> HIDE DEF A, step
        <4> QED
          BY <1>2, <3>1 DEF Run
      <3> HIDE DEF A, next
      <3> QED
        BY <3>2
    <2>2. f[0] = a /\ f \in [0 .. N -> A]
      <3> HIDE DEF A, step, N
      <3> QED
        BY <1>2 DEF Run
    <2> QED
      BY <2>1, <2>2
  <1>4. f = [i \in 0 .. N |-> IF i = 0 THEN a ELSE Select(f[i - 1], i - 1)]
    <2>1. \A n \in 0 .. N : n = 0 \/ n \in 1 .. N
      BY <1>0
    <2> HIDE DEF A, N
    <2> QED
      BY <1>3, <2>1
  <1>5. loop = [i \in 0 .. N |-> IF i = 0 THEN a ELSE Select(loop[i - 1], i - 1)]
    <2> HIDE DEF N
    <2> QED
      BY <1>4, Zenon
  <1>6. minSort(a) = loop[N]
    BY DEF minSort
  <1> HIDE DEF loop
  <1>7. ASSUME NEW n \in 1 .. N PROVE loop[n] = next(loop[n - 1], n)
    <2>1. n \in 0 .. N /\ n # 0
      BY <1>0
    <2> HIDE DEF N
    <2> QED
      BY <1>5, <2>1
  <1>8. loop[0] = a
    <2>1. 0 \in 0 .. N
      BY <1>0
    <2> HIDE DEF N
    <2> QED
      BY <1>5, <2>1
  <1> QED
    BY <1>6, <1>7, <1>8

\* b has the elements of a in order.
InOrder(a, b) ==
    /\ b \in Layouts /\ b.length = a.length
    /\ \A v \in Values : Count(View(b), 0, a.length, v) = Count(View(a), 0, a.length, v)
    /\ \A i, j \in 0 .. a.length - 1 : i < j => ~ Less(View(b)[j], View(b)[i])

LEMMA ElementsCount ==
    ASSUME NEW a \in Layouts, NEW s, s = Elements(a), NEW v
    PROVE  Cardinality({i \in DOMAIN s : s[i] = v}) = Count(View(a), 0, a.length, v)
  <1>1. /\ s \in Seq(Element) /\ Len(s) = a.length /\ a.length \in Nat
        /\ \A j \in 0 .. a.length - 1 : s[j + 1] = View(a)[j]
    BY ElementsType
  <1>2. PICK S, T, f : /\ S = Places(View(a), 0, a.length, v) /\ T = {i \in DOMAIN s : s[i] = v}
                       /\ f = [k \in S |-> k + 1]
    OBVIOUS
  <1>3. IsFiniteSet(S)
    <2>1. 0 \in Int /\ a.length \in Int
      BY <1>1
    <2>2. \A u : IsFiniteSet(Places(u, 0, a.length, v))
      BY ONLY <2>1, CountIs
    <2> QED
      BY <1>2, <2>2
  <1>4. /\ S = {k \in 0 .. a.length - 1 : View(a)[k] = v} /\ DOMAIN s = 1 .. a.length
    <2>1. S = {k \in 0 .. a.length - 1 : View(a)[k] = v}
      BY <1>2 DEF Places
    <2>2. DOMAIN s = 1 .. a.length
      BY <1>1
    <2> QED
      BY <2>1, <2>2
  <1>5. f \in [S -> T]
    <2>1. ASSUME NEW k \in S PROVE k + 1 \in T
      <3>1. k \in 0 .. a.length - 1 /\ View(a)[k] = v
        BY <1>4
      <3>2. k + 1 \in 1 .. a.length /\ s[k + 1] = v
        BY <1>1, <3>1
      <3> QED
        BY <1>2, <1>4, <3>2
    <2> QED
      BY <1>2, <2>1
  <1>6. \A x, y \in S : f[x] = f[y] => x = y
    <2>1. S \subseteq Int
      BY <1>4
    <2> QED
      BY <1>2, <2>1
  <1>7. ASSUME NEW z \in T PROVE \E x \in S : f[x] = z
    <2>1. z \in 1 .. a.length /\ s[z] = v
      BY <1>2, <1>4
    <2>2. z - 1 \in 0 .. a.length - 1 /\ (z - 1) + 1 = z
      BY <1>1, <2>1
    <2>3. z - 1 \in S
      BY <1>1, <1>4, <2>1, <2>2
    <2> QED
      BY <1>2, <2>2, <2>3
  <1>8. Cardinality(T) = Cardinality(S)
    BY ONLY <1>3, <1>5, <1>6, <1>7, OneToOne
  <1> QED
    BY <1>2, <1>8 DEF Count

\* EcmaArray.tla counts as this module does.
LEMMA SameCardinality == \A S : Ecma!Cardinality(S) = Cardinality(S)
  BY Zenon DEF Cardinality, Ecma!Cardinality

LEMMA InOrderElements ==
    ASSUME NEW a \in Layouts, NEW b, InOrder(a, b)
    PROVE  Ecma!Orders(Elements(a), Elements(b))
  <1>1. PICK s, t, u : s = Elements(a) /\ t = Elements(b) /\ u = View(b)
    OBVIOUS
  <1>2. s \in Seq(Element) /\ Len(s) = a.length /\ a.length \in Nat
    BY <1>1, ElementsType
  <1>3. b \in Layouts /\ b.length = a.length
    BY DEF InOrder
  <1>4. /\ t \in Seq(Element) /\ Len(t) = a.length
        /\ \A j \in 0 .. a.length - 1 : t[j + 1] = u[j]
    BY <1>1, <1>3, ElementsType
  <1>5. t \in [1 .. Len(s) -> Element] /\ DOMAIN t = 1 .. a.length
    BY <1>2, <1>4
  <1>6. ASSUME NEW v \in Values
        PROVE  Ecma!Cardinality({i \in DOMAIN s : s[i] = v})
                 = Ecma!Cardinality({i \in DOMAIN t : t[i] = v})
    <2>1. Cardinality({i \in DOMAIN s : s[i] = v}) = Count(View(a), 0, a.length, v)
      BY <1>1, ElementsCount
    <2>2. Cardinality({i \in DOMAIN t : t[i] = v}) = Count(View(b), 0, b.length, v)
      BY <1>1, <1>3, ElementsCount
    <2>3. Count(View(b), 0, b.length, v) = Count(View(a), 0, a.length, v)
      BY <1>3 DEF InOrder
    <2> QED
      BY <2>1, <2>2, <2>3, SameCardinality
  <1>7. ASSUME NEW i \in DOMAIN t, NEW j \in DOMAIN t, i < j PROVE ~ Ecma!Less(t[j], t[i])
    <2>1. /\ i - 1 \in 0 .. a.length - 1 /\ j - 1 \in 0 .. a.length - 1 /\ i - 1 < j - 1
          /\ (i - 1) + 1 = i /\ (j - 1) + 1 = j
      BY <1>2, <1>5, <1>7
    <2>2. ~ Less(u[j - 1], u[i - 1])
      BY <1>1, <2>1 DEF InOrder
    <2>3. ~ Less(t[j], t[i])
      BY <1>4, <2>1, <2>2
    <2> QED
      BY <2>3 DEF Less, Ecma!Less
  <1> DEFINE Number(q, v) == Ecma!Cardinality({i \in DOMAIN q : q[i] = v})
  <1>8. \A v \in Values : Number(s, v) = Number(t, v)
    BY <1>6
  <1>9. t \in [1 .. Len(s) -> Ecma!Element]
    BY <1>5 DEF Element, Ecma!Element
  <1>10. Ecma!Orders(s, t) <=> /\ t \in [1 .. Len(s) -> Ecma!Element]
                               /\ \A v \in Values : Number(s, v) = Number(t, v)
                               /\ \A i, j \in DOMAIN t : i < j => ~ Ecma!Less(t[j], t[i])
    BY Zenon DEF Ecma!Orders
  <1> HIDE DEF Number
  <1> QED
    BY <1>1, <1>7, <1>8, <1>9, <1>10

\* b is a with its first n elements chosen, each the least of those that were left.
Chosen(a, b, n) ==
    /\ b \in Layouts /\ b.length = a.length
    /\ \A v \in Values : Count(View(b), 0, a.length, v) = Count(View(a), 0, a.length, v)
    /\ \A i \in 0 .. n - 1 : \A k \in i + 1 .. a.length - 1 : ~ Less(View(b)[k], View(b)[i])

LEMMA MinSortIs ==
    ASSUME NEW a \in Layouts
    PROVE  Ecma!Orders(Elements(a), Elements(minSort(a)))
  <1>1. PICK N : N = a.length
    OBVIOUS
  <1>2. N \in Nat
    BY <1>1, LayoutIs
  <1>3. CASE N = 0
    <2>1. PICK b : b = setLength(a, 0)
      OBVIOUS
    <2>2. b = minSort(a)
      BY <1>1, <1>3, <2>1 DEF minSort
    <2>3. 0 \in Nat /\ 0 \notin DOMAIN a.sparse
      <3>1. \A i \in DOMAIN a.sparse : i < a.length /\ i \in Nat
        BY LayoutIs
      <3> QED
        BY <1>1, <1>3, <3>1
    <2>4. b \in Layouts /\ b.length = 0
      BY <2>1, <2>3, SetLengthIs
    <2>5. \A v \in Values : Count(View(b), 0, a.length, v) = Count(View(a), 0, a.length, v)
      <3>1. 0 \in Int /\ a.length \in Int /\ a.length <= 0
        BY <1>1, <1>3
      <3>2. \A u, v : Count(u, 0, a.length, v) = 0
        BY ONLY <3>1, CountIs
      <3> QED
        BY <3>2
    <2>6. InOrder(a, b)
      BY <1>1, <1>3, <2>4, <2>5 DEF InOrder
    <2> QED
      BY <2>2, <2>6, InOrderElements
  <1>4. CASE N # 0
    <2>1. PICK f : /\ f[0] = a
                   /\ \A n \in 1 .. N - 1 : f[n] = Select(f[n - 1], n - 1)
                   /\ minSort(a) = f[N - 1]
      BY <1>1, <1>4, SelectionsRun
    <2>2. PICK S : S = {n \in Nat : n <= N - 1 => Chosen(a, f[n], n)}
      OBVIOUS
    <2>3. 0 \in S
      <3>1. Chosen(a, a, 0)
        BY DEF Chosen
      <3> QED
        BY <2>1, <2>2, <3>1
    <2>4. ASSUME NEW n \in Nat, n \in S PROVE n + 1 \in S
      <3>1. CASE ~(n + 1 <= N - 1)
        BY <2>2, <3>1
      <3>2. CASE n + 1 <= N - 1
        <4>1. n + 1 \in 1 .. N - 1 /\ (n + 1) - 1 = n /\ n <= N - 1 /\ n < N
          BY <1>2, <3>2
        <4>2. PICK b, c, j : b = f[n] /\ c = f[n + 1] /\ j = MinFrom(b, n)
          OBVIOUS
        <4>3. Chosen(a, b, n) /\ c = Select(b, n)
          BY <2>1, <2>2, <2>4, <4>1, <4>2
        <4>4. b \in Layouts /\ b.length = N
          BY <1>1, <4>3 DEF Chosen
        <4>5. /\ Swapped(b, c, n, j) /\ c.length = N /\ j \in n .. N - 1
              /\ \A k \in n .. N - 1 : ~ Less(View(b)[k], View(b)[j])
          BY <4>1, <4>2, <4>3, <4>4, SelectIs
        <4>6. PICK u, w : u = View(b) /\ w = View(c)
          OBVIOUS
        <4>7. /\ u \in [Nat -> Element] /\ w = [u EXCEPT ![n] = u[j], ![j] = u[n]] /\ c \in Layouts
          BY <4>4, <4>5, <4>6, ViewType DEF Swapped
        <4>8. n \in 0 .. N - 1 /\ j \in 0 .. N - 1 /\ j \in Nat /\ n <= j
          BY <1>2, <4>1, <4>5
        <4>9. \A v : Count(w, 0, N, v) = Count(u, 0, N, v)
          <5>1. u \in [Nat -> Element] /\ Exchanged(u, w, n, j)
            BY <4>7 DEF Exchanged
          <5>2. n \in 0 .. N - 1 /\ j \in 0 .. N - 1
            BY <4>8
          <5> QED
            BY ONLY <1>2, <5>1, <5>2, SwapCounts
        <4>10. \A v \in Values : Count(w, 0, N, v) = Count(View(a), 0, N, v)
          BY <1>1, <4>3, <4>6, <4>9 DEF Chosen
        <4>11. \A k \in Nat : w[k] = IF k = j THEN u[n] ELSE IF k = n THEN u[j] ELSE u[k]
          BY <4>7, <4>8
        <4>12. ASSUME NEW i \in 0 .. n, NEW k \in i + 1 .. N - 1 PROVE ~ Less(w[k], w[i])
          <5>1. i \in Nat /\ k \in Nat /\ k \in 0 .. N - 1 /\ i < k
            BY <1>2
          <5>2. CASE i = n
            <6>1. w[i] = u[j]
              BY <4>11, <5>1, <5>2
            <6>2. \E m \in n .. N - 1 : w[k] = u[m]
              <7>1. k \in n .. N - 1 /\ n \in n .. N - 1 /\ k # n
                BY <4>1, <5>1, <5>2
              <7> QED
                BY <4>11, <5>1, <7>1
            <6> QED
              BY <4>5, <4>6, <6>1, <6>2
          <5>3. CASE i # n
            <6>1. i \in 0 .. n - 1 /\ i # j /\ w[i] = u[i]
              <7>1. i \in 0 .. n - 1 /\ i # j
                BY <4>8, <5>3
              <7> QED
                BY <4>11, <5>1, <5>3, <7>1
            <6>2. \E m \in i + 1 .. N - 1 : w[k] = u[m]
              <7>1. n \in i + 1 .. N - 1 /\ j \in i + 1 .. N - 1
                BY <4>8, <6>1
              <7> QED
                BY <4>11, <5>1, <7>1
            <6>3. \A m \in i + 1 .. N - 1 : ~ Less(u[m], u[i])
              BY <1>1, <4>3, <4>6, <6>1 DEF Chosen
            <6> QED
              BY <6>1, <6>2, <6>3
          <5> QED
            BY <5>2, <5>3
        <4>13. Chosen(a, c, n + 1)
          <5>1. (n + 1) - 1 = n
            OBVIOUS
          <5> QED
            BY <1>1, <4>5, <4>6, <4>7, <4>10, <4>12, <5>1 DEF Chosen
        <4> QED
          BY <2>2, <4>2, <4>13
      <3> QED
        BY <3>1, <3>2
    <2>5. Nat \subseteq S
      BY <2>3, <2>4, SetInduction
    <2>6. Chosen(a, minSort(a), N - 1)
      <3>1. N - 1 \in Nat
        BY <1>2, <1>4
      <3>2. N - 1 \in S
        BY <2>5, <3>1
      <3> QED
        BY <2>1, <2>2, <3>1, <3>2
    <2>7. InOrder(a, minSort(a))
      <3>1. ASSUME NEW i \in 0 .. N - 1, NEW j \in 0 .. N - 1, i < j
            PROVE  i \in 0 .. (N - 1) - 1 /\ j \in i + 1 .. N - 1
        BY <1>2, <3>1
      <3>2. \A i \in 0 .. (N - 1) - 1 : \A k \in i + 1 .. N - 1 :
                ~ Less(View(minSort(a))[k], View(minSort(a))[i])
        BY <1>1, <2>6 DEF Chosen
      <3>3. \A i, j \in 0 .. N - 1 : i < j => ~ Less(View(minSort(a))[j], View(minSort(a))[i])
        BY <3>1, <3>2
      <3> QED
        BY <1>1, <2>6, <3>3 DEF Chosen, InOrder
    <2> QED
      BY <2>7, InOrderElements
  <1> QED
    BY <1>3, <1>4

------------------------------------------------------------------------------
(* What qsort leaves.                                                      *)

\* The numbers of the elements of s that are less than v, or not above it.
LessThan(s, v) == {j \in DOMAIN s : Less(s[j], v)}
UpTo(s, v) == {j \in DOMAIN s : ~ Less(v, s[j])}
Lower(s, v) == Cardinality(LessThan(s, v))
Upper(s, v) == Cardinality(UpTo(s, v))

LEMMA RanksAre ==
    ASSUME NEW n \in Nat, NEW s \in [0 .. n - 1 -> Element], NEW x \in Element
    PROVE  /\ Lower(s, x) \in Nat /\ Upper(s, x) \in Nat /\ Upper(s, x) <= n
           /\ Upper(s, x) = Lower(s, x) + Count(s, 0, n, x)
           /\ \A y \in Element : Less(y, x) => Upper(s, y) <= Lower(s, x)
           /\ (\A j \in 0 .. n - 1 : ~ Less(x, s[j])) => Upper(s, x) = n
  <1>1. IsFiniteSet(0 .. n - 1) /\ Cardinality(0 .. n - 1) = n
    <2>1. 0 \in Int /\ n - 1 \in Int /\ (IF 0 > n - 1 THEN 0 ELSE n - 1 - 0 + 1) = n
      OBVIOUS
    <2>2. IsFiniteSet(0 .. n - 1)
          /\ Cardinality(0 .. n - 1) = IF 0 > n - 1 THEN 0 ELSE n - 1 - 0 + 1
      BY ONLY <2>1, FS_Interval
    <2> QED
      BY <2>1, <2>2
  <1>2. PICK S, T : S = LessThan(s, x) /\ T = UpTo(s, x)
    OBVIOUS
  <1>3. S \subseteq 0 .. n - 1 /\ T \subseteq 0 .. n - 1
    BY <1>2 DEF LessThan, UpTo
  <1>4. IsFiniteSet(S) /\ IsFiniteSet(T) /\ Cardinality(T) <= Cardinality(0 .. n - 1)
    BY ONLY <1>1, <1>3, FS_Subset
  <1>5. Cardinality(S) \in Nat /\ Cardinality(T) \in Nat
    BY <1>4, FS_CardinalityType
  <1>6. PICK P : P = Places(s, 0, n, x)
    OBVIOUS
  <1>7. T = S \cup P /\ S \cap P = {}
    <2>1. \A j \in 0 .. n - 1 : /\ ~ Less(x, s[j]) <=> Less(s[j], x) \/ s[j] = x
                                /\ s[j] = x => ~ Less(s[j], x)
      BY LessIs
    <2>2. /\ S = {j \in 0 .. n - 1 : Less(s[j], x)} /\ T = {j \in 0 .. n - 1 : ~ Less(x, s[j])}
          /\ P = {j \in 0 .. n - 1 : s[j] = x}
      BY <1>2, <1>6 DEF LessThan, UpTo, Places
    <2> QED
      BY <2>1, <2>2
  <1>8. IsFiniteSet(P) /\ Cardinality(P) \in Nat
    BY <1>6, CountIs, FS_CardinalityType
  <1>9. Cardinality(S \cup P) = Cardinality(S) + Cardinality(P) - Cardinality(S \cap P)
    BY ONLY <1>4, <1>8, FS_Union
  <1>10. Cardinality(T) = Cardinality(S) + Cardinality(P)
    <2>1. Cardinality(S \cap P) = 0
      BY ONLY <1>7, FS_EmptySet
    <2>2. Cardinality(T) = Cardinality(S) + Cardinality(P) - 0
      BY <1>7, <1>9, <2>1
    <2> QED
      BY ONLY <1>5, <1>8, <2>2
  <1>11. ASSUME NEW y \in Element, Less(y, x) PROVE Upper(s, y) <= Lower(s, x)
    <2>1. PICK U : U = UpTo(s, y)
      OBVIOUS
    <2>2. \A j \in 0 .. n - 1 : ~ Less(y, s[j]) => Less(s[j], x)
      <3>1. ASSUME NEW j \in 0 .. n - 1, ~ Less(y, s[j]) PROVE Less(s[j], x)
        <4>1. s[j] \in Element
          OBVIOUS
        <4>2. y = s[j] \/ Less(s[j], y)
          BY <3>1, <4>1, LessIs
        <4> QED
          BY <1>11, <4>1, <4>2, LessIs
      <3> QED
        BY <3>1
    <2>3. U \subseteq S
      BY <1>2, <2>1, <2>2 DEF LessThan, UpTo
    <2>4. Cardinality(U) <= Cardinality(S)
      BY ONLY <1>4, <2>3, FS_Subset
    <2> QED
      BY <1>2, <2>1, <2>4 DEF Lower, Upper
  <1>12. ASSUME \A j \in 0 .. n - 1 : ~ Less(x, s[j]) PROVE T = 0 .. n - 1
    BY <1>2, <1>12 DEF UpTo
  <1> QED
    BY <1>1, <1>2, <1>4, <1>5, <1>6, <1>10, <1>11, <1>12 DEF Lower, Upper, Count

\* Some element of s has number i in the order.
LEMMA RankExists ==
    ASSUME NEW n \in Nat, NEW s \in [0 .. n - 1 -> Element], NEW i \in 0 .. n - 1
    PROVE  \E x \in {s[j] : j \in 0 .. n - 1} : Lower(s, x) <= i /\ i < Upper(s, x)
  <1>1. PICK T : T = {s[j] : j \in 0 .. n - 1}
    OBVIOUS
  <1>2. T \subseteq Element /\ \A j \in 0 .. n - 1 : s[j] \in T
    BY <1>1
  <1>3. \A x \in T : Upper(s, x) \in Nat /\ Lower(s, x) \in Nat /\ Upper(s, x) <= n
    BY <1>2, RanksAre
  \* The greatest element of a part of s.
  <1>4. ASSUME NEW R, R \subseteq T, R # {}
        PROVE  \E x \in R : \A y \in R : ~ Less(x, y)
    <2>1. PICK D : D = {n - Upper(s, x) : x \in R}
      OBVIOUS
    <2>2. D \subseteq Nat /\ D # {}
      BY <1>3, <1>4, <2>1
    <2>3. PICK d \in D : \A e \in D : d <= e
      BY ONLY <2>2, LeastNumber
    <2>4. PICK x \in R : d = n - Upper(s, x)
      BY <2>1, <2>3
    <2>5. ASSUME NEW y \in R, Less(x, y) PROVE FALSE
      <3>1. n - Upper(s, y) \in D /\ x \in Element /\ y \in Element /\ x \in T /\ y \in T
        BY <1>2, <1>4, <2>1
      <3>2. Upper(s, x) <= Lower(s, y)
        BY <2>5, <3>1, RanksAre
      <3>3. Upper(s, y) = Lower(s, y) + Count(s, 0, n, y)
        BY <3>1, RanksAre
      <3>4. Count(s, 0, n, y) >= 1
        <4>1. PICK j \in 0 .. n - 1 : y = s[j]
          BY <1>1, <3>1
        <4>2. PICK P : P = Places(s, 0, n, y)
          OBVIOUS
        <4>3. IsFiniteSet(P) /\ Cardinality(P) \in Nat
          BY <4>2, CountIs, FS_CardinalityType
        <4>4. j \in P
          BY <4>1, <4>2 DEF Places
        <4>5. Cardinality(P) # 0
          BY <4>3, <4>4, FS_EmptySet
        <4> QED
          BY <4>2, <4>3, <4>5 DEF Count
      <3>5. Count(s, 0, n, y) \in Nat
        BY CountIs
      <3>6. n - Upper(s, x) <= n - Upper(s, y)
        BY <2>3, <2>4, <3>1
      <3>7. /\ Upper(s, x) \in Nat /\ Upper(s, y) \in Nat /\ Lower(s, y) \in Nat
        BY <1>3, <3>1
      <3> QED
        BY <3>2, <3>3, <3>4, <3>5, <3>6, <3>7
    <2> QED
      BY <2>5
  <1>5. PICK T2 : T2 = {x \in T : i < Upper(s, x)}
    OBVIOUS
  <1>6. T2 \subseteq Element /\ T2 # {}
    <2>1. T # {}
      BY <1>1
    <2>2. PICK x \in T : \A y \in T : ~ Less(x, y)
      BY <1>4, <2>1
    <2>3. Upper(s, x) = n
      BY <1>2, <2>2, RanksAre
    <2>4. i < n
      OBVIOUS
    <2> QED
      BY <1>2, <1>5, <2>2, <2>3, <2>4
  <1>7. PICK x \in T2 : \A y \in T2 : ~ Less(y, x)
    BY <1>6, LeastElement
  <1>8. x \in T /\ x \in Element /\ i < Upper(s, x)
    BY <1>5, <1>6, <1>7
  <1>9. ASSUME ~(Lower(s, x) <= i) PROVE FALSE
    <2>1. PICK R : R = {y \in T : Less(y, x)}
      OBVIOUS
    <2>2. R # {}
      <3>1. ASSUME R = {} PROVE FALSE
        <4>1. \A j \in 0 .. n - 1 : ~ Less(s[j], x)
          BY <1>2, <2>1, <3>1
        <4>2. LessThan(s, x) = {}
          BY <4>1 DEF LessThan
        <4>3. Lower(s, x) = 0
          BY <4>2, FS_EmptySet DEF Lower
        <4> QED
          BY <1>9, <4>3
      <3> QED
        BY <3>1
    <2>3. PICK y \in R : \A z \in R : ~ Less(y, z)
      BY <1>4, <2>1, <2>2
    <2>4. y \in T /\ y \in Element /\ Less(y, x)
      BY <1>2, <2>1
    <2>5. LessThan(s, x) \subseteq UpTo(s, y)
      <3>1. \A j \in 0 .. n - 1 : Less(s[j], x) => ~ Less(y, s[j])
        BY <1>2, <2>1, <2>3
      <3> QED
        BY <3>1 DEF LessThan, UpTo
    <2>6. Lower(s, x) <= Upper(s, y)
      <3>1. UpTo(s, y) \subseteq 0 .. n - 1 /\ 0 \in Int /\ n - 1 \in Int
        BY DEF UpTo
      <3>2. IsFiniteSet(0 .. n - 1)
        BY <3>1, FS_Interval
      <3>3. IsFiniteSet(UpTo(s, y))
        BY ONLY <3>1, <3>2, FS_Subset
      <3>4. Cardinality(LessThan(s, x)) <= Cardinality(UpTo(s, y))
        BY ONLY <2>5, <3>3, FS_Subset
      <3> QED
        BY <3>4 DEF Lower, Upper
    <2>7. y \in T2
      <3>1. i < Upper(s, y)
        BY <1>3, <1>8, <1>9, <2>4, <2>6
      <3> QED
        BY <1>5, <2>4, <3>1
    <2> QED
      BY <1>7, <2>4, <2>7
  <1> QED
    BY <1>1, <1>8, <1>9

\* t holds the elements of s, each as often as s, in their order.
SortedAs(s, t, n) ==
    /\ t \in [0 .. n - 1 -> Element]
    /\ \A v \in Element : Count(t, 0, n, v) = Count(s, 0, n, v)
    /\ \A i, k \in 0 .. n - 1 : i < k => ~ Less(t[k], t[i])

LEMMA SortedIs ==
    ASSUME NEW n \in Nat, NEW s \in [0 .. n - 1 -> Element]
    PROVE  SortedAs(s, Sorted(s), n)
  <1> DEFINE Q(x, i) == Lower(s, x) <= i /\ i < Upper(s, x)
  <1>0. Sorted(s) = [i \in DOMAIN s |-> CHOOSE x \in {s[j] : j \in DOMAIN s} : Q(x, i)]
    BY Zenon DEF Sorted, Lower, Upper, LessThan, UpTo
  <1>1. PICK T, t : T = {s[j] : j \in DOMAIN s} /\ t = Sorted(s)
    OBVIOUS
  <1>2. t = [i \in 0 .. n - 1 |-> CHOOSE x \in T : Q(x, i)] /\ T = {s[j] : j \in 0 .. n - 1}
    <2>1. DOMAIN s = 0 .. n - 1
      OBVIOUS
    <2> HIDE DEF Q
    <2> QED
      BY <1>0, <1>1, <2>1
  <1>3. \A i \in 0 .. n - 1 : \E x \in T : Q(x, i)
    BY <1>2, RankExists
  <1>4. DOMAIN t = 0 .. n - 1 /\ \A i \in 0 .. n - 1 : t[i] \in T /\ Q(t[i], i)
    <2> HIDE DEF Q
    <2> QED
      BY <1>2, <1>3
  <1>5. \A i \in 0 .. n - 1 : /\ t[i] \in Element /\ Lower(s, t[i]) <= i
                              /\ i < Upper(s, t[i])
    <2>1. T \subseteq Element
      BY <1>2
    <2> QED
      BY <1>4, <2>1
  <1>6. t \in [0 .. n - 1 -> Element]
    <2>1. t = [i \in 0 .. n - 1 |-> t[i]]
      BY <1>2, <1>4
    <2> QED
      BY <1>5, <2>1
  <1>7. ASSUME NEW i \in 0 .. n - 1, NEW k \in 0 .. n - 1, i < k, Less(t[k], t[i]) PROVE FALSE
    <2>1. t[i] \in Element /\ t[k] \in Element
      BY <1>5
    <2>2. Upper(s, t[k]) <= Lower(s, t[i])
      BY <1>7, <2>1, RanksAre
    <2>3. Upper(s, t[k]) \in Nat /\ Lower(s, t[i]) \in Nat
      BY <2>1, RanksAre
    <2>4. k < Upper(s, t[k]) /\ Lower(s, t[i]) <= i
      BY <1>5
    <2> QED
      BY <1>7, <2>2, <2>3, <2>4
  <1>8. ASSUME NEW v \in Element PROVE Count(t, 0, n, v) = Count(s, 0, n, v)
    <2>1. PICK l, u : l = Lower(s, v) /\ u = Upper(s, v)
      OBVIOUS
    <2>2. /\ l \in Nat /\ u \in Nat /\ u <= n /\ u = l + Count(s, 0, n, v)
          /\ Count(s, 0, n, v) \in Nat
      <3>1. 0 \in Int /\ n \in Int
        OBVIOUS
      <3>2. Count(s, 0, n, v) \in Nat
        BY ONLY <3>1, CountIs
      <3> QED
        BY <2>1, <3>2, RanksAre
    <2>3. ASSUME NEW i \in 0 .. n - 1 PROVE t[i] = v <=> l <= i /\ i < u
      <3>1. CASE t[i] = v
        BY <1>5, <2>1, <3>1
      <3>2. CASE Less(t[i], v)
        <4>1. t[i] \in Element
          BY <1>5
        <4>2. Upper(s, t[i]) <= l /\ Upper(s, t[i]) \in Nat /\ t[i] # v
          BY <2>1, <3>2, <4>1, RanksAre, LessIs
        <4>3. i < Upper(s, t[i])
          BY <1>5
        <4> QED
          BY <2>2, <4>2, <4>3
      <3>3. CASE Less(v, t[i])
        <4>1. t[i] \in Element
          BY <1>5
        <4>2. u <= Lower(s, t[i]) /\ Lower(s, t[i]) \in Nat /\ t[i] # v
          BY <2>1, <3>3, <4>1, RanksAre, LessIs
        <4>3. Lower(s, t[i]) <= i
          BY <1>5
        <4> QED
          BY <2>2, <4>2, <4>3
      <3>4. t[i] = v \/ Less(t[i], v) \/ Less(v, t[i])
        <4>1. t[i] \in Element
          BY <1>5
        <4> QED
          BY <4>1, LessIs
      <3> QED
        BY <3>1, <3>2, <3>3, <3>4
    <2>4. Places(t, 0, n, v) = l .. u - 1
      <3>1. \A i : i \in l .. u - 1 <=> i \in 0 .. n - 1 /\ l <= i /\ i < u
        BY <2>2
      <3> QED
        BY <2>3, <3>1 DEF Places
    <2>5. Cardinality(l .. u - 1) = u - l
      <3>1. l \in Int /\ u - 1 \in Int /\ (IF l > u - 1 THEN 0 ELSE u - 1 - l + 1) = u - l
        BY <2>2
      <3>2. Cardinality(l .. u - 1) = IF l > u - 1 THEN 0 ELSE u - 1 - l + 1
        BY ONLY <3>1, FS_Interval
      <3> QED
        BY <3>1, <3>2
    <2> QED
      BY <2>2, <2>4, <2>5 DEF Count
  <1> QED
    BY <1>1, <1>6, <1>7, <1>8 DEF SortedAs

------------------------------------------------------------------------------
(* Sorting an ArrayInstance: first its elements move to the front.         *)

LEMMA BelowIs ==
    ASSUME NEW S, S \subseteq Nat, NEW i \in Nat
    PROVE  /\ Below(S, i) \in Nat /\ Below(S, i) <= i /\ Below(S, 0) = 0
           /\ Below(S, i + 1) = Below(S, i) + (IF i \in S THEN 1 ELSE 0)
           /\ S \subseteq 0 .. i - 1 => IsFiniteSet(S) /\ Below(S, i) = Cardinality(S)
           /\ IsFiniteSet(S) => Below(S, i) <= Cardinality(S) /\ Cardinality(S) \in Nat
           /\ IsFiniteSet(S) /\ i \in S => Below(S, i) < Cardinality(S)
  <1>0. \A j \in S : j \in Nat
    OBVIOUS
  <1>1. PICK B, C : B = {j \in S : j < i} /\ C = {j \in S : j < i + 1}
    OBVIOUS
  <1>2. IsFiniteSet(0 .. i - 1) /\ Cardinality(0 .. i - 1) = i
    <2>1. 0 \in Int /\ i - 1 \in Int /\ (IF 0 > i - 1 THEN 0 ELSE i - 1 - 0 + 1) = i
      OBVIOUS
    <2>2. IsFiniteSet(0 .. i - 1)
          /\ Cardinality(0 .. i - 1) = IF 0 > i - 1 THEN 0 ELSE i - 1 - 0 + 1
      BY ONLY <2>1, FS_Interval
    <2> QED
      BY <2>1, <2>2
  <1>3. B \subseteq 0 .. i - 1
    <2>1. ASSUME NEW x \in B PROVE x \in 0 .. i - 1
      <3>1. x \in Nat /\ x < i
        BY <1>0, <1>1
      <3> QED
        BY <3>1
    <2> QED
      BY <2>1
  <1>4. IsFiniteSet(B) /\ Cardinality(B) <= Cardinality(0 .. i - 1)
    BY ONLY <1>2, <1>3, FS_Subset
  <1>5. Cardinality(B) \in Nat
    BY <1>4, FS_CardinalityType
  <1>6. Below(S, 0) = 0
    <2>1. \A j \in S : ~(j < 0)
      BY <1>0
    <2>2. {j \in S : j < 0} = {}
      BY <2>1
    <2> QED
      BY <2>2, FS_EmptySet DEF Below
  <1>7. Beside(i, B, C) /\ i \notin B /\ (i \in C <=> i \in S)
    <2>1. \A j \in S : j # i => (j < i <=> j < i + 1)
      BY <1>0
    <2>2. ~(i < i) /\ i < i + 1
      OBVIOUS
    <2> QED
      BY <1>1, <2>1, <2>2 DEF Beside
  <1>8. /\ (i \in B <=> i \in C) => Cardinality(C) = Cardinality(B)
        /\ i \notin B /\ i \in C => Cardinality(C) = Cardinality(B) + 1
    BY ONLY <1>4, <1>7, OneMoves
  <1>9. ASSUME S \subseteq 0 .. i - 1 PROVE IsFiniteSet(S) /\ B = S
    <2>1. \A j \in S : j < i
      BY <1>0, <1>9
    <2>2. B = S
      BY <1>1, <2>1
    <2> QED
      BY <1>4, <2>2
  <1>10. ASSUME IsFiniteSet(S) PROVE Cardinality(B) <= Cardinality(S) /\ Cardinality(S) \in Nat
    <2>1. B \subseteq S
      BY <1>1
    <2> QED
      BY ONLY <1>10, <2>1, FS_Subset, FS_CardinalityType
  <1>11. ASSUME IsFiniteSet(S), i \in S PROVE Cardinality(B) < Cardinality(S)
    <2>1. B \subseteq S /\ B # S
      BY <1>1, <1>11
    <2>2. Cardinality(B) <= Cardinality(S) /\ (Cardinality(B) = Cardinality(S) => B = S)
      BY ONLY <1>11, <2>1, FS_Subset
    <2> QED
      BY <1>5, <1>10, <1>11, <2>1, <2>2
  <1>12. Below(S, i) = Cardinality(B) /\ Below(S, i + 1) = Cardinality(C)
    BY <1>1 DEF Below
  <1>13. Cardinality(C) = Cardinality(B) + (IF i \in S THEN 1 ELSE 0)
    BY <1>5, <1>7, <1>8
  <1> QED
    BY <1>2, <1>4, <1>5, <1>6, <1>9, <1>10, <1>11, <1>12, <1>13

LEMMA CountNone ==
    ASSUME NEW u, NEW m \in Int, NEW n \in Int, NEW v, \A i \in m .. n - 1 : u[i] # v
    PROVE  Count(u, m, n, v) = 0
  <1>1. Places(u, m, n, v) = {}
    BY DEF Places
  <1> QED
    BY <1>1, FS_EmptySet DEF Count

LEMMA DefinedIs == \A x \in Cells : Defined(x) <=> x \in Values
  BY SpecialAssumption DEF Cells, Element, Defined

LEMMA InVectorIs ==
    ASSUME NEW a \in Layouts
    PROVE  /\ InVector(a) \subseteq 0 .. a.storageLength - 1 /\ InVector(a) \subseteq Nat
           /\ IsFiniteSet(InVector(a)) /\ Cardinality(InVector(a)) \in Nat
           /\ \A i \in 0 .. a.storageLength - 1 : /\ i \in DOMAIN a.storage
                                                  /\ a.storage[i] \in Cells
                                                  /\ i \in InVector(a) <=> a.storage[i] \in Values
           /\ IsFiniteSet(DOMAIN a.sparse) /\ Cardinality(DOMAIN a.sparse) \in Nat
           /\ Cardinality(InVector(a)) + Cardinality(DOMAIN a.sparse) <= a.length
           /\ Cardinality(InVector(a)) <= a.storageLength
  <1>1. /\ a.length \in Nat /\ a.storageLength \in Nat /\ a.storageLength <= a.length
        /\ DOMAIN a.sparse \subseteq Nat
        /\ \A i \in DOMAIN a.sparse : i >= a.storageLength /\ i < a.length
    BY LayoutIs
  <1>2. PICK c \in Nat : a.storage \in [0 .. c - 1 -> Cells] /\ a.storageLength <= c
    BY LayoutIs
  <1>3. PICK V, P : V = InVector(a) /\ P = DOMAIN a.sparse
    OBVIOUS
  <1>4. V = {i \in 0 .. a.storageLength - 1 : Defined(a.storage[i])}
    BY <1>3 DEF InVector
  <1>5. \A i \in 0 .. a.storageLength - 1 : i \in DOMAIN a.storage /\ a.storage[i] \in Cells
    BY <1>1, <1>2
  <1>6. \A i \in 0 .. a.storageLength - 1 : i \in V <=> a.storage[i] \in Values
    BY <1>4, <1>5, DefinedIs
  <1>7. /\ V \subseteq 0 .. a.storageLength - 1 /\ V \subseteq Nat /\ V \subseteq 0 .. a.length - 1
        /\ P \subseteq 0 .. a.length - 1 /\ V \cap P = {}
    BY <1>1, <1>3, <1>4
  <1>8. /\ IsFiniteSet(0 .. a.length - 1) /\ Cardinality(0 .. a.length - 1) = a.length
        /\ IsFiniteSet(0 .. a.storageLength - 1)
        /\ Cardinality(0 .. a.storageLength - 1) = a.storageLength
    <2>1. /\ 0 \in Int /\ a.length - 1 \in Int /\ a.storageLength - 1 \in Int
          /\ (IF 0 > a.length - 1 THEN 0 ELSE a.length - 1 - 0 + 1) = a.length
          /\ (IF 0 > a.storageLength - 1 THEN 0 ELSE a.storageLength - 1 - 0 + 1) = a.storageLength
      BY <1>1
    <2>2. IsFiniteSet(0 .. a.length - 1)
          /\ Cardinality(0 .. a.length - 1) = IF 0 > a.length - 1 THEN 0 ELSE a.length - 1 - 0 + 1
      BY ONLY <2>1, FS_Interval
    <2>3. IsFiniteSet(0 .. a.storageLength - 1)
          /\ Cardinality(0 .. a.storageLength - 1)
                = IF 0 > a.storageLength - 1 THEN 0 ELSE a.storageLength - 1 - 0 + 1
      BY ONLY <2>1, FS_Interval
    <2> QED
      BY <2>1, <2>2, <2>3
  <1>9. V \cup P \subseteq 0 .. a.length - 1
    BY <1>7
  <1>10. /\ IsFiniteSet(V) /\ IsFiniteSet(P)
         /\ Cardinality(V \cup P) <= Cardinality(0 .. a.length - 1)
         /\ Cardinality(V) <= Cardinality(0 .. a.storageLength - 1)
    BY ONLY <1>7, <1>8, <1>9, FS_Subset
  <1>11. Cardinality(V) \in Nat /\ Cardinality(P) \in Nat /\ Cardinality(V \cap P) = 0
    BY <1>7, <1>10, FS_CardinalityType, FS_EmptySet
  <1>12. Cardinality(V \cup P) = Cardinality(V) + Cardinality(P) - Cardinality(V \cap P)
    BY ONLY <1>10, FS_Union
  <1> QED
    BY <1>3, <1>5, <1>6, <1>7, <1>8, <1>10, <1>11, <1>12

LEMMA CompactionRun ==
    ASSUME NEW a \in Layouts
    PROVE  \E f :
            /\ f[0] = a.storage
            /\ \A n \in 1 .. a.storageLength : f[n] = IF n - 1 \in InVector(a)
                THEN [f[n - 1] EXCEPT ![Below(InVector(a), n - 1)] = a.storage[n - 1]]
                ELSE f[n - 1]
            /\ Compacted(a) = [a EXCEPT !.storage = f[a.storageLength]]
  <1> DEFINE N == a.storageLength
             A == [DOMAIN a.storage -> Cells]
             next(b, n) == IF n - 1 \in InVector(a)
                THEN [b EXCEPT ![Below(InVector(a), n - 1)] = a.storage[n - 1]]
                ELSE b
             step == [n \in 1 .. N |-> [b \in A |-> next(b, n)]]
             loop[i \in 0 .. N] == IF i = 0 THEN a.storage ELSE IF i - 1 \in InVector(a)
                THEN [loop[i - 1] EXCEPT ![Below(InVector(a), i - 1)] = a.storage[i - 1]]
                ELSE loop[i - 1]
  <1>0. N \in Nat
    BY LayoutIs
  <1>1. step \in [1 .. N -> [A -> A]]
    <2>1. ASSUME NEW n \in 1 .. N, NEW b \in A PROVE next(b, n) \in A
      <3>1. n - 1 \in 0 .. a.storageLength - 1
        BY <1>0
      <3>2. a.storage[n - 1] \in Cells
        BY <3>1, InVectorIs
      <3> QED
        BY <2>1, <3>2
    <2> HIDE DEF A, next
    <2> QED
      BY <2>1
  <1>2. PICK f : Run(N, A, a.storage, step, f)
    <2> HIDE DEF step
    <2>1. N \in Nat /\ a.storage \in A
      <3>1. \E c \in Nat : a.storage \in [0 .. c - 1 -> Cells]
        BY LayoutIs
      <3> QED
        BY <1>0, <3>1
    <2> HIDE DEF A, N
    <2> QED
      BY <1>1, <2>1, Recursion
  <1>3. /\ f[0] = a.storage /\ \A n \in 1 .. N : f[n] = next(f[n - 1], n)
        /\ f \in [0 .. N -> A]
    <2>1. ASSUME NEW n \in 1 .. N PROVE f[n] = next(f[n - 1], n)
      <3>1. n - 1 \in 0 .. N
        BY <1>0
      <3>2. f[n - 1] \in A /\ f[n] = step[n][f[n - 1]]
        <4> HIDE DEF A, step
        <4> QED
          BY <1>2, <3>1 DEF Run
      <3> HIDE DEF A, next
      <3> QED
        BY <3>2
    <2>2. f[0] = a.storage /\ f \in [0 .. N -> A]
      <3> HIDE DEF A, step, N
      <3> QED
        BY <1>2 DEF Run
    <2> QED
      BY <2>1, <2>2
  <1>4. f = [i \in 0 .. N |-> IF i = 0 THEN a.storage ELSE IF i - 1 \in InVector(a)
                THEN [f[i - 1] EXCEPT ![Below(InVector(a), i - 1)] = a.storage[i - 1]]
                ELSE f[i - 1]]
    <2>1. \A n \in 0 .. N : n = 0 \/ n \in 1 .. N
      BY <1>0
    <2> HIDE DEF A, N
    <2> QED
      BY <1>3, <2>1
  <1>5. loop = [i \in 0 .. N |-> IF i = 0 THEN a.storage ELSE IF i - 1 \in InVector(a)
                THEN [loop[i - 1] EXCEPT ![Below(InVector(a), i - 1)] = a.storage[i - 1]]
                ELSE loop[i - 1]]
    <2> HIDE DEF N
    <2> QED
      BY <1>4, Zenon
  <1>6. Compacted(a) = [a EXCEPT !.storage = loop[N]]
    BY DEF Compacted
  <1> HIDE DEF loop
  <1>7. ASSUME NEW n \in 1 .. N PROVE loop[n] = next(loop[n - 1], n)
    <2>1. n \in 0 .. N /\ n # 0
      BY <1>0
    <2> HIDE DEF N
    <2> QED
      BY <1>5, <2>1
  <1>8. loop[0] = a.storage
    <2>1. 0 \in 0 .. N
      BY <1>0
    <2> HIDE DEF N
    <2> QED
      BY <1>5, <2>1
  <1> QED
    BY <1>6, <1>7, <1>8

\* The arrays that differ from r in the contents of their stores only.
Alike(r) ==
    {b \in Arrays : /\ b.length = r.length /\ b.storageLength = r.storageLength
                    /\ DOMAIN b.storage = DOMAIN r.storage}

\* One property i moves to cell k.
Moved(b, i, k) == [b EXCEPT !.storage[k] = get(b, i), !.sparse = Without(b.sparse, {i})]

MovesTo(r, b, i, k, c) ==
    /\ c \in Alike(r) /\ get(b, i) \in Element
    /\ c.storage = [b.storage EXCEPT ![k] = get(b, i)]
    /\ c.sparse = Without(b.sparse, {i})
    /\ i < b.length /\ i >= b.storageLength /\ i \in DOMAIN b.sparse => get(b, i) = b.sparse[i]

LEMMA MovedIs ==
    ASSUME NEW r \in Arrays, 0 .. r.storageLength - 1 \subseteq DOMAIN r.storage,
           NEW b \in Alike(r), NEW i \in Nat, NEW k
    PROVE  MovesTo(r, b, i, k, Moved(b, i, k))
  <1>1. /\ b \in Arrays /\ b.length = r.length /\ b.storageLength = r.storageLength
        /\ DOMAIN b.storage = DOMAIN r.storage
    BY DEF Alike
  <1>2. /\ b = [length |-> b.length, storage |-> b.storage,
                storageLength |-> b.storageLength, sparse |-> b.sparse]
        /\ b.length \in Nat /\ b.storageLength \in Nat
        /\ DOMAIN b.sparse \subseteq Nat /\ b.sparse \in [DOMAIN b.sparse -> Element]
    BY <1>1, ArrayIs
  <1>3. PICK c \in Nat : b.storage \in [0 .. c - 1 -> Cells]
    BY <1>1, ArrayIs
  <1>4. Null \notin Element /\ Undefined \in Element
    BY SpecialAssumption DEF Element
  <1>5. getProperty(b, i) \in Cells
    <2>1. i < b.storageLength => b.storage[i] \in Cells
      <3>1. i < b.storageLength => i \in 0 .. r.storageLength - 1
        BY <1>1, <1>2
      <3> QED
        BY <1>1, <1>3, <3>1
    <2>2. Null \in Cells /\ \A x \in Element : x \in Cells
      BY DEF Cells
    <2> QED
      BY <1>2, <2>1, <2>2 DEF getProperty
  <1>6. get(b, i) \in Element
    BY <1>4, <1>5 DEF get, Cells
  <1>7. PICK s, p : s = [b.storage EXCEPT ![k] = get(b, i)] /\ p = Without(b.sparse, {i})
    OBVIOUS
  <1>8. Moved(b, i, k) = [length |-> b.length, storage |-> s, storageLength |-> b.storageLength,
                          sparse |-> p]
    <2>1. Moved(b, i, k) = [b EXCEPT !.storage = s, !.sparse = p]
      BY <1>2, <1>7 DEF Moved
    <2> QED
      BY <1>2, <2>1
  <1>9. s \in [0 .. c - 1 -> Cells] /\ DOMAIN s = DOMAIN b.storage
    <2>1. get(b, i) \in Cells
      BY <1>6 DEF Cells
    <2> QED
      BY <1>3, <1>7, <2>1
  <1>10. p \in [DOMAIN b.sparse \ {i} -> Element] /\ DOMAIN b.sparse \ {i} \in SUBSET Nat
    BY <1>2, <1>7 DEF Without
  <1>11. Moved(b, i, k) \in Arrays
    <2>1. s \in UNION {[0 .. d - 1 -> Cells] : d \in Nat}
      BY <1>9
    <2>2. p \in UNION {[D -> Element] : D \in SUBSET Nat}
      BY <1>10
    <2> QED
      BY <1>2, <1>8, <2>1, <2>2 DEF Arrays
  <1>12. Moved(b, i, k) \in Alike(r)
    BY <1>1, <1>8, <1>9, <1>11 DEF Alike
  <1>13. ASSUME i < b.length, i >= b.storageLength, i \in DOMAIN b.sparse
         PROVE  get(b, i) = b.sparse[i]
    <2>1. ~(i >= b.length) /\ ~(i < b.storageLength)
      BY <1>2, <1>13
    <2>2. getProperty(b, i) = b.sparse[i] /\ b.sparse[i] \in Element
      BY <1>2, <1>13, <2>1 DEF getProperty
    <2> QED
      BY <1>4, <2>2 DEF get
  <1> QED
    BY <1>6, <1>7, <1>8, <1>12, <1>13 DEF MovesTo

LEMMA TakingRun ==
    ASSUME NEW r \in Arrays, 0 .. r.storageLength - 1 \subseteq DOMAIN r.storage, NEW o \in Nat
    PROVE  \E f :
            /\ f[0] = r
            /\ \A n \in 1 .. MaxLength :
                f[n] = IF n - 1 \in DOMAIN r.sparse
                       THEN Moved(f[n - 1], n - 1, o + Below(DOMAIN r.sparse, n - 1))
                       ELSE f[n - 1]
            /\ TakeSparse(r, o) = f[MaxLength]
  <1> DEFINE N == MaxLength
             A == Alike(r)
             next(b, n) == IF n - 1 \in DOMAIN r.sparse
                           THEN Moved(b, n - 1, o + Below(DOMAIN r.sparse, n - 1)) ELSE b
             step == [n \in 1 .. N |-> [b \in A |-> next(b, n)]]
             loop[i \in 0 .. N] ==
                 IF i = 0 THEN r
                 ELSE IF i - 1 \in DOMAIN r.sparse
                 THEN Moved(loop[i - 1], i - 1, o + Below(DOMAIN r.sparse, i - 1))
                 ELSE loop[i - 1]
  <1>0. N \in Nat
    BY BoundsAssumption
  <1>1. step \in [1 .. N -> [A -> A]]
    <2>1. ASSUME NEW n \in 1 .. N, NEW b \in A PROVE next(b, n) \in A
      <3>1. n - 1 \in Nat
        BY <1>0
      <3>2. CASE n - 1 \in DOMAIN r.sparse
        <4>1. Moved(b, n - 1, o + Below(DOMAIN r.sparse, n - 1)) \in Alike(r)
          BY <2>1, <3>1, MovedIs DEF MovesTo
        <4> QED
          BY <3>2, <4>1
      <3> QED
        BY <2>1, <3>2
    <2> HIDE DEF A, next
    <2> QED
      BY <2>1
  <1>2. PICK f : Run(N, A, r, step, f)
    <2> HIDE DEF step
    <2>1. N \in Nat /\ r \in A
      BY <1>0 DEF Alike
    <2> HIDE DEF A, N
    <2> QED
      BY <1>1, <2>1, Recursion
  <1>3. /\ f[0] = r /\ \A n \in 1 .. N : f[n] = next(f[n - 1], n)
        /\ f \in [0 .. N -> A]
    <2>1. ASSUME NEW n \in 1 .. N PROVE f[n] = next(f[n - 1], n)
      <3>1. n - 1 \in 0 .. N
        BY <1>0
      <3>2. f[n - 1] \in A /\ f[n] = step[n][f[n - 1]]
        <4> HIDE DEF A, step
        <4> QED
          BY <1>2, <3>1 DEF Run
      <3> HIDE DEF A, next
      <3> QED
        BY <3>2
    <2>2. f[0] = r /\ f \in [0 .. N -> A]
      <3> HIDE DEF A, step, N
      <3> QED
        BY <1>2 DEF Run
    <2> QED
      BY <2>1, <2>2
  <1>4. f = [i \in 0 .. N |->
                 IF i = 0 THEN r
                 ELSE IF i - 1 \in DOMAIN r.sparse
                 THEN Moved(f[i - 1], i - 1, o + Below(DOMAIN r.sparse, i - 1))
                 ELSE f[i - 1]]
    <2>1. \A n \in 0 .. N : n = 0 \/ n \in 1 .. N
      BY <1>0
    <2> HIDE DEF A, N
    <2> QED
      BY <1>3, <2>1
  <1>5. loop = [i \in 0 .. N |->
                 IF i = 0 THEN r
                 ELSE IF i - 1 \in DOMAIN r.sparse
                 THEN Moved(loop[i - 1], i - 1, o + Below(DOMAIN r.sparse, i - 1))
                 ELSE loop[i - 1]]
    <2> HIDE DEF N
    <2> QED
      BY <1>4, Zenon
  <1>6. TakeSparse(r, o) = loop[N]
    BY DEF TakeSparse, Moved
  <1> HIDE DEF loop
  <1>7. ASSUME NEW n \in 1 .. N PROVE loop[n] = next(loop[n - 1], n)
    <2>1. n \in 0 .. N /\ n # 0
      BY <1>0
    <2> HIDE DEF N
    <2> QED
      BY <1>5, <2>1
  <1>8. loop[0] = r
    <2>1. 0 \in 0 .. N
      BY <1>0
    <2> HIDE DEF N
    <2> QED
      BY <1>5, <2>1
  <1> QED
    BY <1>6, <1>7, <1>8

\* c is a with the elements of its vector at the front.
AtFront(a, c, o) ==
    /\ c \in Layouts
    /\ c = [length |-> a.length, storage |-> c.storage, storageLength |-> a.storageLength,
            sparse |-> a.sparse]
    /\ \A v \in Values : Count(c.storage, 0, o, v) = Count(a.storage, 0, a.storageLength, v)
    /\ \A q \in 0 .. o - 1 : c.storage[q] \in Values

\* The state of the loop of Compacted after i cells.
Compacting(a, g, i) ==
    /\ g \in [DOMAIN a.storage -> Cells]
    /\ \A v \in Values : Count(g, 0, Below(InVector(a), i), v) = Count(a.storage, 0, i, v)
    /\ \A q \in 0 .. Below(InVector(a), i) - 1 : g[q] \in Values
    /\ \A q \in DOMAIN a.storage : q >= a.storageLength => g[q] = a.storage[q]

LEMMA CompactingStep ==
    ASSUME NEW a \in Layouts, NEW i \in 0 .. a.storageLength - 1, NEW g, Compacting(a, g, i),
           NEW h, h = IF i \in InVector(a)
                      THEN [g EXCEPT ![Below(InVector(a), i)] = a.storage[i]] ELSE g
    PROVE  Compacting(a, h, i + 1)
  <1>1. PICK V, o, p, s : V = InVector(a) /\ o = Below(V, i) /\ p = Below(V, i + 1) /\ s = a.storage
    OBVIOUS
  <1>2. /\ V \subseteq Nat /\ i \in Nat /\ i \in DOMAIN s /\ s[i] \in Cells
        /\ i \in V <=> s[i] \in Values
        /\ \A j \in 0 .. a.storageLength - 1 : j \in DOMAIN s
    <2>1. i \in Nat
      OBVIOUS
    <2> QED
      BY <1>1, <2>1, InVectorIs
  <1>3. o \in Nat /\ o <= i /\ p = o + (IF i \in V THEN 1 ELSE 0)
    BY <1>1, <1>2, BelowIs
  <1>4. a.storageLength \in Nat /\ i < a.storageLength
    BY LayoutIs
  <1>5. /\ g \in [DOMAIN s -> Cells] /\ \A v \in Values : Count(g, 0, o, v) = Count(s, 0, i, v)
        /\ \A q \in 0 .. o - 1 : g[q] \in Values
        /\ \A q \in DOMAIN s : q >= a.storageLength => g[q] = s[q]
    BY <1>1 DEF Compacting
  <1>6. \A v : Count(s, 0, i + 1, v) = Count(s, 0, i, v) + (IF s[i] = v THEN 1 ELSE 0)
    <2>1. 0 \in Int /\ i \in Int /\ 0 <= i
      BY <1>2
    <2> QED
      BY ONLY <2>1, CountIs
  <1>7. CASE i \in V
    <2>1. h = [g EXCEPT ![o] = s[i]] /\ p = o + 1 /\ s[i] \in Values
      BY <1>1, <1>2, <1>3, <1>7
    <2>2. o \in DOMAIN s
      <3>1. o \in 0 .. a.storageLength - 1
        BY <1>3, <1>4
      <3> QED
        BY <1>2, <3>1
    <2>3. /\ h \in [DOMAIN s -> Cells] /\ h[o] = s[i]
          /\ \A q \in DOMAIN s : q # o => h[q] = g[q]
      BY <1>2, <1>5, <2>1, <2>2
    <2>4. \A q \in 0 .. o - 1 : q \in DOMAIN s /\ q # o
      <3>1. \A q \in 0 .. o - 1 : q \in 0 .. a.storageLength - 1 /\ q # o
        BY <1>3, <1>4
      <3> QED
        BY <1>2, <3>1
    <2>5. ASSUME NEW v \in Values PROVE Count(h, 0, p, v) = Count(s, 0, i + 1, v)
      <3>1. 0 \in Int /\ o \in Int /\ 0 <= o
        BY <1>3
      <3>2. \A x : Count(h, 0, o + 1, x) = Count(h, 0, o, x) + (IF h[o] = x THEN 1 ELSE 0)
        BY ONLY <3>1, CountIs
      <3>3. Count(h, 0, o, v) = Count(g, 0, o, v)
        <4>1. Agree(h, g, 0, o)
          BY <2>3, <2>4 DEF Agree
        <4> QED
          BY ONLY <3>1, <4>1, CountSame
      <3>4. Count(g, 0, o, v) = Count(s, 0, i, v)
        BY <1>5
      <3>5. p = o + 1 /\ h[o] = s[i]
        BY <2>1, <2>3
      <3> QED
        BY ONLY <1>6, <3>2, <3>3, <3>4, <3>5
    <2>6. \A q \in 0 .. p - 1 : h[q] \in Values
      <3>1. \A q \in 0 .. p - 1 : q = o \/ q \in 0 .. o - 1
        BY <1>3, <2>1
      <3> QED
        BY <1>5, <2>1, <2>3, <2>4, <3>1
    <2>7. \A q \in DOMAIN s : q >= a.storageLength => h[q] = s[q]
      <3>1. o < a.storageLength
        BY <1>3, <1>4
      <3>2. \A q \in DOMAIN s : q >= a.storageLength => q # o
        BY <1>3, <1>4, <3>1
      <3> QED
        BY <1>5, <2>3, <3>2
    <2> QED
      BY <1>1, <2>3, <2>5, <2>6, <2>7 DEF Compacting
  <1>8. CASE i \notin V
    <2>1. h = g /\ p = o /\ s[i] \notin Values
      BY <1>1, <1>2, <1>3, <1>8
    <2>2. ASSUME NEW v \in Values PROVE Count(h, 0, p, v) = Count(s, 0, i + 1, v)
      <3>1. \A x : Count(s, 0, i, x) \in Nat
        <4>1. 0 \in Int /\ i \in Int
          BY <1>2
        <4> QED
          BY ONLY <4>1, CountIs
      <3>2. Count(g, 0, o, v) = Count(s, 0, i, v) /\ h = g /\ p = o /\ s[i] # v
        BY <1>5, <2>1
      <3> QED
        BY ONLY <1>6, <3>1, <3>2
    <2> QED
      BY <1>1, <1>5, <2>1, <2>2 DEF Compacting
  <1> QED
    BY <1>7, <1>8

LEMMA CompactedIs ==
    ASSUME NEW a \in Layouts
    PROVE  AtFront(a, Compacted(a), Cardinality(InVector(a)))
  <1>1. PICK m, V, o : m = a.storageLength /\ V = InVector(a) /\ o = Cardinality(V)
    OBVIOUS
  <1>2. PICK f : /\ f[0] = a.storage
                 /\ \A n \in 1 .. m :
                        f[n] = IF n - 1 \in InVector(a)
                               THEN [f[n - 1] EXCEPT
                                 ![Below(InVector(a), n - 1)] = a.storage[n - 1]]
                               ELSE f[n - 1]
                 /\ Compacted(a) = [a EXCEPT !.storage = f[m]]
    BY <1>1, CompactionRun
  <1>3. /\ a = [length |-> a.length, storage |-> a.storage,
                storageLength |-> a.storageLength, sparse |-> a.sparse]
        /\ m \in Nat
    BY <1>1, LayoutIs
  <1>4. PICK c \in Nat : a.storage \in [0 .. c - 1 -> Cells] /\ m <= c
    BY <1>1, LayoutIs
  <1>5. V \subseteq 0 .. m - 1 /\ V \subseteq Nat /\ o \in Nat
    BY <1>1, InVectorIs
  <1>6. Below(V, 0) = 0 /\ Below(V, m) = o
    <2>1. 0 \in Nat
      OBVIOUS
    <2> QED
      BY <1>1, <1>3, <1>5, <2>1, BelowIs
  <1>7. PICK S : S = {i \in Nat : i <= m => Compacting(a, f[i], i)}
    OBVIOUS
  <1>8. 0 \in S
    <2>1. \A v : Count(a.storage, 0, 0, v) = Count(a.storage, 0, 0, v)
      OBVIOUS
    <2>2. Compacting(a, a.storage, 0)
      BY <1>1, <1>4, <1>6, <2>1 DEF Compacting
    <2> QED
      BY <1>2, <1>7, <2>2
  <1>9. ASSUME NEW i \in Nat, i \in S PROVE i + 1 \in S
    <2>1. CASE ~(i + 1 <= m)
      BY <1>7, <2>1
    <2>2. CASE i + 1 <= m
      <3>1. i <= m /\ i + 1 \in 1 .. m /\ (i + 1) - 1 = i /\ i \in 0 .. m - 1
        BY <1>3, <2>2
      <3>2. PICK g, h : g = f[i] /\ h = f[i + 1]
        OBVIOUS
      <3>3. Compacting(a, g, i)
        BY <1>7, <1>9, <3>1, <3>2
      <3>4. h = IF i \in InVector(a)
                THEN [g EXCEPT ![Below(InVector(a), i)] = a.storage[i]] ELSE g
        BY <1>2, <3>1, <3>2
      <3>5. Compacting(a, h, i + 1)
        BY <1>1, <3>1, <3>3, <3>4, CompactingStep
      <3> QED
        BY <1>7, <3>2, <3>5
    <2> QED
      BY <2>1, <2>2
  <1>10. Nat \subseteq S
    BY <1>8, <1>9, SetInduction
  <1>11. PICK g : g = f[m]
    OBVIOUS
  <1>12. Compacting(a, g, m)
    <2>1. m \in S
      BY <1>3, <1>10
    <2> QED
      BY <1>3, <1>7, <1>11, <2>1
  <1>13. /\ g \in [0 .. c - 1 -> Cells]
         /\ \A v \in Values : Count(g, 0, o, v) = Count(a.storage, 0, m, v)
         /\ \A q \in 0 .. o - 1 : g[q] \in Values
         /\ \A q \in 0 .. c - 1 : q >= m => g[q] = Null
    <2>1. \A q \in 0 .. c - 1 : q >= m => a.storage[q] = Null
      BY <1>1, <1>4, LayoutIs
    <2>2. DOMAIN a.storage = 0 .. c - 1
      BY <1>4
    <2> QED
      BY <1>1, <1>6, <1>12, <2>1, <2>2 DEF Compacting
  <1>14. PICK b : b = Compacted(a)
    OBVIOUS
  <1>15. b = [length |-> a.length, storage |-> g, storageLength |-> m, sparse |-> a.sparse]
    BY <1>1, <1>2, <1>3, <1>11, <1>14
  <1>16. b \in Layouts
    <2>1. b \in Arrays
      <3>1. g \in UNION {[0 .. d - 1 -> Cells] : d \in Nat}
        BY <1>13
      <3> QED
        BY <1>1, <1>15, <3>1 DEF Arrays, Layouts
    <2>2. Laid(b)
      <3>1. \A j \in 0 .. m - 1 : j \in 0 .. c - 1
        BY <1>3, <1>4
      <3>2. DOMAIN b.storage = 0 .. c - 1 /\ Laid(a)
        BY <1>13, <1>15 DEF Layouts
      <3> QED
        BY <1>1, <1>13, <1>15, <3>1, <3>2 DEF Laid
    <2> QED
      BY <2>1, <2>2 DEF Layouts
  <1> QED
    BY <1>1, <1>13, <1>14, <1>15, <1>16 DEF AtFront
\* The properties of r, as get shows them.
Sparse(r) == [j \in Nat |-> IF j \in DOMAIN r.sparse THEN r.sparse[j] ELSE Undefined]

\* The vector of r has room for the properties from o on.
Ready(r, o) ==
    /\ r \in Arrays /\ o \in Nat
    /\ 0 .. r.storageLength - 1 \subseteq DOMAIN r.storage
    /\ \A j \in DOMAIN r.sparse : j < r.length
    /\ IsFiniteSet(DOMAIN r.sparse)
    /\ o + Cardinality(DOMAIN r.sparse) <= r.storageLength

\* b is r after the properties below i, which are in the cells from o on, before k.
TakenTo(r, b, o, i, k) ==
    /\ b \in Alike(r)
    /\ DOMAIN b.sparse = {j \in DOMAIN r.sparse : i <= j}
    /\ \A j \in DOMAIN b.sparse : b.sparse[j] = r.sparse[j]
    /\ \A q \in DOMAIN r.storage : ~(o <= q /\ q < k) => b.storage[q] = r.storage[q]
    /\ \A q \in o .. k - 1 : b.storage[q] \in Element

\* They are the same values if none was at a place in the vector.
TakenAll(r, b, o, i, k) ==
    (\A j \in DOMAIN r.sparse : j >= r.storageLength) =>
        \A v \in Values : Count(b.storage, o, k, v) = Count(Sparse(r), 0, i, v)

\* The state of the loop of TakeSparse after the properties below i.
Taking(r, b, o, i) ==
    /\ TakenTo(r, b, o, i, o + Below(DOMAIN r.sparse, i))
    /\ TakenAll(r, b, o, i, o + Below(DOMAIN r.sparse, i))

LEMMA TakingStep ==
    ASSUME NEW r, NEW o, Ready(r, o), NEW i \in Nat, NEW b, Taking(r, b, o, i),
           NEW c, c = IF i \in DOMAIN r.sparse
                      THEN Moved(b, i, o + Below(DOMAIN r.sparse, i)) ELSE b
    PROVE  Taking(r, c, o, i + 1)
  <1>1. PICK P, k, l, s, e : /\ P = DOMAIN r.sparse /\ k = o + Below(P, i)
                             /\ l = o + Below(P, i + 1) /\ s = r.storage /\ e = Sparse(r)
    OBVIOUS
  <1>2. /\ r \in Arrays /\ o \in Nat /\ 0 .. r.storageLength - 1 \subseteq DOMAIN s
        /\ \A j \in P : j < r.length
        /\ IsFiniteSet(P) /\ o + Cardinality(P) <= r.storageLength
    BY <1>1 DEF Ready
  <1>3. /\ r.length \in Nat /\ r.storageLength \in Nat /\ P \subseteq Nat
        /\ r.sparse \in [P -> Element]
    BY <1>1, <1>2, ArrayIs
  <1>4. PICK d \in Nat : s \in [0 .. d - 1 -> Cells]
    BY <1>1, <1>2, ArrayIs
  <1>5. /\ b \in Alike(r) /\ DOMAIN b.sparse = {j \in P : i <= j}
        /\ \A j \in DOMAIN b.sparse : b.sparse[j] = r.sparse[j]
        /\ \A q \in DOMAIN s : ~(o <= q /\ q < k) => b.storage[q] = s[q]
        /\ \A q \in o .. k - 1 : b.storage[q] \in Element
    <2>1. TakenTo(r, b, o, i, k)
      BY <1>1 DEF Taking
    <2> QED
      BY <1>1, <2>1 DEF TakenTo
  <1>6. /\ b.length = r.length /\ b.storageLength = r.storageLength
        /\ DOMAIN b.storage = DOMAIN s
    BY <1>1, <1>5 DEF Alike
  <1>7. /\ k \in Nat /\ o <= k /\ l = k + (IF i \in P THEN 1 ELSE 0)
        /\ i \in P => k < r.storageLength
    <2>1. /\ Below(P, i) \in Nat /\ Below(P, i + 1) = Below(P, i) + (IF i \in P THEN 1 ELSE 0)
          /\ Cardinality(P) \in Nat /\ (i \in P => Below(P, i) < Cardinality(P))
      BY <1>2, <1>3, BelowIs
    <2> QED
      BY <1>1, <1>2, <1>3, <2>1
  <1>8. \A x : Count(e, 0, i + 1, x) = Count(e, 0, i, x) + (IF e[i] = x THEN 1 ELSE 0)
    <2>1. 0 \in Int /\ i \in Int /\ 0 <= i
      OBVIOUS
    <2> QED
      BY ONLY <2>1, CountIs
  <1>9. \A x : Count(e, 0, i, x) \in Nat
    <2>1. 0 \in Int /\ i \in Int
      OBVIOUS
    <2> QED
      BY ONLY <2>1, CountIs
  <1>10. e[i] = IF i \in P THEN r.sparse[i] ELSE Undefined
    BY <1>1 DEF Sparse
  <1>11. CASE i \in P
    <2>1. c = Moved(b, i, k) /\ l = k + 1
      BY <1>1, <1>7, <1>11
    <2>2. /\ c \in Alike(r) /\ get(b, i) \in Element
          /\ c.storage = [b.storage EXCEPT ![k] = get(b, i)]
          /\ c.sparse = Without(b.sparse, {i})
          /\ i < b.length /\ i >= b.storageLength /\ i \in DOMAIN b.sparse
                => get(b, i) = b.sparse[i]
      <3>1. r \in Arrays /\ 0 .. r.storageLength - 1 \subseteq DOMAIN r.storage /\ b \in Alike(r)
        BY <1>1, <1>2, <1>5
      <3>2. MovesTo(r, b, i, k, c)
        BY <2>1, <3>1, MovedIs
      <3> QED
        BY <3>2 DEF MovesTo
    <2>3. k \in DOMAIN s
      <3>1. k \in 0 .. r.storageLength - 1
        BY <1>3, <1>7, <1>11
      <3> QED
        BY <1>2, <3>1
    <2>4. c.storage[k] = get(b, i) /\ \A q \in DOMAIN s : q # k => c.storage[q] = b.storage[q]
      BY <1>6, <2>2, <2>3
    <2>5. DOMAIN c.sparse = {j \in P : i + 1 <= j}
      <3>1. DOMAIN c.sparse = {j \in P : i <= j} \ {i}
        BY <1>5, <2>2 DEF Without
      <3>2. \A j \in P : i + 1 <= j <=> i <= j /\ j # i
        BY <1>3
      <3> QED
        BY <3>1, <3>2
    <2>6. \A j \in DOMAIN c.sparse : c.sparse[j] = r.sparse[j]
      BY <1>5, <2>2 DEF Without
    <2>7. \A q \in DOMAIN s : ~(o <= q /\ q < l) => c.storage[q] = s[q]
      <3>1. \A q \in DOMAIN s : ~(o <= q /\ q < l) => q # k /\ ~(o <= q /\ q < k)
        BY <1>2, <1>4, <1>7, <2>1
      <3> QED
        BY <1>5, <2>4, <3>1
    <2>8. \A q \in o .. k - 1 : q \in DOMAIN s /\ q # k
      <3>1. \A q \in o .. k - 1 : q \in 0 .. r.storageLength - 1 /\ q # k
        BY <1>2, <1>3, <1>7, <1>11
      <3> QED
        BY <1>2, <3>1
    <2>9. \A q \in o .. l - 1 : c.storage[q] \in Element
      <3>1. \A q \in o .. l - 1 : q = k \/ q \in o .. k - 1
        BY <1>2, <1>7, <2>1
      <3> QED
        BY <1>5, <2>2, <2>4, <2>8, <3>1
    <2>10. ASSUME \A j \in P : j >= r.storageLength, NEW v \in Values
           PROVE  Count(c.storage, o, l, v) = Count(e, 0, i + 1, v)
      <3>1. get(b, i) = r.sparse[i]
        <4>1. i \in DOMAIN b.sparse /\ i < b.length /\ i >= b.storageLength
          BY <1>2, <1>5, <1>6, <1>11, <2>10
        <4> QED
          BY <1>5, <2>2, <4>1
      <3>2. Count(b.storage, o, k, v) = Count(e, 0, i, v)
        <4>1. TakenAll(r, b, o, i, k)
          BY <1>1 DEF Taking
        <4> QED
          BY <1>1, <2>10, <4>1 DEF TakenAll
      <3>3. o \in Int /\ k \in Int /\ o <= k
        BY <1>2, <1>7
      <3>4. \A u, x : Count(u, o, k + 1, x) = Count(u, o, k, x) + (IF u[k] = x THEN 1 ELSE 0)
        BY ONLY <3>3, CountIs
      <3>5. Count(c.storage, o, k, v) = Count(b.storage, o, k, v)
        <4>1. Agree(c.storage, b.storage, o, k)
          BY <2>4, <2>8 DEF Agree
        <4> QED
          BY ONLY <3>3, <4>1, CountSame
      <3>6. c.storage[k] = e[i] /\ l = k + 1
        BY <1>10, <1>11, <2>1, <2>4, <3>1
      <3> QED
        BY ONLY <1>8, <3>2, <3>4, <3>5, <3>6
    <2>11. TakenTo(r, c, o, i + 1, l)
      BY <1>1, <2>2, <2>5, <2>6, <2>7, <2>9 DEF TakenTo
    <2>12. TakenAll(r, c, o, i + 1, l)
      BY <1>1, <2>10 DEF TakenAll
    <2> QED
      BY <1>1, <2>11, <2>12 DEF Taking
  <1>12. CASE i \notin P
    <2>1. c = b /\ l = k
      BY <1>1, <1>7, <1>12
    <2>2. DOMAIN b.sparse = {j \in P : i + 1 <= j}
      <3>1. \A j \in P : i + 1 <= j <=> i <= j
        BY <1>3, <1>12
      <3> QED
        BY <1>5, <3>1
    <2>3. ASSUME \A j \in P : j >= r.storageLength, NEW v \in Values
          PROVE  Count(b.storage, o, k, v) = Count(e, 0, i + 1, v)
      <3>1. Count(b.storage, o, k, v) = Count(e, 0, i, v)
        <4>1. TakenAll(r, b, o, i, k)
          BY <1>1 DEF Taking
        <4> QED
          BY <1>1, <2>3, <4>1 DEF TakenAll
      <3>2. e[i] # v
        BY <1>10, <1>12, <2>3, SpecialAssumption
      <3> QED
        BY ONLY <1>8, <1>9, <3>1, <3>2
    <2>4. TakenTo(r, c, o, i + 1, l)
      BY <1>1, <1>5, <2>1, <2>2 DEF TakenTo
    <2>5. TakenAll(r, c, o, i + 1, l)
      BY <1>1, <2>1, <2>3 DEF TakenAll
    <2> QED
      BY <1>1, <2>4, <2>5 DEF Taking
  <1> QED
    BY <1>11, <1>12

LEMMA TakeSparseIs ==
    ASSUME NEW r, NEW o, Ready(r, o), r.length <= MaxLength
    PROVE  /\ Taking(r, TakeSparse(r, o), o, MaxLength)
           /\ Below(DOMAIN r.sparse, MaxLength) = Cardinality(DOMAIN r.sparse)
           /\ DOMAIN TakeSparse(r, o).sparse = {}
  <1>1. /\ r \in Arrays /\ o \in Nat /\ 0 .. r.storageLength - 1 \subseteq DOMAIN r.storage
        /\ \A j \in DOMAIN r.sparse : j < r.length
        /\ MaxLength \in Nat
    BY BoundsAssumption DEF Ready
  <1>2. r.length \in Nat /\ DOMAIN r.sparse \subseteq Nat
    BY <1>1, ArrayIs
  <1>3. PICK f : /\ f[0] = r
                 /\ \A n \in 1 .. MaxLength :
                        f[n] = IF n - 1 \in DOMAIN r.sparse
                               THEN Moved(f[n - 1], n - 1, o + Below(DOMAIN r.sparse, n - 1))
                               ELSE f[n - 1]
                 /\ TakeSparse(r, o) = f[MaxLength]
    BY <1>1, TakingRun
  <1>4. PICK S : S = {i \in Nat : i <= MaxLength => Taking(r, f[i], o, i)}
    OBVIOUS
  <1>5. 0 \in S
    <2>1. r \in Alike(r)
      BY <1>1 DEF Alike
    <2>2. DOMAIN r.sparse = {j \in DOMAIN r.sparse : 0 <= j}
      BY <1>2
    <2>3. Below(DOMAIN r.sparse, 0) = 0 /\ o + 0 = o
      <3>1. 0 \in Nat
        OBVIOUS
      <3> QED
        BY <1>1, <1>2, <3>1, BelowIs
    <2>4. \A u, v : Count(u, o, o, v) = 0
      <3>1. o \in Int /\ o <= o
        BY <1>1
      <3> QED
        BY ONLY <3>1, CountIs
    <2>5. \A u, v : Count(u, 0, 0, v) = 0
      <3>1. 0 \in Int /\ 0 <= 0
        OBVIOUS
      <3> QED
        BY ONLY <3>1, CountIs
    <2>6. o .. o - 1 = {}
      BY <1>1
    <2>7. TakenTo(r, r, o, 0, o)
      BY <2>1, <2>2, <2>6 DEF TakenTo
    <2>8. TakenAll(r, r, o, 0, o)
      BY <2>4, <2>5 DEF TakenAll
    <2>9. Taking(r, r, o, 0)
      BY <2>3, <2>7, <2>8 DEF Taking
    <2> QED
      BY <1>3, <1>4, <2>9
  <1>6. ASSUME NEW i \in Nat, i \in S PROVE i + 1 \in S
    <2>1. CASE ~(i + 1 <= MaxLength)
      BY <1>4, <2>1
    <2>2. CASE i + 1 <= MaxLength
      <3>1. i <= MaxLength /\ i + 1 \in 1 .. MaxLength /\ (i + 1) - 1 = i
        BY <1>1, <2>2
      <3>2. PICK b, c : b = f[i] /\ c = f[i + 1]
        OBVIOUS
      <3>3. Taking(r, b, o, i)
        BY <1>4, <1>6, <3>1, <3>2
      <3>4. c = IF i \in DOMAIN r.sparse
                THEN Moved(b, i, o + Below(DOMAIN r.sparse, i)) ELSE b
        BY <1>3, <3>1, <3>2
      <3>5. Taking(r, c, o, i + 1)
        BY <3>3, <3>4, TakingStep
      <3> QED
        BY <1>4, <3>2, <3>5
    <2> QED
      BY <2>1, <2>2
  <1>7. Nat \subseteq S
    BY <1>5, <1>6, SetInduction
  <1>8. Taking(r, TakeSparse(r, o), o, MaxLength)
    <2>1. MaxLength \in S
      BY <1>1, <1>7
    <2> QED
      BY <1>1, <1>3, <1>4, <2>1
  <1>9. \A j \in DOMAIN r.sparse : j \in 0 .. MaxLength - 1 /\ ~(MaxLength <= j)
    BY <1>1, <1>2
  <1>10. Below(DOMAIN r.sparse, MaxLength) = Cardinality(DOMAIN r.sparse)
    <2>1. DOMAIN r.sparse \subseteq 0 .. MaxLength - 1
      BY <1>9
    <2> QED
      BY <1>1, <1>2, <2>1, BelowIs
  <1>11. DOMAIN TakeSparse(r, o).sparse = {}
    BY <1>8, <1>9 DEF Taking, TakenTo
  <1> QED
    BY <1>8, <1>10, <1>11
\* r is a with the elements of its vector in the first o cells, and room for n.
Grown(a, r, o, n) ==
    /\ r.length = a.length /\ r.sparse = a.sparse
    /\ r.storageLength = IF n > a.storageLength THEN n ELSE a.storageLength
    /\ \E k \in Nat : r.storageLength <= k /\ r.storage \in [0 .. k - 1 -> Cells]
    /\ \A q \in DOMAIN r.storage : q >= a.storageLength => r.storage[q] = Null
    /\ \A v \in Values : Count(r.storage, 0, o, v) = Count(a.storage, 0, a.storageLength, v)
    /\ \A q \in 0 .. o - 1 : r.storage[q] \in Values
    /\ Ready(r, o)

LEMMA GrownIs ==
    ASSUME NEW a \in Layouts, NEW o, o = Cardinality(InVector(a)), NEW n,
           n = o + Cardinality(DOMAIN a.sparse), NEW c, c = Compacted(a),
           NEW r, r = IF n > a.storageLength THEN resizeStorage(c, n) ELSE c
    PROVE  Grown(a, r, o, n)
  <1>1. PICK m, M : m = a.storageLength /\ M = IF n > m THEN n ELSE m
    OBVIOUS
  <1>2. /\ o \in Nat /\ o <= m /\ n <= a.length /\ n \in Nat /\ o <= n
        /\ IsFiniteSet(DOMAIN a.sparse)
    <2>1. Cardinality(DOMAIN a.sparse) \in Nat /\ o \in Nat
      BY InVectorIs
    <2> QED
      BY <1>1, <2>1, InVectorIs
  <1>3. /\ a.length \in Nat /\ m \in Nat /\ m <= a.length
        /\ DOMAIN a.sparse \subseteq Nat /\ a.sparse \in [DOMAIN a.sparse -> Element]
        /\ \A j \in DOMAIN a.sparse : j < a.length
    BY <1>1, LayoutIs
  <1>4. AtFront(a, c, o)
    BY CompactedIs
  <1>5. PICK g : g = c.storage
    OBVIOUS
  <1>6. /\ c \in Layouts
        /\ c = [length |-> a.length, storage |-> g, storageLength |-> m, sparse |-> a.sparse]
        /\ \A v \in Values : Count(g, 0, o, v) = Count(a.storage, 0, m, v)
        /\ \A q \in 0 .. o - 1 : g[q] \in Values
    BY <1>1, <1>4, <1>5 DEF AtFront
  <1>7. c.length = a.length /\ c.storageLength = m /\ c.sparse = a.sparse
    BY <1>6
  <1>8. PICK d \in Nat : g \in [0 .. d - 1 -> Cells] /\ m <= d
    BY <1>5, <1>6, <1>7, LayoutIs
  <1>9. \A q \in 0 .. d - 1 : q >= m => g[q] = Null
    BY <1>5, <1>6, <1>7, <1>8, LayoutIs
  <1>10. \E s : /\ r = [length |-> a.length, storage |-> s, storageLength |-> M,
                        sparse |-> a.sparse]
                /\ \E k \in Nat : M <= k /\ s \in [0 .. k - 1 -> Cells]
                /\ \A q \in DOMAIN s : s[q] = IF q < m THEN g[q] ELSE Null
    <2>1. CASE n > m
      <3>1. r = resizeStorage(c, n)
        BY <1>1, <2>1
      <3>2. PICK s : Resized(c, n, s, r)
        BY <1>2, <1>6, <3>1, ResizeIs
      <3>3. PICK k \in Nat : n <= k /\ s \in [0 .. k - 1 -> Cells]
        BY <3>2 DEF Resized
      <3>4. \A q \in 0 .. k - 1 : s[q] = IF q < m THEN g[q] ELSE Null
        <4>1. \A q \in 0 .. k - 1 : s[q] = IF q < n /\ q < m THEN g[q] ELSE Null
          BY <1>5, <1>7, <3>2, <3>3 DEF Resized
        <4>2. \A q \in 0 .. k - 1 : q < m => q < n
          BY <1>2, <1>3, <2>1
        <4> QED
          BY <4>1, <4>2
      <3>5. r = [length |-> a.length, storage |-> s, storageLength |-> n, sparse |-> a.sparse]
        BY <1>7, <3>2 DEF Resized
      <3> QED
        BY <1>1, <2>1, <3>3, <3>4, <3>5
    <2>2. CASE ~(n > m)
      <3>1. \A q \in 0 .. d - 1 : g[q] = IF q < m THEN g[q] ELSE Null
        BY <1>3, <1>9
      <3> QED
        BY <1>1, <1>6, <1>8, <2>2, <3>1
    <2> QED
      BY <2>1, <2>2
  <1>11. PICK s : /\ r = [length |-> a.length, storage |-> s, storageLength |-> M,
                          sparse |-> a.sparse]
                  /\ \E k \in Nat : M <= k /\ s \in [0 .. k - 1 -> Cells]
                  /\ \A q \in DOMAIN s : s[q] = IF q < m THEN g[q] ELSE Null
    BY <1>10
  <1>12. PICK k \in Nat : M <= k /\ s \in [0 .. k - 1 -> Cells]
    BY <1>11
  <1>13. /\ r.length = a.length /\ r.storage = s /\ r.storageLength = M /\ r.sparse = a.sparse
    BY <1>11
  <1>14. M \in Nat /\ n <= M /\ m <= M
    BY <1>1, <1>2, <1>3
  <1>15. \A q \in 0 .. o - 1 : s[q] = g[q]
    <2>1. \A q \in 0 .. o - 1 : q \in 0 .. k - 1 /\ q < m
      BY <1>2, <1>3, <1>12, <1>14
    <2> QED
      BY <1>11, <1>12, <2>1
  <1>16. \A q \in 0 .. k - 1 : q >= m => s[q] = Null
    BY <1>3, <1>11, <1>12
  <1>17. ASSUME NEW v \in Values PROVE Count(s, 0, o, v) = Count(a.storage, 0, m, v)
    <2>1. Agree(s, g, 0, o) /\ 0 \in Int /\ o \in Int
      BY <1>2, <1>15 DEF Agree
    <2>2. Count(s, 0, o, v) = Count(g, 0, o, v)
      BY ONLY <2>1, CountSame
    <2> QED
      BY <1>6, <2>2
  <1>18. Ready(r, o)
    <2>1. r \in Arrays
      <3>1. s \in UNION {[0 .. e - 1 -> Cells] : e \in Nat}
        BY <1>12
      <3>2. a.sparse \in UNION {[D -> Element] : D \in SUBSET Nat}
        BY <1>3
      <3> QED
        BY <1>3, <1>11, <1>14, <3>1, <3>2 DEF Arrays
    <2>2. 0 .. r.storageLength - 1 \subseteq DOMAIN r.storage
      <3>1. 0 .. M - 1 \subseteq 0 .. k - 1
        BY <1>12, <1>14
      <3> QED
        BY <1>12, <1>13, <3>1
    <2>3. o + Cardinality(DOMAIN r.sparse) <= r.storageLength
      BY <1>13, <1>14
    <2> QED
      BY <1>2, <1>3, <1>13, <2>1, <2>2, <2>3 DEF Ready
  <1>19. \A q \in 0 .. o - 1 : s[q] \in Values
    BY <1>6, <1>15
  <1> QED
    BY <1>1, <1>12, <1>13, <1>16, <1>17, <1>18, <1>19 DEF Grown

\* b has the length of a, the n elements of a in a part of the vector, and nothing else.
Packed(a, b, n) ==
    /\ b \in Layouts /\ b.length = a.length /\ n \in Nat /\ n <= b.storageLength
    /\ DOMAIN b.sparse = {}
    /\ \A q \in 0 .. n - 1 : b.storage[q] \in Element
    /\ \A q \in DOMAIN b.storage : q >= n => b.storage[q] = Null
    /\ n <= Cutoff => \A v \in Values : Count(b.storage, 0, n, v) = Count(View(a), 0, a.length, v)

\* Where a value of the array is.
LEMMA ViewCounts ==
    ASSUME NEW a \in Layouts, a.length <= MaxLength, NEW v \in Values
    PROVE  Count(View(a), 0, a.length, v)
             = Count(a.storage, 0, a.storageLength, v) + Count(Sparse(a), 0, MaxLength, v)
  <1>1. PICK u, s, e, m, L : /\ u = View(a) /\ s = a.storage /\ e = Sparse(a)
                             /\ m = a.storageLength /\ L = a.length
    OBVIOUS
  <1>2. /\ L \in Nat /\ m \in Nat /\ m <= L /\ MaxLength \in Nat /\ L <= MaxLength
        /\ DOMAIN a.sparse \subseteq Nat
        /\ \A i \in DOMAIN a.sparse : i >= m /\ i < L
    BY <1>1, LayoutIs, BoundsAssumption
  <1>3. /\ \A i \in 0 .. m - 1 : u[i] = IF s[i] = Null THEN Undefined ELSE s[i]
        /\ \A i \in DOMAIN a.sparse : u[i] = a.sparse[i]
        /\ \A i \in Nat : i >= m /\ i \notin DOMAIN a.sparse => u[i] = Undefined
    BY <1>1, ViewIs
  <1>4. \A i \in Nat : e[i] = IF i \in DOMAIN a.sparse THEN a.sparse[i] ELSE Undefined
    BY <1>1 DEF Sparse
  <1>5. v # Null /\ v # Undefined
    BY SpecialAssumption
  <1>6. Count(u, 0, m, v) = Count(s, 0, m, v)
    <2>1. \A i \in 0 .. m - 1 : u[i] = v <=> s[i] = v
      BY <1>3, <1>5
    <2>2. Places(u, 0, m, v) = Places(s, 0, m, v)
      BY <2>1 DEF Places
    <2> QED
      BY <2>2 DEF Count
  <1>7. Count(u, m, L, v) = Count(e, m, L, v)
    <2>1. ASSUME NEW i \in m .. L - 1 PROVE u[i] = e[i]
      <3>1. i \in Nat /\ i >= m
        BY <1>2
      <3> QED
        BY <1>3, <1>4, <3>1
    <2>2. Agree(u, e, m, L) /\ m \in Int /\ L \in Int
      BY <1>2, <2>1 DEF Agree
    <2> QED
      BY ONLY <2>2, CountSame
  <1>8. Count(e, 0, m, v) = 0
    <2>1. ASSUME NEW i \in 0 .. m - 1 PROVE e[i] # v
      <3>1. i \in Nat /\ i \notin DOMAIN a.sparse
        BY <1>2
      <3> QED
        BY <1>4, <1>5, <3>1
    <2> QED
      BY <1>2, <2>1, CountNone
  <1>9. Count(e, L, MaxLength, v) = 0
    <2>1. ASSUME NEW i \in L .. MaxLength - 1 PROVE e[i] # v
      <3>1. i \in Nat /\ i \notin DOMAIN a.sparse
        BY <1>2
      <3> QED
        BY <1>4, <1>5, <3>1
    <2> QED
      BY <1>2, <2>1, CountNone
  <1>10. /\ Count(u, 0, L, v) = Count(u, 0, m, v) + Count(u, m, L, v)
         /\ Count(e, 0, L, v) = Count(e, 0, m, v) + Count(e, m, L, v)
         /\ Count(e, 0, MaxLength, v) = Count(e, 0, L, v) + Count(e, L, MaxLength, v)
    <2>1. /\ 0 \in Int /\ m \in Int /\ L \in Int /\ MaxLength \in Int
          /\ 0 <= m /\ m <= L /\ 0 <= L /\ L <= MaxLength
      BY <1>2
    <2> QED
      BY ONLY <2>1, CountParts
  <1>11. Count(e, m, L, v) \in Nat
    <2>1. m \in Int /\ L \in Int
      BY <1>2
    <2> QED
      BY ONLY <2>1, CountIs
  <1> QED
    BY <1>1, <1>6, <1>7, <1>8, <1>9, <1>10, <1>11

LEMMA PackedIs ==
    ASSUME NEW a \in Layouts, a.length <= MaxLength
    PROVE  LET p == pushUndefinedObjectsToEnd(a) IN
           /\ Packed(a, p.array, p.count)
           /\ p.count = Cardinality(InVector(a)) + Cardinality(DOMAIN a.sparse)
  <1>1. PICK P, m, o, n, c, r, t, z :
            /\ P = DOMAIN a.sparse /\ m = a.storageLength /\ o = Cardinality(InVector(a))
            /\ n = o + Cardinality(P) /\ c = Compacted(a)
            /\ r = (IF n > m THEN resizeStorage(c, n) ELSE c)
            /\ t = TakeSparse(r, o) /\ z = ZeroFrom(t, n)
    OBVIOUS
  <1>2. pushUndefinedObjectsToEnd(a) = [array |-> z, count |-> n]
    BY <1>1 DEF pushUndefinedObjectsToEnd
  <1>3. Grown(a, r, o, n)
    BY <1>1, GrownIs
  <1>4. PICK s, M : s = r.storage /\ M = r.storageLength
    OBVIOUS
  <1>5. /\ r.length = a.length /\ r.sparse = a.sparse /\ M = IF n > m THEN n ELSE m
        /\ \A q \in DOMAIN s : q >= m => s[q] = Null
        /\ \A v \in Values : Count(s, 0, o, v) = Count(a.storage, 0, m, v)
        /\ \A q \in 0 .. o - 1 : s[q] \in Values
        /\ Ready(r, o)
    BY <1>1, <1>3, <1>4 DEF Grown
  <1>6. PICK k \in Nat : M <= k /\ s \in [0 .. k - 1 -> Cells]
    BY <1>3, <1>4 DEF Grown
  <1>7. /\ o \in Nat /\ o <= m /\ n <= a.length /\ n \in Nat /\ o <= n
        /\ Cardinality(P) \in Nat /\ n = o + Cardinality(P)
    <2>1. Cardinality(P) \in Nat /\ o \in Nat
      BY <1>1, InVectorIs
    <2> QED
      BY <1>1, <2>1, InVectorIs
  <1>8. /\ a.length \in Nat /\ m \in Nat /\ m <= a.length /\ P \subseteq Nat
        /\ \A j \in P : j >= Cutoff /\ j >= m
        /\ Cutoff \in Nat
    BY <1>1, LayoutIs
  <1>9. M \in Nat /\ n <= M /\ m <= M /\ M <= a.length
    BY <1>5, <1>7, <1>8
  <1>10. /\ Taking(r, t, o, MaxLength) /\ Below(P, MaxLength) = Cardinality(P)
         /\ DOMAIN t.sparse = {}
    BY <1>1, <1>5, TakeSparseIs
  <1>11. PICK h : h = t.storage
    OBVIOUS
  <1>12. TakenTo(r, t, o, MaxLength, n) /\ TakenAll(r, t, o, MaxLength, n)
    BY <1>1, <1>5, <1>10 DEF Taking
  <1>13. /\ t \in Arrays /\ t.length = a.length /\ t.storageLength = M /\ DOMAIN h = 0 .. k - 1
         /\ \A q \in 0 .. k - 1 : ~(o <= q /\ q < n) => h[q] = s[q]
         /\ \A q \in o .. n - 1 : h[q] \in Element
    BY <1>4, <1>5, <1>6, <1>11, <1>12 DEF TakenTo, Alike
  <1>14. t \in Layouts
    <2>1. 0 .. M - 1 \subseteq 0 .. k - 1
      BY <1>6, <1>9
    <2>2. ASSUME NEW q \in 0 .. k - 1, q >= M PROVE h[q] = Null
      <3>1. ~(o <= q /\ q < n) /\ q >= m
        BY <1>7, <1>8, <1>9, <2>2
      <3>2. s[q] = Null
        BY <1>5, <1>6, <3>1
      <3> QED
        BY <1>13, <3>1, <3>2
    <2>3. Laid(t)
      BY <1>9, <1>10, <1>11, <1>13, <2>1, <2>2 DEF Laid
    <2> QED
      BY <1>13, <2>3 DEF Layouts
  <1>15. PICK y : y = z.storage
    OBVIOUS
  <1>16. /\ z = [length |-> a.length, storage |-> y, storageLength |-> M, sparse |-> t.sparse]
         /\ DOMAIN y = 0 .. k - 1
         /\ \A q \in 0 .. k - 1 : y[q] = IF q < n /\ q < M THEN h[q] ELSE Null
    BY <1>1, <1>7, <1>11, <1>13, <1>14, <1>15, ZeroFromIs
  <1>17. /\ z.length = a.length /\ z.storage = y /\ z.storageLength = M /\ z.sparse = t.sparse
    BY <1>16
  <1>18. \A q \in 0 .. k - 1 : y[q] = IF q < n THEN h[q] ELSE Null
    <2>1. \A q \in 0 .. k - 1 : q < n => q < M
      BY <1>7, <1>9
    <2> QED
      BY <1>16, <2>1
  <1>19. \A q \in 0 .. n - 1 : q \in 0 .. k - 1
    BY <1>6, <1>7, <1>9
  <1>20. \A q \in 0 .. n - 1 : y[q] = h[q] /\ h[q] \in Element
    <2>1. ASSUME NEW q \in 0 .. n - 1 PROVE h[q] \in Element
      <3>1. CASE q < o
        <4>1. ~(o <= q /\ q < n) /\ q \in 0 .. o - 1
          BY <1>7, <3>1
        <4>2. h[q] = s[q] /\ s[q] \in Values
          BY <1>5, <1>13, <1>19, <4>1
        <4> QED
          BY <4>2 DEF Element
      <3>2. CASE ~(q < o)
        <4>1. q \in o .. n - 1
          BY <1>7, <3>2
        <4> QED
          BY <1>13, <4>1
      <3> QED
        BY <3>1, <3>2
    <2>2. \A q \in 0 .. n - 1 : q < n
      BY <1>7
    <2> QED
      BY <1>18, <1>19, <2>1, <2>2
  <1>21. \A q \in 0 .. k - 1 : q >= n => y[q] = Null
    BY <1>7, <1>18
  <1>22. z \in Layouts
    <2>1. y \in [0 .. k - 1 -> Cells]
      <3>1. ASSUME NEW q \in 0 .. k - 1 PROVE y[q] \in Cells
        <4>1. q < n => q \in 0 .. n - 1
          BY <1>7
        <4>2. h[q] \in Element => h[q] \in Cells
          BY DEF Cells
        <4>3. Null \in Cells
          BY DEF Cells
        <4> QED
          BY <1>18, <1>20, <4>1, <4>2, <4>3
      <3>2. y = [q \in 0 .. k - 1 |-> y[q]]
        <4>1. y = [q \in DOMAIN t.storage |-> y[q]]
          BY <1>1, <1>7, <1>14, <1>15, ZeroFromMaps
        <4>2. DOMAIN t.storage = 0 .. k - 1
          BY <1>11, <1>13
        <4> QED
          BY <4>1, <4>2
      <3>3. [q \in 0 .. k - 1 |-> y[q]] \in [0 .. k - 1 -> Cells]
        BY <3>1
      <3> QED
        BY <3>2, <3>3
    <2>2. z \in Arrays
      <3>1. y \in UNION {[0 .. d - 1 -> Cells] : d \in Nat}
        BY <2>1
      <3>2. t.sparse \in UNION {[D -> Element] : D \in SUBSET Nat}
        BY <1>13 DEF Arrays
      <3> QED
        BY <1>8, <1>9, <1>16, <3>1, <3>2 DEF Arrays
    <2>3. Laid(z)
      <3>1. 0 .. M - 1 \subseteq 0 .. k - 1
        BY <1>6, <1>9
      <3>2. \A q \in 0 .. k - 1 : q >= M => q >= n
        BY <1>7, <1>9
      <3> QED
        BY <1>9, <1>10, <1>16, <1>17, <1>21, <3>1, <3>2 DEF Laid
    <2> QED
      BY <2>2, <2>3 DEF Layouts
  <1>23. ASSUME n <= Cutoff, NEW v \in Values
         PROVE  Count(y, 0, n, v) = Count(View(a), 0, a.length, v)
    <2>1. \A j \in DOMAIN r.sparse : j >= r.storageLength
      BY <1>1, <1>4, <1>5, <1>7, <1>8, <1>23
    <2>2. Count(h, o, n, v) = Count(Sparse(r), 0, MaxLength, v)
      BY <1>11, <1>12, <2>1 DEF TakenAll
    <2>3. Sparse(r) = Sparse(a)
      BY <1>5 DEF Sparse
    <2>4. Count(s, 0, o, v) = Count(a.storage, 0, m, v)
      BY <1>5
    <2>5. 0 \in Int /\ o \in Int /\ n \in Int /\ 0 <= o /\ o <= n
      BY <1>7
    <2>6. Count(y, 0, n, v) = Count(y, 0, o, v) + Count(y, o, n, v)
      BY ONLY <2>5, CountParts
    <2>7. Agree(y, s, 0, o)
      <3>1. ASSUME NEW q \in 0 .. o - 1 PROVE y[q] = s[q]
        <4>1. q \in 0 .. n - 1 /\ ~(o <= q /\ q < n)
          BY <1>7
        <4> QED
          BY <1>13, <1>19, <1>20, <4>1
      <3> QED
        BY <3>1 DEF Agree
    <2>8. Agree(y, h, o, n)
      <3>1. \A q \in o .. n - 1 : q \in 0 .. n - 1
        BY <1>7
      <3> QED
        BY <1>20, <3>1 DEF Agree
    <2>9. Count(y, 0, o, v) = Count(s, 0, o, v)
      BY ONLY <2>5, <2>7, CountSame
    <2>10. Count(y, o, n, v) = Count(h, o, n, v)
      BY ONLY <2>5, <2>8, CountSame
    <2>11. Count(View(a), 0, a.length, v)
             = Count(a.storage, 0, m, v) + Count(Sparse(a), 0, MaxLength, v)
      BY <1>1, ViewCounts
    <2> QED
      BY <2>2, <2>3, <2>4, <2>6, <2>9, <2>10, <2>11
  <1>24. Packed(a, z, n)
    BY <1>7, <1>9, <1>10, <1>16, <1>17, <1>20, <1>21, <1>22, <1>23 DEF Packed
  <1> QED
    BY <1>1, <1>2, <1>24

\* A sort leaves an array with a layout, of the same length; if all its elements
\* have room in the vector, they are in order.
LEMMA SortIs ==
    ASSUME NEW a \in Layouts, a.length <= MaxLength
    PROVE  /\ sort(a) \in Layouts /\ sort(a).length = a.length
           /\ DOMAIN sort(a).sparse = {}
           /\ Cardinality(InVector(a)) + Cardinality(DOMAIN a.sparse) <= Cutoff
                => InOrder(a, sort(a))
  <1>1. PICK p, z, n : p = pushUndefinedObjectsToEnd(a) /\ z = p.array /\ n = p.count
    OBVIOUS
  <1>2. Packed(a, z, n) /\ n = Cardinality(InVector(a)) + Cardinality(DOMAIN a.sparse)
    BY <1>1, PackedIs
  <1>3. PICK s, t, y, b : /\ s = [i \in 0 .. n - 1 |-> z.storage[i]] /\ t = Sorted(s)
                          /\ y = [i \in DOMAIN z.storage |-> IF i < n THEN t[i] ELSE z.storage[i]]
                          /\ b = [z EXCEPT !.storage = y]
    OBVIOUS
  <1>4. b = sort(a)
    BY <1>1, <1>3 DEF sort
  <1>5. /\ z \in Layouts /\ z.length = a.length /\ n \in Nat /\ n <= z.storageLength
        /\ DOMAIN z.sparse = {} /\ \A q \in 0 .. n - 1 : z.storage[q] \in Element
        /\ \A q \in DOMAIN z.storage : q >= n => z.storage[q] = Null
    BY <1>2 DEF Packed
  <1>6. PICK l, m, e : l = z.length /\ m = z.storageLength /\ e = z.sparse
    OBVIOUS
  <1>7. /\ z = [length |-> l, storage |-> z.storage, storageLength |-> m, sparse |-> e]
        /\ l \in Nat /\ m \in Nat /\ m <= l /\ e \in [{} -> Element] /\ DOMAIN e = {}
    <2>1. /\ z = [length |-> z.length, storage |-> z.storage,
                  storageLength |-> z.storageLength, sparse |-> z.sparse]
          /\ z.length \in Nat /\ z.storageLength \in Nat /\ z.storageLength <= z.length
          /\ z.sparse \in [DOMAIN z.sparse -> Element]
      BY <1>5, LayoutIs
    <2>2. e \in [DOMAIN e -> Element] /\ DOMAIN e = {}
      BY <1>5, <1>6, <2>1
    <2>3. e \in [{} -> Element]
      BY <2>2
    <2>4. l \in Nat /\ m \in Nat /\ m <= l
      BY <1>6, <2>1
    <2>5. z = [length |-> l, storage |-> z.storage, storageLength |-> m, sparse |-> e]
      BY <1>6, <2>1, Zenon
    <2> QED
      BY <2>2, <2>3, <2>4, <2>5
  <1>8. PICK c \in Nat : z.storage \in [0 .. c - 1 -> Cells] /\ m <= c
    BY <1>5, <1>6, LayoutIs
  <1>9. b = [length |-> l, storage |-> y, storageLength |-> m, sparse |-> e]
    <2>1. b = [z EXCEPT !.storage = y]
      BY <1>3
    <2>2. z = [length |-> l, storage |-> z.storage, storageLength |-> m, sparse |-> e]
      BY <1>7
    <2> QED
      BY ONLY <2>1, <2>2
  <1>10. s \in [0 .. n - 1 -> Element]
    BY <1>3, <1>5
  <1>11. SortedAs(s, t, n)
    BY <1>3, <1>5, <1>10, SortedIs
  <1>12. t \in [0 .. n - 1 -> Element]
    BY <1>11 DEF SortedAs
  <1>13. PICK w : w = [i \in Nat |-> IF i < n THEN t[i] ELSE Undefined]
    OBVIOUS
  <1>14. Undefined \in Element /\ Null \notin Element /\ Null \in Cells /\ Element \subseteq Cells
    BY SpecialAssumption DEF Element, Cells
  <1>15. n <= m
    BY <1>5, <1>6
  <1>16. ASSUME NEW i \in Nat
         PROVE  /\ i < n => w[i] = t[i] /\ t[i] \in Element
                /\ ~(i < n) => w[i] = Undefined
    <2>1. i < n => i \in 0 .. n - 1
      BY <1>5
    <2> QED
      BY <1>12, <1>13, <2>1
  <1>17. w \in [Nat -> Element]
    BY <1>13, <1>14, <1>16
  <1>18. ASSUME NEW i \in 0 .. c - 1
         PROVE  /\ i < n => y[i] = t[i] /\ t[i] \in Element
                /\ ~(i < n) => y[i] = Null
    <2>1. i \in DOMAIN z.storage /\ i \in Nat
      BY <1>8
    <2> QED
      BY <1>3, <1>5, <1>16, <2>1
  <1>19. y \in [0 .. c - 1 -> Cells] /\ DOMAIN y = 0 .. c - 1
    <2>1. DOMAIN z.storage = 0 .. c - 1
      BY <1>8
    <2> QED
      BY <1>3, <1>14, <1>18, <2>1
  <1>20. Stores(l, y, m, e, w)
    <2>1. \A i \in DOMAIN y : i >= m => y[i] = Null
      BY <1>5, <1>7, <1>15, <1>18, <1>19
    <2>2. ASSUME NEW i \in 0 .. m - 1
          PROVE  w[i] = IF y[i] = Null THEN Undefined ELSE y[i]
      <3>1. i \in 0 .. c - 1 /\ i \in Nat
        BY <1>7, <1>8
      <3> QED
        BY <1>14, <1>16, <1>18, <3>1
    <2>3. \A i \in Nat : i >= m /\ i \notin DOMAIN e => w[i] = Undefined
      BY <1>5, <1>7, <1>15, <1>16
    <2> QED
      BY <1>7, <1>8, <1>17, <1>19, <2>1, <2>2, <2>3 DEF Stores
  <1>21. b \in Layouts /\ View(b) = w /\ b.length = l /\ b.sparse = e
    BY <1>9, <1>20, LayoutShows
  <1>22. l = a.length
    BY <1>5, <1>6
  <1>23. ASSUME n <= Cutoff PROVE InOrder(a, b)
    <2>1. ASSUME NEW v \in Values
          PROVE  Count(w, 0, a.length, v) = Count(View(a), 0, a.length, v)
      <3>1. 0 \in Int /\ n \in Int /\ l \in Int /\ 0 <= n /\ n <= l
        BY <1>5, <1>7, <1>15
      <3>2. Count(w, 0, l, v) = Count(w, 0, n, v) + Count(w, n, l, v)
        BY ONLY <3>1, CountParts
      <3>3. \A i \in n .. l - 1 : w[i] # v
        <4>1. v # Undefined
          BY SpecialAssumption
        <4>2. \A i \in n .. l - 1 : i \in Nat /\ ~(i < n)
          BY <1>5, <1>7
        <4> QED
          BY <1>16, <4>1, <4>2
      <3>4. Count(w, n, l, v) = 0
        BY ONLY <3>1, <3>3, CountNone
      <3>5. Agree(w, t, 0, n) /\ Agree(s, z.storage, 0, n)
        <4>1. \A i \in 0 .. n - 1 : i \in Nat /\ i < n
          BY <1>5
        <4> QED
          BY <1>3, <1>16, <4>1 DEF Agree
      <3>6. Count(w, 0, n, v) = Count(t, 0, n, v)
        BY ONLY <3>1, <3>5, CountSame
      <3>7. Count(s, 0, n, v) = Count(z.storage, 0, n, v)
        BY ONLY <3>1, <3>5, CountSame
      <3>8. v \in Element
        BY DEF Element
      <3>9. Count(t, 0, n, v) = Count(s, 0, n, v)
        BY <1>11, <3>8 DEF SortedAs
      <3>10. Count(z.storage, 0, n, v) = Count(View(a), 0, a.length, v)
        BY <1>2, <1>23 DEF Packed
      <3>11. Count(w, 0, n, v) \in Nat
        BY ONLY <3>1, CountIs
      <3>12. Count(w, 0, l, v) = Count(w, 0, n, v)
        BY <3>2, <3>4, <3>11
      <3> QED
        BY <1>22, <3>6, <3>7, <3>9, <3>10, <3>12
    <2>2. ASSUME NEW i \in 0 .. a.length - 1, NEW j \in 0 .. a.length - 1, i < j
          PROVE  ~ Less(w[j], w[i])
      <3>1. i \in Nat /\ j \in Nat
        OBVIOUS
      <3>2. CASE j < n
        <4>1. i \in 0 .. n - 1 /\ j \in 0 .. n - 1 /\ i < n
          BY <1>5, <2>2, <3>1, <3>2
        <4>2. w[i] = t[i] /\ w[j] = t[j]
          BY <1>16, <3>1, <3>2, <4>1
        <4>3. ~ Less(t[j], t[i])
          BY <1>11, <2>2, <4>1 DEF SortedAs
        <4> QED
          BY <4>2, <4>3
      <3>3. CASE ~(j < n)
        <4>1. w[j] = Undefined
          BY <1>16, <3>1, <3>3
        <4> QED
          BY <4>1 DEF Less
      <3> QED
        BY <3>2, <3>3
    <2> QED
      BY <1>21, <1>22, <2>1, <2>2 DEF InOrder
  <1> QED
    BY <1>2, <1>4, <1>7, <1>21, <1>22, <1>23

\* The elements that the guard of Sort counts.
LEMMA SortCounts ==
    ASSUME NEW a \in Layouts, a.length <= MaxLength
    PROVE  Cardinality({i \in Indices : getProperty(a, i) # Null})
             = Cardinality(InVector(a)) + Cardinality(DOMAIN a.sparse)
  <1>1. PICK V, D, m, L : /\ V = InVector(a) /\ D = DOMAIN a.sparse
                          /\ m = a.storageLength /\ L = a.length
    OBVIOUS
  <1>2. /\ m \in Nat /\ L \in Nat /\ m <= L /\ D \subseteq Nat
        /\ a.sparse \in [D -> Element] /\ \A i \in D : i >= m /\ i < L
    BY <1>1, LayoutIs
  <1>3. /\ V \subseteq 0 .. m - 1 /\ IsFiniteSet(V) /\ IsFiniteSet(D)
        /\ \A i \in 0 .. m - 1 : a.storage[i] \in Cells /\ (i \in V <=> a.storage[i] \in Values)
    BY <1>1, InVectorIs
  <1>4. L <= MaxLength /\ MaxLength \in Nat /\ Null \notin Element /\ Null \notin Values
    BY <1>1, BoundsAssumption, SpecialAssumption DEF Element
  <1>5. ASSUME NEW i \in Indices PROVE getProperty(a, i) # Null <=> i \in V \cup D
    <2>1. i \in Nat
      BY <1>4 DEF Indices
    <2>2. CASE i >= L
      <3>1. i \notin V /\ i \notin D
        BY <1>2, <1>3, <2>1, <2>2
      <3>2. getProperty(a, i) = Null
        BY <1>1, <2>2 DEF getProperty
      <3> QED
        BY <3>1, <3>2
    <2>3. CASE ~(i >= L) /\ i < m
      <3>1. i \in 0 .. m - 1 /\ i \notin D
        BY <1>2, <2>1, <2>3
      <3>2. getProperty(a, i) = IF a.storage[i] = Undefined THEN Null ELSE a.storage[i]
        BY <1>1, <2>3 DEF getProperty
      <3>3. Undefined \notin Values
        BY SpecialAssumption
      <3>4. PICK x : x = a.storage[i]
        OBVIOUS
      <3>5. x \in Values \/ x = Undefined \/ x = Null
        BY <1>3, <3>1, <3>4 DEF Cells, Element
      <3>6. i \in V <=> x \in Values
        BY <1>3, <3>1, <3>4
      <3>7. getProperty(a, i) # Null <=> x \in Values
        BY <1>4, <3>2, <3>3, <3>4, <3>5
      <3> QED
        BY <3>1, <3>6, <3>7, Zenon
    <2>4. CASE ~(i >= L) /\ ~(i < m)
      <3>1. i \notin V
        <4>1. i \in V => i \in 0 .. m - 1
          BY <1>3
        <4> QED
          BY <1>2, <2>1, <2>4, <4>1
      <3>2. getProperty(a, i) = IF i \in D THEN a.sparse[i] ELSE Null
        BY <1>1, <2>4 DEF getProperty
      <3>3. i \in D => a.sparse[i] \in Element
        BY <1>2
      <3> QED
        BY <1>4, <3>1, <3>2, <3>3
    <2> QED
      BY <2>2, <2>3, <2>4
  <1>6. V \cup D \subseteq Indices
    <2>1. ASSUME NEW i \in V PROVE i \in 0 .. MaxLength - 1
      <3>1. i \in 0 .. m - 1
        BY <1>3
      <3> QED
        BY <1>2, <1>4, <3>1
    <2>2. ASSUME NEW i \in D PROVE i \in 0 .. MaxLength - 1
      <3>1. i \in Nat /\ i < L
        BY <1>2
      <3> QED
        BY <1>2, <1>4, <3>1
    <2> QED
      BY <2>1, <2>2 DEF Indices
  <1>7. {i \in Indices : getProperty(a, i) # Null} = V \cup D
    BY <1>5, <1>6
  <1>8. V \cap D = {}
    BY <1>2, <1>3
  <1>9. Cardinality(V \cup D) = Cardinality(V) + Cardinality(D) - Cardinality(V \cap D)
    BY <1>3, FS_Union
  <1>10. Cardinality(V \cap D) = 0 /\ Cardinality(V) \in Nat /\ Cardinality(D) \in Nat
    BY <1>3, <1>8, FS_EmptySet, FS_CardinalityType
  <1>11. Cardinality(V \cup D) = Cardinality(V) + Cardinality(D)
    BY <1>9, <1>10
  <1> QED
    BY <1>1, <1>7, <1>11

------------------------------------------------------------------------------
(* The specification: the array starts with a layout and keeps one.        *)

\* The inductive invariant.
IInv == array \in Layouts /\ array.length <= MaxLength

LEMMA ListIs ==
    ASSUME NEW n \in Nat, NEW s
    PROVE  s \in Lists(n) <=> s \in Seq(Element) /\ Len(s) <= n
  <1>1. ASSUME s \in Lists(n) PROVE s \in Seq(Element) /\ Len(s) <= n
    <2>1. PICK m \in 0 .. n : s \in [1 .. m -> Element]
      BY <1>1 DEF Lists
    <2> QED
      BY <2>1
  <1>2. ASSUME s \in Seq(Element), Len(s) <= n PROVE s \in Lists(n)
    <2>1. Len(s) \in 0 .. n /\ s \in [1 .. Len(s) -> Element]
      BY <1>2
    <2> QED
      BY <2>1 DEF Lists
  <1> QED
    BY <1>1, <1>2

\* The two modules speak of the same lists.
LEMMA SameLists == \A n : Ecma!Lists(n) = Lists(n)
  BY DEF Lists, Ecma!Lists, Element, Ecma!Element

LEMMA StartIs ==
    /\ \A n \in Nat : ofLength(n) \in Layouts /\ ofLength(n).length = n
    /\ \A s \in Seq(Element) : ofList(s) \in Layouts /\ ofList(s).length = Len(s)
  <1>1. ASSUME NEW n \in Nat PROVE ofLength(n) \in Layouts /\ ofLength(n).length = n
    <2>1. PICK m, t, p : /\ m = (IF n < Cutoff THEN n ELSE 0)
                         /\ t = [i \in 0 .. m - 1 |-> Null] /\ p = <<>>
      OBVIOUS
    <2>2. m \in Nat /\ m <= n
      BY <2>1
    <2>3. ofLength(n) = [length |-> n, storage |-> t, storageLength |-> m, sparse |-> p]
      BY <2>1 DEF ofLength, Cleared
    <2>4. DOMAIN p = {} /\ p = [i \in {} |-> Undefined]
      BY <2>1
    <2>5. PICK w : w = [i \in Nat |-> Undefined]
      OBVIOUS
    <2>6. w \in [Nat -> Element] /\ \A i \in Nat : w[i] = Undefined
      BY <2>5 DEF Element
    <2>7. t \in [0 .. m - 1 -> Cells] /\ \A i \in 0 .. m - 1 : t[i] = Null /\ i \in Nat
      BY <2>1, <2>2 DEF Cells
    <2>8. Stores(n, t, m, p, w)
      <3>1. \E c \in Nat : t \in [0 .. c - 1 -> Cells] /\ m <= c
        BY <2>2, <2>7
      <3>2. DOMAIN t = 0 .. m - 1 /\ p \in [DOMAIN p -> Element]
        BY <2>4, <2>7
      <3>3. \A i \in 0 .. m - 1 : w[i] = IF t[i] = Null THEN Undefined ELSE t[i]
        BY <2>6, <2>7
      <3>4. \A i \in DOMAIN t : i >= m => t[i] = Null
        BY <2>7, <3>2
      <3> QED
        BY <2>2, <2>4, <2>6, <3>1, <3>2, <3>3, <3>4 DEF Stores
    <2>9. \A a : a = [length |-> n, storage |-> t, storageLength |-> m, sparse |-> p]
                    => a \in Layouts /\ a.length = n
      BY ONLY <2>8, LayoutShows
    <2> QED
      BY <2>3, <2>9
  <1>2. ASSUME NEW s \in Seq(Element) PROVE ofList(s) \in Layouts /\ ofList(s).length = Len(s)
    <2>1. PICK n, t, p : n = Len(s) /\ t = [i \in 0 .. n - 1 |-> s[i + 1]] /\ p = <<>>
      OBVIOUS
    <2>2. n \in Nat
      BY <2>1
    <2>3. ofList(s) = [length |-> n, storage |-> t, storageLength |-> n, sparse |-> p]
      BY <2>1 DEF ofList
    <2>4. DOMAIN p = {} /\ p = [i \in {} |-> Undefined]
      BY <2>1
    <2>5. PICK w : w = [i \in Nat |-> IF i < n THEN s[i + 1] ELSE Undefined]
      OBVIOUS
    <2>6. \A i \in 0 .. n - 1 : s[i + 1] \in Element
      <3>1. \A i \in 0 .. n - 1 : i + 1 \in 1 .. n
        BY <2>2
      <3> QED
        BY <2>1, <3>1
    <2>7. ASSUME NEW i \in Nat
          PROVE  /\ i < n => w[i] = s[i + 1] /\ w[i] \in Element
                 /\ ~(i < n) => w[i] = Undefined
      <3>1. i < n => i \in 0 .. n - 1
        BY <2>2
      <3> QED
        BY <2>5, <2>6, <3>1
    <2>8. w \in [Nat -> Element]
      <3>1. \A i \in Nat : w[i] \in Element
        BY <2>7 DEF Element
      <3> QED
        BY <2>5, <3>1
    <2>9. t \in [0 .. n - 1 -> Cells] /\ \A i \in 0 .. n - 1 : t[i] = s[i + 1]
      BY <2>1, <2>6 DEF Cells
    <2>10. Stores(n, t, n, p, w)
      <3>1. \E c \in Nat : t \in [0 .. c - 1 -> Cells] /\ n <= c
        BY <2>2, <2>9
      <3>2. DOMAIN t = 0 .. n - 1 /\ p \in [DOMAIN p -> Element]
        BY <2>4, <2>9
      <3>3. ASSUME NEW i \in 0 .. n - 1 PROVE w[i] = IF t[i] = Null THEN Undefined ELSE t[i]
        <4>1. i \in Nat /\ i < n /\ Null \notin Element
          BY <2>2, SpecialAssumption DEF Element
        <4> QED
          BY <2>6, <2>7, <2>9, <4>1
      <3>4. \A i \in DOMAIN t : i >= n => t[i] = Null
        BY <2>2, <3>2
      <3>5. \A i \in Nat : i >= n => w[i] = Undefined
        BY <2>2, <2>7
      <3>6. n <= n
        BY <2>2
      <3> QED
        BY <2>2, <2>4, <2>8, <3>1, <3>2, <3>3, <3>4, <3>5, <3>6 DEF Stores
    <2>11. \A a : a = [length |-> n, storage |-> t, storageLength |-> n, sparse |-> p]
                    => a \in Layouts /\ a.length = n
      BY ONLY <2>10, LayoutShows
    <2> QED
      BY <2>1, <2>3, <2>11
  <1> QED
    BY <1>1, <1>2

LEMMA InitInv ==
    ASSUME Init
    PROVE  IInv /\ Ecma!Init
  <1>1. IInv
    <2>1. CASE \E n \in 0 .. MaxLength : array = ofLength(n)
      <3>1. PICK n \in 0 .. MaxLength : array = ofLength(n)
        BY <2>1
      <3>2. n \in Nat /\ n <= MaxLength
        BY BoundsAssumption
      <3> QED
        BY <3>1, <3>2, StartIs DEF IInv
    <2>2. CASE \E s \in Lists(MaxLength) : array = ofList(s)
      <3>1. PICK s \in Lists(MaxLength) : array = ofList(s)
        BY <2>2
      <3>2. s \in Seq(Element) /\ Len(s) <= MaxLength
        BY ListIs, BoundsAssumption
      <3> QED
        BY <3>1, <3>2, StartIs DEF IInv
    <2> QED
      BY <2>1, <2>2 DEF Init
  <1>2. Elements(array) \in Lists(MaxLength)
    <2>1. PICK s : s = Elements(array)
      OBVIOUS
    <2>2. s \in Seq(Element) /\ Len(s) = array.length
      BY <1>1, <2>1, ElementsType DEF IInv
    <2>3. Len(s) <= MaxLength
      BY <1>1, <2>2 DEF IInv
    <2> QED
      BY <2>1, <2>2, <2>3, ListIs, BoundsAssumption
  <1>3. Elements(array) \in Ecma!Lists(MaxLength)
    BY <1>2, SameLists
  <1> QED
    BY <1>1, <1>3 DEF Ecma!Init

------------------------------------------------------------------------------
(* Every action keeps the invariant, and is a step of EcmaArray.           *)

\* The new array has the elements t.
Becomes(t) == Has(array', t) /\ Len(t) <= MaxLength

LEMMA BecomesInv ==
    ASSUME NEW t, Becomes(t)
    PROVE  IInv' /\ Elements(array') = t
  BY DEF Becomes, Has, IInv

LEMMA DeleteStep ==
    ASSUME IInv, NEW i \in Indices, Delete(i)
    PROVE  IInv' /\ Ecma!Next
  <1>1. PICK t : t = Ecma!Emptied(Elements(array), i)
    OBVIOUS
  <1>2. i \in Nat /\ i \in 0 .. MaxLength - 1 /\ array \in Layouts
    BY DEF Indices, IInv
  <1>3. Has(array', t) /\ array'.length = array.length
    BY <1>1, <1>2, DeleteElements, DeleteIs DEF Delete
  <1>4. Becomes(t)
    BY <1>3 DEF Becomes, Has, IInv
  <1>5. IInv' /\ Elements(array') = t
    BY <1>4, BecomesInv
  <1> QED
    BY <1>1, <1>2, <1>5 DEF Ecma!Next

LEMMA PutStep ==
    ASSUME IInv, NEW i \in Indices, NEW v \in Element, Put(i, v)
    PROVE  IInv' /\ Ecma!Next
  <1>1. PICK t : t = Ecma!Assigned(Elements(array), i, v)
    OBVIOUS
  <1>2. /\ i \in Nat /\ i \in 0 .. MaxLength - 1 /\ i + 1 <= MaxLength /\ array \in Layouts
        /\ v \in Ecma!Element
    BY BoundsAssumption DEF Indices, IInv, Element, Ecma!Element
  <1>3. Has(array', t) /\ array'.length = IF i < array.length THEN array.length ELSE i + 1
    BY <1>1, <1>2, PutElements, PutIs DEF Put
  <1>4. Becomes(t)
    BY <1>2, <1>3 DEF Becomes, Has, IInv
  <1>5. IInv' /\ Elements(array') = t
    BY <1>4, BecomesInv
  <1> QED
    BY <1>1, <1>2, <1>5 DEF Ecma!Next

\* An assignment to the length, whichever function makes it.
LEMMA LengthStep ==
    ASSUME IInv, NEW n \in 0 .. MaxLength, n \notin DOMAIN array.sparse,
           array' = setLength(array, n)
    PROVE  IInv' /\ Ecma!Next
  <1>1. PICK t : t = Ecma!WithLength(Elements(array), n)
    OBVIOUS
  <1>2. n \in Nat /\ n <= MaxLength /\ array \in Layouts
    BY BoundsAssumption DEF IInv
  <1>3. Has(array', t) /\ array'.length = n
    BY <1>1, <1>2, SetLengthElements, SetLengthIs
  <1>4. Becomes(t)
    BY <1>2, <1>3 DEF Becomes, Has
  <1>5. IInv' /\ Elements(array') = t
    BY <1>4, BecomesInv
  <1> QED
    BY <1>1, <1>5 DEF Ecma!Next

\* What the guard of an assignment to length promises.
LEMMA MayCutIs ==
    ASSUME array \in Layouts, ~ CutsAtElement, NEW n, MayCut(n)
    PROVE  n \notin DOMAIN array.sparse
  <1>1. array.length \in Nat /\ \A i \in DOMAIN array.sparse : i < array.length /\ i \in Nat
    BY LayoutIs
  <1> QED
    BY <1>1 DEF MayCut

LEMMA SetLengthStep ==
    ASSUME IInv, ~ CutsAtElement, NEW n \in 0 .. MaxLength, SetLength(n)
    PROVE  IInv' /\ Ecma!Next
  <1>1. n \notin DOMAIN array.sparse
    BY MayCutIs DEF SetLength, IInv
  <1> QED
    BY <1>1, LengthStep DEF SetLength

LEMMA PopStep ==
    ASSUME IInv, ~ CutsAtElement, Pop
    PROVE  IInv' /\ Ecma!Next
  <1>1. PICK n : n = IF array.length = 0 THEN 0 ELSE array.length - 1
    OBVIOUS
  <1>2. /\ array.length \in Nat /\ array.length <= MaxLength /\ array \in Layouts
        /\ \A i \in DOMAIN array.sparse : i < array.length /\ i \in Nat
    BY LayoutIs DEF IInv
  <1>3. n \in 0 .. MaxLength /\ array' = setLength(array, n)
    BY <1>1, <1>2, BoundsAssumption DEF Pop, pop
  <1>4. n \notin DOMAIN array.sparse
    <2>1. CASE array.length = 0
      BY <1>1, <1>2, <2>1
    <2>2. CASE array.length # 0
      BY <1>1, <1>2, <2>2, MayCutIs DEF Pop
    <2> QED
      BY <2>1, <2>2
  <1> QED
    BY <1>3, <1>4, LengthStep

LEMMA ShiftStep ==
    ASSUME IInv, array' = shift(array)
    PROVE  IInv' /\ Ecma!Next
  <1>1. /\ array.length \in Nat /\ array.length <= MaxLength /\ array \in Layouts
        /\ \A i \in DOMAIN array.sparse : i < array.length /\ i \in Nat
    BY LayoutIs DEF IInv
  <1>2. CASE array.length = 0
    <2>1. 0 \in 0 .. MaxLength /\ 0 \notin DOMAIN array.sparse
      BY <1>1, <1>2, BoundsAssumption
    <2>2. array' = setLength(array, 0)
      BY <1>2 DEF shift
    <2> QED
      BY <2>1, <2>2, LengthStep
  <1>3. CASE array.length # 0
    <2>1. PICK s, t : s = Elements(array) /\ t = Ecma!Spliced(s, 0, 1, <<>>)
      OBVIOUS
    <2>2. Has(array', t) /\ t = Tail(s)
      BY <1>1, <1>3, <2>1, ShiftIs
    <2>3. s \in Seq(Element) /\ Len(s) = array.length
      BY <1>1, <2>1, ElementsType
    <2>4. Len(t) = Len(s) - 1
      <3>1. s # <<>>
        BY <1>3, <2>3
      <3> QED
        BY <2>2, <2>3, <3>1
    <2>5. Becomes(t)
      BY <1>1, <2>2, <2>3, <2>4, BoundsAssumption DEF Becomes
    <2>6. IInv' /\ Elements(array') = t
      BY <2>5, BecomesInv
    <2>7. /\ 0 \in 0 .. MaxLength /\ 1 \in 0 .. MaxLength /\ 0 + 1 <= Len(s)
          /\ Len(s) - 1 + Len(<<>>) <= MaxLength
      BY <1>1, <1>3, <2>3, BoundsAssumption
    <2>8. <<>> \in Ecma!Lists(MaxArgs)
      <3>1. <<>> \in Seq(Element) /\ Len(<<>>) = 0 /\ 0 <= MaxArgs
        BY BoundsAssumption
      <3> QED
        BY <3>1, ListIs, SameLists, BoundsAssumption
    <2>9. Ecma!Splice(0, 1, <<>>)
      BY <2>1, <2>6, <2>7 DEF Ecma!Splice
    <2> QED
      BY <2>6, <2>7, <2>8, <2>9 DEF Ecma!Next
  <1> QED
    BY <1>2, <1>3

LEMMA ReverseStep ==
    ASSUME IInv, array' = reverse(array)
    PROVE  IInv' /\ Ecma!Next
  <1>1. PICK s, t : s = Elements(array) /\ t = Ecma!Reverse(s)
    OBVIOUS
  <1>2. array \in Layouts /\ array.length <= MaxLength
    BY DEF IInv
  <1>3. Has(array', t)
    BY <1>1, <1>2, ReverseElements
  <1>4. array'.length = array.length
    BY <1>2, ReverseIs
  <1>5. Becomes(t)
    BY <1>2, <1>3, <1>4 DEF Becomes, Has
  <1>6. IInv' /\ Elements(array') = t
    BY <1>5, BecomesInv
  <1> QED
    BY <1>1, <1>6 DEF Ecma!Next

\* All the elements have room in the vector when it is sorted.
LEMMA SortStep ==
    ASSUME IInv, Sort
    PROVE  IInv' /\ (MaxSorted <= Cutoff => InOrder(array, array') /\ Ecma!Next)
  <1>1. array \in Layouts /\ array.length <= MaxLength /\ array' = sort(array)
    BY DEF IInv, Sort
  <1>2. PICK n : n = Cardinality(InVector(array)) + Cardinality(DOMAIN array.sparse)
    OBVIOUS
  <1>3. /\ array' \in Layouts /\ array'.length = array.length
        /\ n <= Cutoff => InOrder(array, array')
    BY <1>1, <1>2, SortIs
  <1>4. n <= MaxSorted
    BY <1>1, <1>2, SortCounts DEF Sort
  <1>5. n \in Nat
    <2>1. Cardinality(InVector(array)) \in Nat /\ Cardinality(DOMAIN array.sparse) \in Nat
      BY <1>1, InVectorIs
    <2> QED
      BY <1>2, <2>1
  <1>6. ASSUME MaxSorted <= Cutoff PROVE InOrder(array, array') /\ Ecma!Next
    <2>1. InOrder(array, array')
      BY <1>3, <1>4, <1>5, <1>6, BoundsAssumption
    <2>2. Ecma!Orders(Elements(array), Elements(array'))
      BY <1>1, <2>1, InOrderElements
    <2> QED
      BY <2>1, <2>2 DEF Ecma!Next
  <1> QED
    BY <1>1, <1>3, <1>6 DEF IInv

\* push, unshift and splice.
LEMMA SpliceStep ==
    ASSUME IInv, NEW begin \in 0 .. MaxLength, NEW count \in 0 .. MaxLength,
           NEW args \in Lists(MaxArgs), begin + count <= array.length,
           array.length - count + Len(args) <= MaxLength,
           Has(array', Ecma!Spliced(Elements(array), begin, count, args))
    PROVE  IInv' /\ Ecma!Next
  <1>1. PICK s, t : s = Elements(array) /\ t = Ecma!Spliced(s, begin, count, args)
    OBVIOUS
  <1>2. s \in Seq(Element) /\ Len(s) = array.length /\ array.length \in Nat
    BY <1>1, ElementsType DEF IInv
  <1>3. args \in Seq(Element) /\ begin \in Nat /\ count \in Nat
    BY ListIs, BoundsAssumption
  <1>4. Splices(s, begin, count, args, t)
    BY <1>1, <1>2, <1>3, SplicedIs
  <1>5. Becomes(t)
    BY <1>1, <1>2, <1>4 DEF Becomes, Splices
  <1>6. IInv' /\ Elements(array') = t
    BY <1>5, BecomesInv
  <1>7. Ecma!Splice(begin, count, args)
    BY <1>1, <1>2, <1>6 DEF Ecma!Splice
  <1>8. args \in Ecma!Lists(MaxArgs)
    BY SameLists
  <1> QED
    BY <1>6, <1>7, <1>8 DEF Ecma!Next

LEMMA ArgsStep ==
    ASSUME IInv, NEW args \in Lists(MaxArgs),
           \/ Push(args) \/ Unshift(args)
           \/ \E begin, count \in 0 .. MaxLength : Splice(begin, count, args)
    PROVE  IInv' /\ Ecma!Next
  <1>1. /\ array \in Layouts /\ array.length \in Nat /\ array.length <= MaxLength
        /\ args \in Seq(Element) /\ Len(args) \in Nat
    BY LayoutIs, ListIs, BoundsAssumption DEF IInv
  <1>2. CASE Push(args)
    <2>1. Has(array', Ecma!Spliced(Elements(array), array.length, 0, args))
      BY <1>1, <1>2, PushIs DEF Push
    <2>2. /\ array.length \in 0 .. MaxLength /\ 0 \in 0 .. MaxLength
          /\ array.length + 0 <= array.length
          /\ array.length - 0 + Len(args) <= MaxLength
      BY <1>1, <1>2, BoundsAssumption DEF Push, RoomFor
    <2> QED
      BY <2>1, <2>2, SpliceStep
  <1>3. CASE Unshift(args)
    <2>1. Has(array', Ecma!Spliced(Elements(array), 0, 0, args))
      BY <1>1, <1>3, UnshiftIs DEF Unshift
    <2>2. /\ 0 \in 0 .. MaxLength /\ 0 + 0 <= array.length
          /\ array.length - 0 + Len(args) <= MaxLength
      BY <1>1, <1>3, BoundsAssumption DEF Unshift, RoomFor
    <2> QED
      BY <2>1, <2>2, SpliceStep
  <1>4. CASE \E begin, count \in 0 .. MaxLength : Splice(begin, count, args)
    <2>1. PICK begin \in 0 .. MaxLength, count \in 0 .. MaxLength : Splice(begin, count, args)
      BY <1>4
    <2>2. /\ begin \in Nat /\ count \in Nat /\ begin + count <= array.length
          /\ array' = splice(array, begin, count, args)
          /\ array.length + (Len(args) - count) <= MaxLength
      BY <2>1, BoundsAssumption DEF Splice, RoomFor
    <2>3. Has(array', Ecma!Spliced(Elements(array), begin, count, args))
      BY <1>1, <2>2, SpliceIs
    <2>4. array.length - count + Len(args) <= MaxLength
      BY <1>1, <2>2, BoundsAssumption
    <2> QED
      BY <2>2, <2>3, <2>4, SpliceStep
  <1> QED
    BY <1>2, <1>3, <1>4

LEMMA NextInv ==
    ASSUME IInv, ~ CutsAtElement, [Next]_array
    PROVE  IInv' /\ (MaxSorted <= Cutoff => [Ecma!Next]_(Elements(array)))
  <1>1. CASE UNCHANGED array
    <2>1. UNCHANGED Elements(array)
      BY <1>1
    <2> QED
      BY <1>1, <2>1 DEF IInv
  <1>2. CASE Sort
    BY <1>2, SortStep
  <1>3. CASE \E i \in Indices : Delete(i) \/ \E v \in Element : Put(i, v)
    BY <1>3, DeleteStep, PutStep
  <1>4. CASE \E n \in 0 .. MaxLength : SetLength(n)
    BY <1>4, SetLengthStep
  <1>5. CASE Pop \/ array' = shift(array) \/ array' = reverse(array)
    BY <1>5, PopStep, ShiftStep, ReverseStep
  <1>6. CASE \E args \in Lists(MaxArgs) :
                \/ Push(args) \/ Unshift(args)
                \/ \E begin, count \in 0 .. MaxLength : Splice(begin, count, args)
    BY <1>6, ArgsStep
  <1> QED
    BY <1>1, <1>2, <1>3, <1>4, <1>5, <1>6 DEF Next

\* The array always has a layout, whatever is done to it and in whatever order:
\* put, deleteProperty, setLength and the functions of Array.prototype.  The
\* hypothesis leaves out the one call that breaks it: a length set to the index
\* of an element that is a property.
THEOREM Invariance == ASSUME ~ CutsAtElement PROVE Spec => []IInv
  <1>1. Init => IInv
    BY InitInv
  <1>2. IInv /\ [Next]_array => IInv'
    BY NextInv
  <1> QED
    BY <1>1, <1>2, PTL DEF Spec

\* Under any sequence of the operations of kjs/array_object.cpp, for any values,
\* lengths and cutoff, the array behaves like the sequence of its elements; it is
\* never seen which of them are in the vector.  The hypotheses leave out the two
\* calls for which this is not so: a length set to the index of a property, and a
\* sort of more elements than the vector has room for.
THEOREM ArraysImplementEcma ==
    ASSUME ~ CutsAtElement, MaxSorted <= Cutoff
    PROVE  Spec => ImplementsEcmaArray
  <1>1. Init => Ecma!Init
    BY InitInv
  <1>2. IInv /\ [Next]_array => [Ecma!Next]_(Elements(array))
    BY NextInv
  <1> QED
    BY <1>1, <1>2, Invariance, PTL DEF Spec, ImplementsEcmaArray, Ecma!Spec

------------------------------------------------------------------------------
(* What the invariant says.                                                *)

LEMMA InvTypes ==
    ASSUME IInv
    PROVE  TypeOK
  <1>1. array \in Layouts /\ array.length <= MaxLength
    BY DEF IInv
  <1>2. /\ array.length \in Nat /\ array.storageLength \in Nat
        /\ DOMAIN array.sparse \subseteq Nat /\ array.sparse \in [DOMAIN array.sparse -> Element]
        /\ \A i \in DOMAIN array.sparse : i < array.length
    BY <1>1, LayoutIs
  <1>3. PICK c \in Nat : /\ array.storage \in [0 .. c - 1 -> Cells] /\ capacity(array) = c
                         /\ array.storageLength <= c
    BY <1>1, LayoutIs
  <1>4. array.length \in 0 .. MaxLength /\ array.storageLength \in 0 .. capacity(array)
    BY <1>1, <1>2, <1>3, BoundsAssumption
  <1>5. array.storage \in [0 .. capacity(array) - 1 -> Element \cup {Null}]
    BY <1>3 DEF Cells
  <1>6. DOMAIN array.sparse \subseteq Indices
    <2>1. ASSUME NEW i \in DOMAIN array.sparse PROVE i \in 0 .. MaxLength - 1
      BY <1>1, <1>2, BoundsAssumption
    <2> QED
      BY <2>1 DEF Indices
  <1>7. \A i \in DOMAIN array.sparse : array.sparse[i] \in Element
    BY <1>2
  <1> QED
    BY <1>4, <1>5, <1>6, <1>7 DEF TypeOK

\* The fields of ArrayInstance keep their types, and the vector its capacity.
THEOREM ArrayTypes == ASSUME ~ CutsAtElement PROVE Spec => []TypeOK
  BY Invariance, InvTypes, PTL

LEMMA InvLayout ==
    ASSUME IInv
    PROVE  StorageLayout
  <1>1. array \in Layouts
    BY DEF IInv
  <1>2. /\ array.length \in Nat /\ array.storageLength \in Nat
        /\ array.storageLength <= array.length /\ Cutoff \in Nat
        /\ \A i \in DOMAIN array.sparse :
            i \in Nat /\ i >= Cutoff /\ i >= array.storageLength /\ i < array.length
        /\ \A i \in DOMAIN array.storage : i >= array.storageLength => array.storage[i] = Null
    BY <1>1, LayoutIs
  <1>3. LengthAboveIndices
    <2>1. \A i \in Indices : i \in Int
      BY DEF Indices
    <2> QED
      BY <1>2, <2>1 DEF LengthAboveIndices
  <1>4. \A i \in DOMAIN array.sparse : i >= Max({Cutoff, array.storageLength})
    <2>1. Max({Cutoff, array.storageLength}) \in {Cutoff, array.storageLength}
      <3>1. Cutoff \in Int /\ array.storageLength \in Int
        BY <1>2
      <3> QED
        BY <3>1, LargerIs
    <2> QED
      BY <1>2, <2>1
  <1>5. ASSUME NEW i \in array.storageLength .. capacity(array) - 1 PROVE array.storage[i] = Null
    <2>1. PICK c \in Nat : /\ array.storage \in [0 .. c - 1 -> Cells] /\ capacity(array) = c
      BY <1>1, LayoutIs
    <2>2. i \in 0 .. c - 1 /\ i >= array.storageLength
      BY <1>2, <2>1
    <2>3. i \in DOMAIN array.storage
      BY <2>1, <2>2
    <2> QED
      BY <1>2, <2>2, <2>3
  <1> QED
    BY <1>2, <1>3, <1>4, <1>5 DEF StorageLayout

\* The vector and the properties of an ArrayInstance do not overlap, nothing is
\* above the length, and the spare cells of the vector are clear.
THEOREM ArrayStorage == ASSUME ~ CutsAtElement PROVE Spec => []StorageLayout
  BY Invariance, InvLayout, PTL

\* push and unshift are splices at the end and at the front.
LEMMA EndsAre ==
    ASSUME NEW s \in Seq(Element), NEW args \in Seq(Element)
    PROVE  /\ Ecma!Spliced(s, Len(s), 0, args) = s \o args
           /\ Ecma!Spliced(s, 0, 0, args) = args \o s
  <1>1. PICK n, k : n = Len(s) /\ k = Len(args)
    OBVIOUS
  <1>2. n \in Nat /\ k \in Nat
    BY <1>1
  <1>3. Ecma!Spliced(s, n, 0, args) = s \o args
    <2>1. PICK t, u : t = Ecma!Spliced(s, n, 0, args) /\ u = s \o args
      OBVIOUS
    <2>2. Splices(s, n, 0, args, t)
      BY <1>1, <1>2, <2>1, SplicedIs
    <2>3. /\ u \in Seq(Element) /\ Len(u) = n + k
          /\ \A i \in 1 .. Len(u) : u[i] = IF i <= n THEN s[i] ELSE args[i - n]
      BY <1>1, <2>1, JoinIs
    <2>4. t \in Seq(Element) /\ Len(t) = n + k
      BY <1>1, <1>2, <2>2 DEF Splices
    <2>5. ASSUME NEW i \in 1 .. n + k PROVE t[i] = u[i]
      <3>1. PICK j : j = i - 1
        OBVIOUS
      <3>2. j \in 0 .. Len(t) - 1 /\ j + 1 = i /\ i \in 1 .. Len(u)
        BY <1>2, <2>3, <2>4, <3>1
      <3>3. t[j + 1] = IF j < n THEN s[j + 1] ELSE IF j < n + k THEN args[j - n + 1]
                       ELSE s[(j - k + 0) + 1]
        BY <1>1, <2>2, <3>2 DEF Splices
      <3>4. j < n + k /\ (j < n <=> i <= n) /\ j - n + 1 = i - n
        BY <1>2, <3>1
      <3> QED
        BY <2>3, <3>2, <3>3, <3>4
    <2>6. t = u
      BY ONLY <1>2, <2>3, <2>4, <2>5
    <2> QED
      BY <2>1, <2>6
  <1>4. Ecma!Spliced(s, 0, 0, args) = args \o s
    <2>1. PICK t, u : t = Ecma!Spliced(s, 0, 0, args) /\ u = args \o s
      OBVIOUS
    <2>2. Splices(s, 0, 0, args, t)
      BY <1>1, <1>2, <2>1, SplicedIs
    <2>3. /\ u \in Seq(Element) /\ Len(u) = k + n
          /\ \A i \in 1 .. Len(u) : u[i] = IF i <= k THEN args[i] ELSE s[i - k]
      BY <1>1, <2>1, JoinIs
    <2>4. t \in Seq(Element) /\ Len(t) = k + n
      BY <1>1, <1>2, <2>2 DEF Splices
    <2>5. ASSUME NEW i \in 1 .. k + n PROVE t[i] = u[i]
      <3>1. PICK j : j = i - 1
        OBVIOUS
      <3>2. j \in 0 .. Len(t) - 1 /\ j + 1 = i /\ i \in 1 .. Len(u)
        BY <1>2, <2>3, <2>4, <3>1
      <3>3. t[j + 1] = IF j < 0 THEN s[j + 1] ELSE IF j < 0 + k THEN args[j - 0 + 1]
                       ELSE s[(j - k + 0) + 1]
        BY <1>1, <2>2, <3>2 DEF Splices
      <3>4. /\ ~(j < 0) /\ (j < 0 + k <=> i <= k) /\ j - 0 + 1 = i
            /\ (j - k + 0) + 1 = i - k
        BY <1>2, <3>1
      <3> QED
        BY <2>3, <3>2, <3>3, <3>4
    <2>6. t = u
      BY ONLY <1>2, <2>3, <2>4, <2>5
    <2> QED
      BY <2>1, <2>6
  <1> QED
    BY <1>1, <1>3, <1>4

LEMMA InvMethods ==
    ASSUME IInv
    PROVE  MethodsExact
  <1>1. PICK s, n : s = Elements(array) /\ n = array.length
    OBVIOUS
  <1>2. array \in Layouts
    BY DEF IInv
  <1>3. s \in Seq(Element) /\ Len(s) = n /\ n \in Nat /\ (s = <<>> <=> n = 0)
    <2>1. s \in Seq(Element) /\ Len(s) = n /\ n \in Nat
      BY <1>1, <1>2, ElementsType
    <2> QED
      BY <2>1
  <1>4. Elements(reverse(array)) = Reverse(s)
    BY <1>1, <1>2, ReverseElements DEF Has
  <1>5. Elements(shift(array)) = IF s = <<>> THEN s ELSE Tail(s)
    <2>1. CASE n = 0
      <3>1. 0 \notin DOMAIN array.sparse /\ shift(array) = setLength(array, 0)
        <4>1. \A i \in DOMAIN array.sparse : i < array.length /\ i \in Nat
          BY <1>2, LayoutIs
        <4> QED
          BY <1>1, <2>1, <4>1 DEF shift
      <3>2. setLength(array, 0).length = 0 /\ setLength(array, 0) \in Layouts
        BY <1>2, <3>1, SetLengthIs
      <3>3. PICK t : t = Elements(shift(array))
        OBVIOUS
      <3>4. t \in Seq(Element) /\ Len(t) = 0
        BY <3>1, <3>2, <3>3, ElementsType
      <3>5. t = <<>>
        BY <3>4
      <3> QED
        BY <1>3, <2>1, <3>3, <3>5
    <2>2. CASE n # 0
      BY <1>1, <1>2, <1>3, <2>2, ShiftIs DEF Has
    <2> QED
      BY <2>1, <2>2
  <1>6. Elements(pop(array)) = IF s = <<>> THEN s ELSE Front(s)
    BY <1>1, <1>2, PopIs
  <1>7. Ecma!Orders(s, Elements(minSort(array)))
    BY <1>1, <1>2, MinSortIs
  <1>8. Elements(concat(array, array)) = s \o s
    BY <1>1, <1>2, ConcatIs DEF Has
  <1>9. ASSUME NEW args \in Lists(MaxArgs)
        PROVE  /\ Elements(push(array, args)) = s \o args
               /\ Elements(unshift(array, args)) = args \o s
               /\ \A begin \in 0 .. Len(s) : \A count \in 0 .. Len(s) - begin :
                    Elements(splice(array, begin, count, args))
                        = Ecma!Spliced(s, begin, count, args)
    <2>1. args \in Seq(Element)
      BY ListIs, BoundsAssumption
    <2>2. Elements(push(array, args)) = Ecma!Spliced(s, n, 0, args)
      BY <1>1, <1>2, <2>1, PushIs DEF Has
    <2>3. Elements(unshift(array, args)) = Ecma!Spliced(s, 0, 0, args)
      BY <1>1, <1>2, <2>1, UnshiftIs DEF Has
    <2>4. ASSUME NEW begin \in 0 .. Len(s), NEW count \in 0 .. Len(s) - begin
          PROVE  Elements(splice(array, begin, count, args)) = Ecma!Spliced(s, begin, count, args)
      <3>1. begin \in Nat /\ count \in Nat /\ begin + count <= array.length
        BY <1>1, <1>3
      <3> QED
        BY <1>1, <1>2, <2>1, <3>1, SpliceIs DEF Has
    <2>5. Ecma!Spliced(s, n, 0, args) = s \o args /\ Ecma!Spliced(s, 0, 0, args) = args \o s
      BY <1>3, <2>1, EndsAre
    <2> QED
      BY <2>2, <2>3, <2>4, <2>5
  <1>10. ASSUME NEW begin \in 0 .. Len(s), NEW end \in 0 .. Len(s)
         PROVE  Elements(slice(array, begin, end)) = SubSeq(s, begin + 1, end)
    BY <1>1, <1>2, SliceIs DEF Has
  <1> QED
    BY <1>1, <1>4, <1>5, <1>6, <1>7, <1>8, <1>9, <1>10 DEF MethodsExact

\* reverse, shift, pop, concat, push, unshift, splice, slice and the selection
\* sort of ArrayProtoFunc::callAsFunction do what ECMA-262 says, to any array that
\* a program can make.
THEOREM ArrayMethods == ASSUME ~ CutsAtElement PROVE Spec => []MethodsExact
  BY Invariance, InvMethods, PTL

\* How often a value is among the elements of an array.
LEMMA IndicesCount ==
    ASSUME NEW a \in Layouts, a.length <= MaxLength, NEW v \in Values
    PROVE  Cardinality({i \in Indices : get(a, i) = v}) = Count(View(a), 0, a.length, v)
  <1>1. PICK u, n : u = View(a) /\ n = a.length
    OBVIOUS
  <1>2. /\ u \in [Nat -> Element] /\ n \in Nat /\ n <= MaxLength /\ MaxLength \in Nat
        /\ \A i \in Nat : u[i] = get(a, i) /\ (i >= n => u[i] = Undefined)
    BY <1>1, ViewType, BoundsAssumption
  <1>3. v # Undefined
    BY SpecialAssumption
  <1>4. {i \in Indices : get(a, i) = v} = Places(u, 0, n, v)
    <2>1. ASSUME NEW i \in Indices, get(a, i) = v PROVE i \in Places(u, 0, n, v)
      <3>1. i \in Nat /\ i \in 0 .. MaxLength - 1
        BY DEF Indices
      <3>2. u[i] = v /\ i < n
        BY <1>2, <1>3, <2>1, <3>1
      <3>3. i \in 0 .. n - 1
        BY <1>2, <3>1, <3>2
      <3> QED
        BY <3>2, <3>3 DEF Places
    <2>2. ASSUME NEW i \in Places(u, 0, n, v) PROVE i \in Indices /\ get(a, i) = v
      <3>1. i \in 0 .. n - 1 /\ u[i] = v
        BY DEF Places
      <3>2. i \in Nat /\ i \in 0 .. MaxLength - 1
        BY <1>2, <3>1
      <3> QED
        BY <1>2, <3>1, <3>2 DEF Indices
    <2> QED
      BY <2>1, <2>2
  <1> QED
    BY <1>1, <1>4 DEF Count

\* ArrayInstance::sort loses no element and makes none up as long as the elements
\* have room in the vector; MCArraySort.cfg shows that it does both otherwise.
THEOREM SortsPermute ==
    ASSUME ~ CutsAtElement, MaxSorted <= Cutoff
    PROVE  Spec => SortPermutes
  <1> DEFINE Permuted == Sort => \A v \in Values :
                 Cardinality({i \in Indices : get(array, i) = v})
                     = Cardinality({i \in Indices : get(array', i) = v})
  <1>1. ASSUME IInv PROVE Permuted
    <2>1. SUFFICES ASSUME Sort, NEW v \in Values
                   PROVE  Cardinality({i \in Indices : get(array, i) = v})
                            = Cardinality({i \in Indices : get(array', i) = v})
      OBVIOUS
    <2>2. InOrder(array, array') /\ IInv'
      BY <1>1, <2>1, SortStep
    <2>3. /\ array \in Layouts /\ array.length <= MaxLength
          /\ array' \in Layouts /\ array'.length <= MaxLength
      BY <1>1, <2>2 DEF IInv
    <2>4. Cardinality({i \in Indices : get(array, i) = v})
            = Count(View(array), 0, array.length, v)
      BY <2>3, IndicesCount
    <2>5. Cardinality({i \in Indices : get(array', i) = v})
            = Count(View(array'), 0, array'.length, v)
      BY <2>3, IndicesCount
    <2>6. /\ array'.length = array.length
          /\ Count(View(array'), 0, array.length, v) = Count(View(array), 0, array.length, v)
      BY <2>2 DEF InOrder
    <2> QED
      BY <2>4, <2>5, <2>6
  <1>2. IInv => [Permuted]_array
    BY <1>1
  <1> QED
    BY <1>2, Invariance, PTL DEF SortPermutes
=============================================================================
