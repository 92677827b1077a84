-------------------------- MODULE PropertyMapProofs --------------------------
(***************************************************************************)
(* Probing finds each property where it is and ends for each name, the     *)
(* counts are right, and the map is the ordered dictionary of              *)
(* OrderedMap.tla, for any identifiers, hash values and sizes.             *)
(*                                                                         *)
(* The operations are functions of the map.  A table is good if each key   *)
(* is where probing reaches it, no two entries share a key or an index,    *)
(* and the counts leave empty slots.  Probing covers a table because its   *)
(* size is a power of 2 and the step odd.  Each function is shown to keep  *)
(* a table good and to change the set of its entries as it should; what a  *)
(* set of entries shows as a dictionary is defined by their indices alone, *)
(* so that the order of the slots, sentinels and rehashing drop out.       *)
(***************************************************************************)
EXTENDS PropertyMap, InductionLemmas

------------------------------------------------------------------------------
(* Odd steps in a table whose size is a power of 2.                        *)

Even(a) == \E q \in Nat : a = 2 * q
Odd(a) == \E q \in Nat : a = 2 * q + 1
Divides(d, a) == \E q \in Nat : a = d * q

LEMMA EvenOrOdd ==
    ASSUME NEW a \in Nat
    PROVE  /\ Even(a) \/ Odd(a)
           /\ ~(Even(a) /\ Odd(a))
           /\ Even(a) <=> a % 2 = 0
  <1>1. PICK q, r : q = a \div 2 /\ r = a % 2
    OBVIOUS
  <1>2. q \in Nat /\ r \in 0 .. 1 /\ a = 2 * q + r
    BY <1>1
  <1>3. Even(a) \/ Odd(a)
    BY <1>2 DEF Even, Odd
  <1>4. ASSUME NEW x \in Nat, NEW y \in Nat, 2 * x = 2 * y + 1 PROVE FALSE
    BY <1>4
  <1>5. ~(Even(a) /\ Odd(a))
    BY <1>4 DEF Even, Odd
  <1>6. r = 0 => Even(a)
    BY <1>2 DEF Even
  <1>7. r # 0 => Odd(a)
    BY <1>2 DEF Odd
  <1> QED
    BY <1>1, <1>3, <1>5, <1>6, <1>7

LEMMA OddProduct ==
    ASSUME NEW a \in Nat, NEW b \in Nat, Odd(a), Even(a * b)
    PROVE  Even(b)
  <1>1. PICK q \in Nat : a = 2 * q + 1
    BY DEF Odd
  <1>2. PICK c \in Nat : a * b = 2 * c
    BY DEF Even
  <1>3. a * b = 2 * (q * b) + b
    BY <1>1
  <1>4. PICK e \in Nat : e = q * b
    BY <1>1
  <1>5. b = 2 * (c - e) /\ c - e \in Nat
    BY <1>2, <1>3, <1>4
  <1> QED
    BY <1>5 DEF Even

\* A number that divides a number is not greater.
LEMMA DividesModulo ==
    ASSUME NEW d \in Nat \ {0}, NEW a \in Nat
    PROVE  Divides(d, a) <=> a % d = 0
  <1>1. PICK q, r : q = a \div d /\ r = a % d
    OBVIOUS
  <1>2. q \in Nat /\ r \in 0 .. d - 1 /\ a = d * q + r
    BY <1>1
  <1>3. a % d = 0 => Divides(d, a)
    BY <1>1, <1>2 DEF Divides
  <1>4. ASSUME NEW c \in Nat, a = d * c PROVE a % d = 0
    <2>1. 0 \in 0 .. d - 1 /\ a = d * c + 0
      BY <1>4
    <2>2. (d * c + 0) % d = 0
      OBVIOUS
    <2> QED
      BY <2>1, <2>2
  <1> QED
    BY <1>3, <1>4 DEF Divides

\* The half of a power of 2, and its double, are powers of 2.
LEMMA Halved ==
    ASSUME NEW n \in PowersOf2, n # 1
    PROVE  \E m \in PowersOf2 : n = 2 * m /\ m < n
  <1>1. n \in Nat /\ n # 0 /\ n \in 1 .. n
    BY DEF PowersOf2
  <1>2. n % n = 0
    <2>1. Divides(n, n)
      BY <1>1 DEF Divides
    <2> QED
      BY <1>1, <2>1, DividesModulo
  <1>3. Even(n)
    BY <1>1, <1>2, EvenOrOdd DEF PowersOf2
  <1>4. PICK m \in Nat : n = 2 * m
    BY <1>3 DEF Even
  <1>5. m # 0 /\ m < n
    BY <1>1, <1>4
  <1>6. ASSUME NEW d \in 1 .. m, m % d = 0 PROVE d = 1 \/ d % 2 = 0
    <2>1. d \in Nat \ {0} /\ d \in 1 .. n
      BY <1>1, <1>4, <1>5
    <2>2. PICK c \in Nat : m = d * c
      BY <1>6, <2>1, DividesModulo DEF Divides
    <2>3. 2 * c \in Nat /\ n = d * (2 * c)
      BY <1>4, <2>1, <2>2
    <2>4. n % d = 0
      BY <1>1, <2>1, <2>3, DividesModulo DEF Divides
    <2> QED
      BY <2>1, <2>4 DEF PowersOf2
  <1> QED
    BY <1>4, <1>5, <1>6 DEF PowersOf2

LEMMA Doubled ==
    ASSUME NEW n \in PowersOf2
    PROVE  2 * n \in PowersOf2
  <1>1. n \in Nat /\ n # 0 /\ 2 * n \in Nat \ {0}
    BY DEF PowersOf2
  <1>2. ASSUME NEW d \in 1 .. 2 * n, (2 * n) % d = 0, d % 2 # 0 PROVE d = 1
    <2>1. d \in Nat \ {0}
      BY <1>1
    <2>2. PICK c \in Nat : 2 * n = d * c
      BY <1>1, <1>2, <2>1, DividesModulo DEF Divides
    <2>3. Odd(d)
      BY <1>2, <2>1, EvenOrOdd
    <2>4. Even(d * c)
      BY <1>1, <2>2 DEF Even
    <2>5. PICK b \in Nat : c = 2 * b
      BY <2>1, <2>3, <2>4, OddProduct DEF Even
    <2>6. n = d * b
      <3>1. PICK e \in Nat : e = d * b
        BY <2>1
      <3>2. d * c = 2 * e
        BY <2>1, <2>5, <3>1
      <3> QED
        BY <1>1, <2>2, <3>1, <3>2
    <2>7. n % d = 0
      BY <1>1, <2>1, <2>6, DividesModulo DEF Divides
    <2>8. d <= n
      <3>1. b # 0
        BY <1>1, <2>1, <2>6
      <3>2. d * b >= d
        BY <2>1, <3>1
      <3> QED
        BY <2>6, <3>2
    <2> QED
      BY <1>1, <1>2, <2>1, <2>7, <2>8 DEF PowersOf2
  <1>3. \A d \in 1 .. 2 * n : (2 * n) % d = 0 => d = 1 \/ d % 2 = 0
    BY <1>2
  <1> QED
    BY <1>1, <1>3 DEF PowersOf2

\* Multiples of an odd number that a power of 2 divides.
LEMMA OddFactor ==
    ASSUME NEW n \in PowersOf2, NEW a \in Nat, Odd(a), NEW e \in Nat, Divides(n, a * e)
    PROVE  Divides(n, e)
  <1> DEFINE Bad == {p \in PowersOf2 : \E x \in Nat : Divides(p, a * x) /\ ~Divides(p, x)}
  <1>1. SUFFICES ASSUME Bad # {} PROVE FALSE
    BY <1>1
  <1>2. Bad \subseteq Nat
    BY DEF PowersOf2
  <1>3. PICK p \in Bad : \A q \in Bad : p <= q
    <2> HIDE DEF Bad
    <2> QED
      BY <1>1, <1>2, LeastNumber
  <1>4. PICK x \in Nat : Divides(p, a * x) /\ ~Divides(p, x)
    OBVIOUS
  <1>5. p # 1
    <2>1. Divides(1, x)
      BY DEF Divides
    <2> QED
      BY <1>4, <2>1
  <1>6. PICK m \in PowersOf2 : p = 2 * m /\ m < p
    BY <1>5, Halved
  <1>7. m \in Nat /\ p \in Nat /\ m # 0
    BY <1>6 DEF PowersOf2
  <1>8. PICK c \in Nat : a * x = p * c
    BY <1>4 DEF Divides
  <1>9. Divides(m, a * x)
    <2>1. 2 * c \in Nat /\ p * c = m * (2 * c)
      BY <1>6, <1>7
    <2> QED
      BY <1>8, <2>1 DEF Divides
  <1>10. m \notin Bad
    <2> HIDE DEF Bad
    <2> QED
      BY <1>2, <1>3, <1>6, <1>7
  <1>11. PICK f \in Nat : x = m * f
    BY <1>9, <1>10 DEF Divides
  <1>12. a * f = 2 * c
    <2>1. a * x = m * (a * f)
      BY <1>7, <1>11
    <2>2. p * c = m * (2 * c)
      BY <1>6, <1>7
    <2>3. PICK y, z : y = a * f /\ z = 2 * c
      OBVIOUS
    <2>4. y \in Nat /\ z \in Nat /\ m * y = m * z
      BY <1>8, <2>1, <2>2, <2>3
    <2>5. m * (y - z) = 0
      BY <1>7, <2>4
    <2>6. y - z = 0
      BY <1>7, <2>4, <2>5
    <2> QED
      BY <2>3, <2>4, <2>6
  <1>13. PICK g \in Nat : f = 2 * g
    <2>1. Even(a * f)
      BY <1>12 DEF Even
    <2> QED
      BY <2>1, OddProduct DEF Even
  <1>14. x = p * g
    BY <1>6, <1>7, <1>11, <1>13
  <1> QED
    BY <1>4, <1>14 DEF Divides

\* Between a power of 2 and its double there is no other.
LEMMA PowersApart ==
    ASSUME NEW s \in PowersOf2, NEW t \in PowersOf2, s < t
    PROVE  2 * s <= t
  <1> DEFINE C == {x \in Nat : x \in PowersOf2 /\ \E y \in PowersOf2 : x < y /\ ~(2 * x <= y)}
  <1>1. SUFFICES ASSUME C # {} PROVE FALSE
    <2>1. s \in Nat
      BY DEF PowersOf2
    <2> QED
      BY <1>1, <2>1
  <1>2. PICK x \in C : \A z \in C : x <= z
    <2> HIDE DEF C
    <2>1. C \subseteq Nat
      BY DEF C
    <2> QED
      BY <1>1, <2>1, LeastNumber
  <1>3. PICK y \in PowersOf2 : x < y /\ ~(2 * x <= y)
    OBVIOUS
  <1>4. x \in Nat /\ y \in Nat /\ x \in PowersOf2 /\ x # 0 /\ y # 1
    BY <1>3 DEF PowersOf2
  <1>5. PICK b \in PowersOf2 : y = 2 * b /\ b < y
    BY <1>4, Halved
  <1>6. b \in Nat /\ b # 0
    BY DEF PowersOf2
  <1>7. x # 1
    BY <1>3, <1>4, <1>5, <1>6
  <1>8. PICK a \in PowersOf2 : x = 2 * a /\ a < x
    BY <1>4, <1>7, Halved
  <1>9. a \in Nat
    BY DEF PowersOf2
  <1>10. a < b /\ ~(2 * a <= b)
    BY <1>3, <1>5, <1>6, <1>8, <1>9
  <1>11. a \in C
    BY <1>9, <1>10
  <1> QED
    BY <1>2, <1>4, <1>8, <1>9, <1>11

LEMMA SameRemainder ==
    ASSUME NEW d \in Nat \ {0}, NEW a \in Nat, NEW b \in Nat, a <= b, a % d = b % d
    PROVE  Divides(d, b - a)
  <1>1. PICK q, p, r : q = a \div d /\ p = b \div d /\ r = a % d
    OBVIOUS
  <1>2. /\ q \in Nat /\ p \in Nat /\ r \in 0 .. d - 1
        /\ a = d * q + r /\ b = d * p + r
    BY <1>1
  <1>3. b - a = d * (p - q)
    BY <1>2
  <1>4. p - q \in Nat
    <2>1. CASE p < q
      <3>1. p - q <= -1
        BY <1>2, <2>1
      <3>2. d * (p - q) <= -d
        BY <1>2, <3>1
      <3> QED
        BY <1>3, <3>2
    <2> QED
      BY <1>2, <2>1
  <1> QED
    BY <1>3, <1>4 DEF Divides

LEMMA StepIsOdd ==
    ASSUME NEW h \in Nat, NEW size \in Nat, size >= 2
    PROVE  Step(h, size) \in Nat /\ Odd(Step(h, size))
  <1>1. PICK x : x = h % (size - 1)
    OBVIOUS
  <1>2. x \in Nat
    BY <1>1
  <1>3. Step(h, size) = IF x % 2 = 0 THEN x + 1 ELSE x
    BY <1>1 DEF Step
  <1>4. CASE x % 2 = 0
    <2>1. Even(x)
      BY <1>2, <1>4, EvenOrOdd
    <2>2. Odd(x + 1)
      BY <2>1 DEF Even, Odd
    <2> QED
      BY <1>2, <1>3, <1>4, <2>2
  <1>5. CASE x % 2 # 0
    BY <1>2, <1>3, <1>5, EvenOrOdd
  <1> QED
    BY <1>4, <1>5

LEMMA ProbeType ==
    ASSUME NEW h \in Nat, NEW size \in Nat, size >= 2, NEW n \in Nat
    PROVE  Probe(h, size, n) \in 0 .. size - 1
  <1>1. PICK s : s = Step(h, size)
    OBVIOUS
  <1>2. s \in Nat
    BY <1>1, StepIsOdd
  <1>3. PICK x : x = h + n * s
    OBVIOUS
  <1>4. x \in Nat
    BY <1>2, <1>3
  <1>5. Probe(h, size, n) = x % size
    BY <1>1, <1>3 DEF Probe
  <1> QED
    BY <1>4, <1>5

\* The probes for a key reach each slot of the table, whatever its hash.
LEMMA ProbesCover ==
    ASSUME NEW size \in PowersOf2, size >= 2, NEW h \in Nat, NEW j \in 0 .. size - 1
    PROVE  \E n \in 0 .. size - 1 : Probe(h, size, n) = j
  <1> DEFINE D == 0 .. size - 1
             f == [n \in D |-> Probe(h, size, n)]
  <1>1. size \in Nat \ {0}
    BY DEF PowersOf2
  <1>2. f \in [D -> D]
    <2>1. ASSUME NEW n \in D PROVE Probe(h, size, n) \in D
      <3>1. n \in Nat
        BY <1>1
      <3> QED
        BY <1>1, <3>1, ProbeType
    <2> QED
      BY <2>1
  <1>3. PICK s : s = Step(h, size)
    OBVIOUS
  <1>4. s \in Nat /\ Odd(s)
    BY <1>1, <1>3, StepIsOdd
  <1>5. ASSUME NEW n \in D, NEW m \in D, n < m, f[n] = f[m] PROVE FALSE
    <2>1. PICK a, b : a = h + n * s /\ b = h + m * s
      OBVIOUS
    <2>2. a \in Nat /\ b \in Nat /\ n * s <= m * s
      BY <1>1, <1>4, <1>5, <2>1
    <2>3. a <= b
      BY <1>1, <1>4, <2>1, <2>2
    <2>4. a % size = b % size
      BY <1>3, <1>5, <2>1 DEF Probe
    <2>5. Divides(size, b - a)
      BY <1>1, <2>2, <2>3, <2>4, SameRemainder
    <2>6. PICK e : e = m - n
      OBVIOUS
    <2>7. e \in Nat /\ e # 0 /\ e < size
      BY <1>1, <1>5, <2>6
    <2>8. b - a = s * e
      BY <1>1, <1>4, <2>1, <2>6
    <2>9. Divides(size, e)
      BY <1>4, <2>5, <2>7, <2>8, OddFactor
    <2>10. PICK q \in Nat : e = size * q
      BY <2>9 DEF Divides
    <2>11. q # 0
      BY <1>1, <2>7, <2>10
    <2>12. PICK y : y = size * q
      OBVIOUS
    <2>13. y \in Nat /\ y >= size
      BY <1>1, <2>11, <2>12
    <2> QED
      BY ONLY <1>1, <2>7, <2>10, <2>12, <2>13
  <1>6. f \in Injection(D, D)
    <2>1. ASSUME NEW n \in D, NEW m \in D, n # m PROVE f[n] # f[m]
      <3>1. n < m \/ m < n
        BY <1>1, <2>1
      <3> HIDE DEF f
      <3> QED
        BY <1>5, <3>1
    <2> HIDE DEF f
    <2> QED
      BY <1>2, <2>1 DEF Injection, IsInjective
  <1>7. IsFiniteSet(D)
    BY <1>1, FS_Interval
  <1>8. f \in Surjection(D, D)
    <2> HIDE DEF f, D
    <2> QED
      BY <1>6, <1>7, FS_Injection
  <1> QED
    BY <1>8 DEF Surjection

------------------------------------------------------------------------------
(* Tables and the slots that probing finds.                                *)

EntryType ==
    {e \in [key : Keys \cup {NoKey, Deleted}, value : Values \cup {NoKey},
            attributes : AttributeSets, index : Nat] :
        /\ e.key \in Keys <=> e.value # NoKey
        /\ e.key = Deleted => e.attributes = {"DontEnum"}}

Header(T) ==
    /\ T = [size |-> T.size, entries |-> T.entries, keyCount |-> T.keyCount,
            sentinelCount |-> T.sentinelCount, lastIndexUsed |-> T.lastIndexUsed]
    /\ T.keyCount \in Int /\ T.sentinelCount \in Int /\ T.lastIndexUsed \in Nat
Shape(T) == T.size \in PowersOf2 /\ T.size >= 4 /\ T.entries \in [0 .. T.size - 1 -> EntryType]
Typed(T) == Header(T) /\ Shape(T)

SlotsOf(T) == 0 .. T.size - 1
At(T, k, n) == Probe(Hash[k], T.size, n)

LEMMA AtType ==
    ASSUME NEW T, Shape(T), NEW k \in Keys, NEW n \in Nat
    PROVE  At(T, k, n) \in SlotsOf(T)
  <1>1. T.size \in Nat /\ T.size >= 2 /\ Hash[k] \in Nat
    BY KeysAssumption DEF Shape, PowersOf2
  <1> QED
    BY <1>1, ProbeType DEF At, SlotsOf

\* Probing for k ends after n steps, at the slot i.
Reaches(T, k, n, i) ==
    /\ n \in 0 .. T.size - 1 /\ At(T, k, n) = i
    /\ T.entries[i].key \in {k, NoKey}
    /\ \A m \in 0 .. n - 1 : T.entries[At(T, k, m)].key \notin {k, NoKey}

LEMMA ReachesOnce ==
    ASSUME NEW T, Shape(T), NEW k, NEW n, NEW i, Reaches(T, k, n, i),
           NEW m, NEW j, Reaches(T, k, m, j)
    PROVE  n = m /\ i = j
  <1>1. n \in Nat /\ m \in Nat
    BY DEF Reaches, Shape, PowersOf2
  <1>2. ~(n < m) /\ ~(m < n)
    BY <1>1 DEF Reaches
  <1> QED
    BY <1>1, <1>2 DEF Reaches

LEMMA ReachesFinds ==
    ASSUME NEW T, Shape(T), NEW k, NEW n, NEW i, Reaches(T, k, n, i)
    PROVE  Length(T, k) = n /\ Find(T, k) = i /\ Ends(T, k)
  <1> DEFINE P(m) == StopsAt(T, k, m) /\ \A l \in 0 .. m - 1 : ~ StopsAt(T, k, l)
  <1>1. \A m \in 0 .. T.size - 1 : P(m) <=> Reaches(T, k, m, At(T, k, m))
    BY DEF StopsAt, Reaches, At
  <1>2. n \in 0 .. T.size - 1 /\ At(T, k, n) = i /\ P(n)
    BY <1>1 DEF Reaches
  <1>3. \A m \in 0 .. T.size - 1 : P(m) => m = n
    BY <1>1, ReachesOnce
  <1>4. Length(T, k) = CHOOSE m \in 0 .. T.size - 1 : P(m)
    BY DEF Length
  <1>5. Length(T, k) = n
    <2> HIDE DEF P
    <2> QED
      BY <1>2, <1>3, <1>4
  <1> QED
    BY <1>2, <1>5 DEF Find, At, Ends

\* A table with an empty slot.
Roomy(T) == \E j \in SlotsOf(T) : T.entries[j].key = NoKey

\* Every probe ends in a table with an empty slot.
LEMMA ProbesEnd ==
    ASSUME NEW T, Shape(T), Roomy(T), NEW k \in Keys
    PROVE  \E n \in Nat, i \in SlotsOf(T) : Reaches(T, k, n, i)
  <1> DEFINE N == {n \in 0 .. T.size - 1 : T.entries[At(T, k, n)].key \in {k, NoKey}}
  <1>1. T.size \in PowersOf2 /\ T.size >= 2 /\ T.size \in Nat /\ Hash[k] \in Nat
    BY KeysAssumption DEF Shape, PowersOf2
  <1>2. PICK j \in SlotsOf(T) : T.entries[j].key = NoKey
    BY DEF Roomy
  <1>3. PICK n \in 0 .. T.size - 1 : At(T, k, n) = j
    BY <1>1, <1>2, ProbesCover DEF At, SlotsOf
  <1>4. N # {} /\ N \subseteq Nat
    BY <1>1, <1>2, <1>3
  <1>5. PICK m \in N : \A l \in N : m <= l
    <2> HIDE DEF N
    <2> QED
      BY <1>4, LeastNumber
  <1>6. m \in Nat /\ At(T, k, m) \in SlotsOf(T)
    BY <1>1, AtType
  <1>7. \A l \in 0 .. m - 1 : T.entries[At(T, k, l)].key \notin {k, NoKey}
    <2>1. ASSUME NEW l \in 0 .. m - 1 PROVE l \notin N /\ l \in 0 .. T.size - 1
      BY <1>1, <1>5
    <2> QED
      BY <2>1
  <1>8. Reaches(T, k, m, At(T, k, m))
    BY <1>7 DEF Reaches
  <1> QED
    BY <1>6, <1>8

\* Each key is found by probing just where it is.
Located(T) ==
    \A i \in SlotsOf(T) :
        T.entries[i].key \in Keys => \E n : Reaches(T, T.entries[i].key, n, i)

\* G is T but for the slot i.
Writes(T, i, G) ==
    /\ Shape(T) /\ Shape(G) /\ G.size = T.size /\ i \in SlotsOf(T)
    /\ \A j \in SlotsOf(T) : j # i => G.entries[j] = T.entries[j]

Absent(T, k) == \A j \in SlotsOf(T) : T.entries[j].key # k

LEMMA ReachesAbsent ==
    ASSUME NEW T, Shape(T), Located(T), NEW k \in Keys, NEW n, NEW i,
           Reaches(T, k, n, i), T.entries[i].key = NoKey
    PROVE  Absent(T, k)
  <1>1. ASSUME NEW j \in SlotsOf(T), T.entries[j].key = k PROVE FALSE
    <2>1. PICK m : Reaches(T, k, m, j)
      BY <1>1 DEF Located
    <2>2. i = j
      BY <2>1, ReachesOnce
    <2> QED
      BY <1>1, <2>2, KeysAssumption
  <1> QED
    BY <1>1 DEF Absent

\* A new key in a slot that probing for it passes or ends at.
LEMMA FilledLocated ==
    ASSUME NEW T, NEW i, NEW G, Writes(T, i, G), Located(T), NEW k \in Keys, NEW n, NEW x,
           Reaches(T, k, n, x), T.entries[x].key = NoKey, NEW m \in 0 .. n,
           i = At(T, k, m), T.entries[i].key \notin Keys,
           \A l \in 0 .. m - 1 : At(T, k, l) # i, G.entries[i].key = k
    PROVE  Located(G)
  <1>1. /\ n \in 0 .. T.size - 1 /\ T.size \in Nat /\ m \in 0 .. T.size - 1
        /\ Shape(T) /\ G.size = T.size /\ SlotsOf(G) = SlotsOf(T)
    BY DEF Reaches, Writes, Shape, PowersOf2, SlotsOf
  <1>2. \A q, l : At(G, q, l) = At(T, q, l)
    BY <1>1 DEF At
  <1>3. ASSUME NEW j \in SlotsOf(T), j # i, NEW q \in Keys, T.entries[j].key = q
        PROVE  \E l : Reaches(G, q, l, j)
    <2>1. PICK l : Reaches(T, q, l, j)
      BY <1>3 DEF Located
    <2>2. q # k
      BY <1>3, ReachesAbsent, <1>1 DEF Absent
    <2>3. G.entries[j].key = q /\ l \in 0 .. T.size - 1 /\ At(G, q, l) = j
      BY <1>2, <1>3, <2>1 DEF Writes, Reaches
    <2>4. ASSUME NEW o \in 0 .. l - 1 PROVE G.entries[At(G, q, o)].key \notin {q, NoKey}
      <3>1. o \in Nat /\ At(T, q, o) \in SlotsOf(T)
        BY <1>1, <2>3, AtType
      <3>2. T.entries[At(T, q, o)].key \notin {q, NoKey}
        BY <2>1 DEF Reaches
      <3>3. CASE At(T, q, o) = i
        BY <1>2, <2>2, <3>3, KeysAssumption
      <3>4. CASE At(T, q, o) # i
        BY <1>2, <3>1, <3>2, <3>4 DEF Writes
      <3> QED
        BY <3>3, <3>4
    <2> QED
      BY <1>1, <2>3, <2>4 DEF Reaches
  <1>4. Reaches(G, k, m, i)
    <2>1. ASSUME NEW l \in 0 .. m - 1 PROVE G.entries[At(G, k, l)].key \notin {k, NoKey}
      <3>1. l \in 0 .. n - 1 /\ l \in Nat
        BY <1>1
      <3>2. T.entries[At(T, k, l)].key \notin {k, NoKey} /\ At(T, k, l) \in SlotsOf(T)
        BY <1>1, <3>1, AtType DEF Reaches
      <3> QED
        BY <1>2, <3>2 DEF Writes
    <2> QED
      BY <1>1, <1>2, <2>1 DEF Reaches
  <1>5. ASSUME NEW j \in SlotsOf(G), G.entries[j].key \in Keys
        PROVE  \E l : Reaches(G, G.entries[j].key, l, j)
    <2>1. CASE j = i
      BY <1>4, <2>1
    <2>2. CASE j # i
      <3>1. G.entries[j] = T.entries[j] /\ j \in SlotsOf(T)
        BY <1>1, <2>2 DEF Writes
      <3> QED
        BY <1>3, <1>5, <2>2, <3>1
    <2> QED
      BY <2>1, <2>2
  <1> QED
    BY <1>5 DEF Located

\* A slot that stays in use, or becomes a sentinel.
LEMMA KeptLocated ==
    ASSUME NEW T, NEW i, NEW G, Writes(T, i, G), Located(T),
           G.entries[i].key = T.entries[i].key
           \/ (T.entries[i].key \in Keys /\ G.entries[i].key = Deleted)
    PROVE  Located(G)
  <1>1. /\ T.size \in Nat /\ Shape(T) /\ G.size = T.size /\ SlotsOf(G) = SlotsOf(T)
    BY DEF Writes, Shape, PowersOf2, SlotsOf
  <1>2. \A q, l : At(G, q, l) = At(T, q, l)
    BY <1>1 DEF At
  <1>3. \A j \in SlotsOf(T) :
            G.entries[j].key = T.entries[j].key
            \/ (j = i /\ T.entries[j].key \in Keys /\ G.entries[j].key = Deleted)
    BY DEF Writes
  <1>4. ASSUME NEW j \in SlotsOf(G), G.entries[j].key \in Keys
        PROVE  \E l : Reaches(G, G.entries[j].key, l, j)
    <2>1. PICK q \in Keys : q = G.entries[j].key
      BY <1>4
    <2>2. T.entries[j].key = q
      BY <1>1, <1>3, <2>1, KeysAssumption
    <2>3. PICK l : Reaches(T, q, l, j)
      BY <1>1, <2>1, <2>2 DEF Located
    <2>4. ASSUME NEW o \in 0 .. l - 1 PROVE G.entries[At(G, q, o)].key \notin {q, NoKey}
      <3>1. l \in 0 .. T.size - 1
        BY <2>3 DEF Reaches
      <3>2. o \in Nat /\ At(T, q, o) \in SlotsOf(T)
        BY <1>1, <3>1, AtType
      <3>3. T.entries[At(T, q, o)].key \notin {q, NoKey}
        BY <2>3 DEF Reaches
      <3> QED
        BY <1>2, <1>3, <2>1, <3>2, <3>3, KeysAssumption
    <2>5. l \in 0 .. G.size - 1 /\ At(G, q, l) = j
      BY <1>1, <1>2, <2>3 DEF Reaches
    <2> QED
      BY <2>1, <2>4, <2>5 DEF Reaches
  <1> QED
    BY <1>4 DEF Located

------------------------------------------------------------------------------
(* What a table holds.                                                     *)

Held(T) == {i \in SlotsOf(T) : T.entries[i].key \in Keys}
Marks(T) == {i \in SlotsOf(T) : T.entries[i].key = Deleted}
Entries(T) == {T.entries[i] : i \in Held(T)}

\* No two entries have the same name, or the same place in the order.
Distinct(E) == \A e, f \in E : e.key = f.key \/ e.index = f.index => e = f

LEMMA HeldOnce ==
    ASSUME NEW T, Shape(T), Located(T), NEW i \in Held(T), NEW j \in Held(T),
           T.entries[i].key = T.entries[j].key
    PROVE  i = j
  <1>1. PICK n : Reaches(T, T.entries[i].key, n, i)
    BY DEF Located, Held
  <1>2. PICK m : Reaches(T, T.entries[i].key, m, j)
    BY DEF Located, Held
  <1> QED
    BY <1>1, <1>2, ReachesOnce

LEMMA SlotsFinite ==
    ASSUME NEW T, Shape(T)
    PROVE  /\ IsFiniteSet(SlotsOf(T)) /\ Cardinality(SlotsOf(T)) = T.size
           /\ IsFiniteSet(Held(T)) /\ IsFiniteSet(Marks(T))
           /\ Cardinality(Held(T)) \in Nat /\ Cardinality(Marks(T)) \in Nat
  <1>1. T.size \in Nat /\ T.size >= 1 /\ 0 \in Int /\ T.size - 1 \in Int
    BY DEF Shape, PowersOf2
  <1>2. IsFiniteSet(SlotsOf(T)) /\ Cardinality(SlotsOf(T)) = T.size
    <2>1. PICK m : m = T.size - 1
      OBVIOUS
    <2>2. m \in Int /\ 0 \in Int /\ ~(0 > m) /\ m - 0 + 1 = T.size
      BY <1>1, <2>1
    <2>3. IsFiniteSet(0 .. m) /\ Cardinality(0 .. m) = IF 0 > m THEN 0 ELSE m - 0 + 1
      BY ONLY <2>2, FS_Interval
    <2> QED
      BY <2>1, <2>2, <2>3 DEF SlotsOf
  <1>3. Held(T) \subseteq SlotsOf(T) /\ Marks(T) \subseteq SlotsOf(T)
    BY DEF Held, Marks
  <1> QED
    BY <1>2, <1>3, FS_Subset, FS_CardinalityType

LEMMA EntriesCounted ==
    ASSUME NEW T, Shape(T), Located(T)
    PROVE  IsFiniteSet(Entries(T)) /\ Cardinality(Entries(T)) = Cardinality(Held(T))
  <1> DEFINE f == [i \in Held(T) |-> T.entries[i]]
  <1>1. f \in Surjection(Held(T), Entries(T))
    BY DEF Surjection, Entries
  <1>2. \A i, j \in Held(T) : f[i] = f[j] => i = j
    BY HeldOnce
  <1>3. f \in Bijection(Held(T), Entries(T))
    <2> HIDE DEF f
    <2> QED
      BY <1>1, <1>2 DEF Bijection, Surjection, Injection, IsInjective
  <1>4. ExistsBijection(Held(T), Entries(T))
    BY <1>3 DEF ExistsBijection
  <1> QED
    BY <1>4, SlotsFinite, FS_Bijection

\* Fewer entries and sentinels than slots leave an empty slot.
LEMMA FewRoomy ==
    ASSUME NEW T, Shape(T), Cardinality(Held(T)) + Cardinality(Marks(T)) < T.size
    PROVE  Roomy(T)
  <1>1. PICK S : S = Held(T) \cup Marks(T)
    OBVIOUS
  <1>2. Held(T) \cap Marks(T) = {}
    BY KeysAssumption DEF Held, Marks
  <1>3. Cardinality(S) = Cardinality(Held(T)) + Cardinality(Marks(T))
    <2>1. Cardinality(S) = Cardinality(Held(T)) + Cardinality(Marks(T)) - Cardinality({})
      BY <1>1, <1>2, SlotsFinite, FS_Union
    <2> QED
      BY <2>1, SlotsFinite, FS_EmptySet
  <1>4. S # SlotsOf(T)
    BY <1>3, SlotsFinite DEF Shape, PowersOf2
  <1>5. PICK j \in SlotsOf(T) : j \notin S
    BY <1>1, <1>4 DEF Held, Marks
  <1>6. T.entries[j].key \in Keys \cup {NoKey, Deleted}
    BY DEF Shape, EntryType, SlotsOf
  <1> QED
    BY <1>1, <1>5, <1>6 DEF Roomy, Held, Marks

\* A free slot is filled.
LEMMA Filled ==
    ASSUME NEW T, NEW i, NEW G, Writes(T, i, G), T.entries[i].key \notin Keys,
           G.entries[i].key \in Keys
    PROVE  /\ Held(G) = Held(T) \cup {i} /\ Cardinality(Held(G)) = Cardinality(Held(T)) + 1
           /\ Marks(G) = Marks(T) \ {i}
           /\ Cardinality(Marks(G)) = Cardinality(Marks(T))
                - (IF T.entries[i].key = Deleted THEN 1 ELSE 0)
           /\ Entries(G) = Entries(T) \cup {G.entries[i]}
  <1>1. Shape(T) /\ SlotsOf(G) = SlotsOf(T) /\ i \in SlotsOf(T)
    BY DEF Writes, SlotsOf
  <1>2. Held(G) = Held(T) \cup {i} /\ i \notin Held(T)
    BY <1>1 DEF Held, Writes
  <1>3. Marks(G) = Marks(T) \ {i} /\ (i \in Marks(T) <=> T.entries[i].key = Deleted)
    BY <1>1, KeysAssumption DEF Marks, Writes
  <1>4. Entries(G) = Entries(T) \cup {G.entries[i]}
    BY <1>1, <1>2 DEF Entries, Held, Writes
  <1>5. Cardinality(Held(G)) = Cardinality(Held(T)) + 1
    BY <1>1, <1>2, SlotsFinite, FS_AddElement
  <1>6. CASE T.entries[i].key = Deleted
    <2>1. Cardinality(Marks(G)) = Cardinality(Marks(T)) - 1
      BY <1>1, <1>3, <1>6, SlotsFinite, FS_RemoveElement
    <2> QED
      BY <1>2, <1>3, <1>4, <1>5, <1>6, <2>1
  <1>7. CASE T.entries[i].key # Deleted
    <2>1. Cardinality(Marks(G)) = Cardinality(Marks(T))
              - (IF T.entries[i].key = Deleted THEN 1 ELSE 0)
      <3>1. PICK c \in Nat : c = Cardinality(Marks(T))
        BY <1>1, SlotsFinite
      <3>2. Marks(G) = Marks(T) /\ c - 0 = c
        BY <1>3, <1>7, <3>1
      <3> QED
        BY <1>7, <3>1, <3>2
    <2> QED
      BY <1>2, <1>3, <1>4, <1>5, <1>7, <2>1
  <1> QED
    BY <1>6, <1>7

\* An entry changes and keeps its name.
LEMMA Changed ==
    ASSUME NEW T, NEW i, NEW G, Writes(T, i, G), Located(T), T.entries[i].key \in Keys,
           G.entries[i].key = T.entries[i].key
    PROVE  /\ Held(G) = Held(T) /\ Marks(G) = Marks(T)
           /\ Entries(G) = (Entries(T) \ {T.entries[i]}) \cup {G.entries[i]}
  <1>1. Shape(T) /\ SlotsOf(G) = SlotsOf(T) /\ i \in SlotsOf(T)
    BY DEF Writes, SlotsOf
  <1>2. Held(G) = Held(T) /\ i \in Held(T)
    BY <1>1 DEF Held, Writes
  <1>3. Marks(G) = Marks(T)
    BY <1>1 DEF Marks, Writes
  <1>4. ASSUME NEW j \in Held(T), j # i
        PROVE  G.entries[j] = T.entries[j] /\ T.entries[j] # T.entries[i]
    BY <1>1, <1>2, <1>4, HeldOnce DEF Writes, Held
  <1> QED
    BY <1>2, <1>3, <1>4 DEF Entries

\* An entry becomes a sentinel.
LEMMA Erased ==
    ASSUME NEW T, NEW i, NEW G, Writes(T, i, G), Located(T), T.entries[i].key \in Keys,
           G.entries[i].key = Deleted
    PROVE  /\ Held(G) = Held(T) \ {i} /\ Cardinality(Held(G)) = Cardinality(Held(T)) - 1
           /\ Marks(G) = Marks(T) \cup {i}
           /\ Cardinality(Marks(G)) = Cardinality(Marks(T)) + 1
           /\ Entries(G) = Entries(T) \ {T.entries[i]}
  <1>1. Shape(T) /\ SlotsOf(G) = SlotsOf(T) /\ i \in SlotsOf(T)
    BY DEF Writes, SlotsOf
  <1>2. Held(G) = Held(T) \ {i} /\ i \in Held(T)
    BY <1>1, KeysAssumption DEF Held, Writes
  <1>3. Marks(G) = Marks(T) \cup {i} /\ i \notin Marks(T)
    BY <1>1, KeysAssumption DEF Marks, Writes
  <1>4. ASSUME NEW j \in Held(T), j # i
        PROVE  G.entries[j] = T.entries[j] /\ T.entries[j] # T.entries[i]
    BY <1>1, <1>2, <1>4, HeldOnce DEF Writes, Held
  <1>5. Entries(G) = Entries(T) \ {T.entries[i]}
    BY <1>2, <1>4 DEF Entries
  <1>6. Cardinality(Held(G)) = Cardinality(Held(T)) - 1
    BY <1>1, <1>2, SlotsFinite, FS_RemoveElement
  <1>7. Cardinality(Marks(G)) = Cardinality(Marks(T)) + 1
    BY <1>1, <1>3, SlotsFinite, FS_AddElement
  <1> QED
    BY <1>2, <1>3, <1>5, <1>6, <1>7

------------------------------------------------------------------------------
(* A table whose entries are where probing finds them.                     *)

Sound(T) == Typed(T) /\ Located(T) /\ Distinct(Entries(T))

\* No index is above the last, in whatever slot.
Capped(T) == \A j \in SlotsOf(T) : T.entries[j].index <= T.lastIndexUsed

\* The slots that are not taken are as calloc leaves them.
Blank(T) == \A j \in SlotsOf(T) : T.entries[j] \in Entries(T) \/ T.entries[j] = NullEntry

\* And whose counts are right, with more than a quarter of the slots empty.
Good(T) ==
    /\ Sound(T) /\ Capped(T)
    /\ \A e \in Entries(T) : e.index <= T.lastIndexUsed
    /\ T.keyCount = Cardinality(Held(T)) /\ T.sentinelCount = Cardinality(Marks(T))
    /\ 2 * T.keyCount <= T.size /\ 4 * T.sentinelCount < T.size

\* Where put puts a new key.
Place(T, k, i) ==
    /\ i \in SlotsOf(T) /\ T.entries[i].key \in {NoKey, Deleted}
    /\ \E n, x, m :
        /\ Reaches(T, k, n, x) /\ T.entries[x].key = NoKey /\ m \in 0 .. n
        /\ i = At(T, k, m) /\ \A l \in 0 .. m - 1 : At(T, k, l) # i

\* Any change of the header and a new entry in such a slot.
LEMMA PlacedSound ==
    ASSUME NEW T, Sound(T), NEW k \in Keys, Absent(T, k), NEW i, Place(T, k, i),
           NEW G, Typed(G), Writes(T, i, G), G.entries[i].key = k,
           \A e \in Entries(T) : e.index # G.entries[i].index
    PROVE  Sound(G)
  <1>1. PICK n, x, m :
            /\ Reaches(T, k, n, x) /\ T.entries[x].key = NoKey /\ m \in 0 .. n
            /\ i = At(T, k, m) /\ \A l \in 0 .. m - 1 : At(T, k, l) # i
    BY DEF Place
  <1>2. T.entries[i].key \notin Keys
    BY KeysAssumption DEF Place
  <1>3. Located(G)
    BY <1>1, <1>2, FilledLocated DEF Sound
  <1>4. Entries(G) = Entries(T) \cup {G.entries[i]}
    BY <1>2, Filled
  <1>5. \A e \in Entries(T) : e.key # k /\ e.index \in Nat
    BY DEF Absent, Entries, Held, Sound, Typed, Shape, EntryType, SlotsOf
  <1>6. Distinct(Entries(G))
    BY <1>4, <1>5 DEF Distinct, Sound
  <1> QED
    BY <1>3, <1>6 DEF Sound

\* What probing finds.
LEMMA Found ==
    ASSUME NEW T, Shape(T), Located(T), Roomy(T), NEW k \in Keys
    PROVE  /\ Find(T, k) \in SlotsOf(T) /\ Ends(T, k)
           /\ Reaches(T, k, Length(T, k), Find(T, k))
           /\ \/ T.entries[Find(T, k)].key = k
              \/ T.entries[Find(T, k)].key = NoKey /\ Absent(T, k)
  <1>1. PICK n \in Nat, i \in SlotsOf(T) : Reaches(T, k, n, i)
    BY ProbesEnd
  <1>2. Length(T, k) = n /\ Find(T, k) = i /\ Ends(T, k)
    BY <1>1, ReachesFinds
  <1>3. T.entries[i].key = k \/ T.entries[i].key = NoKey
    BY <1>1 DEF Reaches
  <1>4. T.entries[i].key = NoKey => Absent(T, k)
    BY <1>1, ReachesAbsent
  <1> QED
    BY <1>1, <1>2, <1>3, <1>4

LEMMA FoundPlace ==
    ASSUME NEW T, Shape(T), Located(T), Roomy(T), NEW k \in Keys, Absent(T, k)
    PROVE  T.entries[Find(T, k)].key = NoKey /\ Place(T, k, Find(T, k))
  <1>1. PICK n, i : n = Length(T, k) /\ i = Find(T, k)
    OBVIOUS
  <1>2. i \in SlotsOf(T) /\ Reaches(T, k, n, i) /\ T.entries[i].key = NoKey
    BY <1>1, Found DEF Absent
  <1>3. n \in Nat /\ n \in 0 .. n /\ i = At(T, k, n)
    BY <1>2 DEF Reaches, Shape, PowersOf2
  <1>4. \A l \in 0 .. n - 1 : At(T, k, l) # i
    BY <1>2 DEF Reaches
  <1> QED
    BY <1>1, <1>2, <1>3, <1>4 DEF Place

LEMMA GoodRoomy ==
    ASSUME NEW T, Good(T)
    PROVE  /\ Roomy(T) /\ Shape(T) /\ Located(T) /\ T.size \in Nat
           /\ T.keyCount \in Nat /\ T.sentinelCount \in Nat
           /\ 4 * (T.keyCount + T.sentinelCount) < 3 * T.size
  <1>1. Shape(T) /\ Located(T) /\ T.size \in Nat /\ T.size >= 4
    BY DEF Good, Sound, Typed, Shape, PowersOf2
  <1>2. T.keyCount \in Nat /\ T.sentinelCount \in Nat
    BY <1>1, SlotsFinite DEF Good
  <1>3. T.keyCount + T.sentinelCount < T.size
    BY <1>1, <1>2 DEF Good
  <1>4. 4 * (T.keyCount + T.sentinelCount) < 3 * T.size
    BY <1>1, <1>2 DEF Good
  <1> QED
    BY <1>1, <1>2, <1>3, <1>4, FewRoomy DEF Good

LEMMA EntryIsTyped ==
    ASSUME NEW k \in Keys, NEW v \in Values, NEW a \in AttributeSets, NEW i \in Nat
    PROVE  Entry(k, v, a, i) \in EntryType
  <1>1. k # Deleted /\ v # NoKey
    BY KeysAssumption
  <1> QED
    BY <1>1 DEF Entry, EntryType

\* An empty table takes one entry after the other.
LEMMA Inserted ==
    ASSUME NEW T, Sound(T), Roomy(T), NEW e \in EntryType, e.key \in Keys,
           \A f \in Entries(T) : f.key # e.key /\ f.index # e.index,
           NEW G, G = insert(T, e)
    PROVE  /\ Sound(G) /\ Entries(G) = Entries(T) \cup {e} /\ Marks(G) = Marks(T)
           /\ G.size = T.size /\ G.keyCount = T.keyCount
           /\ G.sentinelCount = T.sentinelCount /\ G.lastIndexUsed = T.lastIndexUsed
           /\ Blank(T) => Blank(G)
  <1>1. Typed(T) /\ Shape(T) /\ Located(T)
    BY DEF Sound, Typed
  <1>2. PICK i, k : i = Find(T, e.key) /\ k = e.key
    OBVIOUS
  <1>3. Absent(T, k)
    BY <1>2 DEF Absent, Entries, Held
  <1>4. T.entries[i].key = NoKey /\ Place(T, k, i) /\ i \in SlotsOf(T)
    BY <1>1, <1>2, <1>3, FoundPlace DEF Place
  <1>5. G = [T EXCEPT !.entries[i] = e]
    BY <1>2 DEF insert
  <1>6. /\ G.size = T.size /\ G.keyCount = T.keyCount
        /\ G.sentinelCount = T.sentinelCount /\ G.lastIndexUsed = T.lastIndexUsed
        /\ G.entries = [T.entries EXCEPT ![i] = e] /\ Header(G)
    BY <1>1, <1>5 DEF Typed, Header
  <1>7. G.entries \in [SlotsOf(T) -> EntryType] /\ G.entries[i] = e
        /\ \A j \in SlotsOf(T) : j # i => G.entries[j] = T.entries[j]
    BY <1>1, <1>4, <1>6 DEF Shape, SlotsOf
  <1>8. Typed(G) /\ Writes(T, i, G)
    BY <1>1, <1>4, <1>6, <1>7 DEF Typed, Shape, Writes, SlotsOf
  <1>9. Sound(G)
    BY <1>2, <1>3, <1>4, <1>7, <1>8, PlacedSound
  <1>10. T.entries[i].key \notin Keys /\ T.entries[i].key # Deleted
    BY <1>4, KeysAssumption
  <1>11. Entries(G) = Entries(T) \cup {e} /\ Marks(G) = Marks(T) \ {i}
    BY <1>2, <1>7, <1>8, <1>10, Filled
  <1>12. i \notin Marks(T)
    BY <1>10 DEF Marks
  <1>13. Blank(T) => Blank(G)
    BY <1>6, <1>7, <1>11 DEF Blank, SlotsOf
  <1> QED
    BY <1>6, <1>9, <1>11, <1>12, <1>13

\* A new property goes to the first sentinel on the way, or to the end.
LEMMA Added ==
    ASSUME NEW T, Good(T), NEW k \in Keys, Absent(T, k), NEW v \in Values,
           NEW a \in AttributeSets, 2 * T.keyCount < T.size,
           NEW G, G = AddEntry(T, k, v, a)
    PROVE  /\ Good(G) /\ G.size = T.size /\ G.lastIndexUsed = T.lastIndexUsed + 1
           /\ Entries(G) = Entries(T) \cup {Entry(k, v, a, T.lastIndexUsed + 1)}
  <1>1. Typed(T) /\ Shape(T) /\ Located(T) /\ Sound(T) /\ Roomy(T)
    BY GoodRoomy DEF Good, Sound, Typed
  <1>2. PICK met : met = SentinelsMet(T, k)
    OBVIOUS
  <1>3. PICK i : i = IF met = {} THEN Find(T, k) ELSE At(T, k, Min(met))
    OBVIOUS
  <1>4. PICK n, x : n = Length(T, k) /\ x = Find(T, k)
    OBVIOUS
  <1>5. Reaches(T, k, n, x) /\ T.entries[x].key = NoKey
    BY <1>1, <1>4, Found, FoundPlace
  <1>6. n \in Nat /\ n < T.size /\ met = {m \in 0 .. n : T.entries[At(T, k, m)].key = Deleted}
    BY <1>1, <1>2, <1>4, <1>5 DEF Reaches, Shape, PowersOf2, SentinelsMet, At
  <1>7. /\ Place(T, k, i)
        /\ T.entries[i].key = IF met = {} THEN NoKey ELSE Deleted
    <2>1. CASE met = {}
      BY <1>1, <1>3, <2>1, FoundPlace
    <2>2. CASE met # {}
      <3>1. PICK m \in met : \A l \in met : m <= l
        BY <1>6, <2>2, LeastNumber
      <3>2. Min(met) = m
        <4>1. \A y \in met : (\A l \in met : y <= l) => y = m
          BY <1>6, <3>1
        <4> QED
          BY <3>1, <4>1 DEF Min
      <3>3. i = At(T, k, m) /\ m \in 0 .. n /\ T.entries[i].key = Deleted
        BY <1>3, <1>6, <2>2, <3>1, <3>2
      <3>4. i \in SlotsOf(T)
        BY <1>1, <3>3, AtType
      <3>5. \A l \in 0 .. m - 1 : At(T, k, l) # i
        BY <1>6, <3>1, <3>3
      <3> QED
        BY <1>5, <2>2, <3>3, <3>4, <3>5 DEF Place
    <2> QED
      BY <2>1, <2>2
  <1>8. PICK e : e = Entry(k, v, a, T.lastIndexUsed + 1)
    OBVIOUS
  <1>9. e \in EntryType /\ e.key = k /\ e.index = T.lastIndexUsed + 1 /\ T.lastIndexUsed \in Nat
    <2>1. T.lastIndexUsed \in Nat
      BY <1>1 DEF Typed, Header
    <2>2. T.lastIndexUsed + 1 \in Nat
      BY <2>1
    <2>3. e \in EntryType
      BY <1>8, <2>2, EntryIsTyped
    <2> QED
      BY <1>8, <2>1, <2>3 DEF Entry
  <1>22. PICK c \in Int : c = IF met = {} THEN T.sentinelCount ELSE T.sentinelCount - 1
    BY <1>1 DEF Typed, Header
  <1>23. PICK d, l : d = T.keyCount + 1 /\ l = T.lastIndexUsed + 1
    OBVIOUS
  <1>10. /\ d \in Int /\ l \in Nat /\ G = [T EXCEPT !.entries[i] = e, !.sentinelCount = c,
                          !.lastIndexUsed = l, !.keyCount = d]
    <2>1. d \in Int /\ l \in Nat
      BY <1>1, <1>23 DEF Typed, Header
    <2>2. AddEntry(T, k, v, a) =
            [T EXCEPT !.entries[i] = Entry(k, v, a, T.lastIndexUsed + 1),
                      !.sentinelCount = IF met = {} THEN @ ELSE @ - 1,
                      !.lastIndexUsed = @ + 1,
                      !.keyCount = @ + 1]
      BY <1>2, <1>3 DEF AddEntry, At
    <2> QED
      BY <1>1, <1>8, <1>22, <1>23, <2>1, <2>2 DEF Typed, Header
  <1>11. /\ G.size = T.size /\ G.entries = [T.entries EXCEPT ![i] = e]
         /\ G.keyCount = T.keyCount + 1 /\ G.lastIndexUsed = T.lastIndexUsed + 1
         /\ G.sentinelCount = c /\ Header(G)
    <2>1. Header(T)
      BY <1>1 DEF Typed
    <2>2. /\ G.size = T.size /\ G.entries = [T.entries EXCEPT ![i] = e]
          /\ G.keyCount = d /\ G.sentinelCount = c /\ G.lastIndexUsed = l /\ Header(G)
      <3>1. G = [size |-> T.size, entries |-> [T.entries EXCEPT ![i] = e],
                 keyCount |-> d, sentinelCount |-> c, lastIndexUsed |-> l]
        BY ONLY <1>10, <2>1 DEF Header
      <3> QED
        BY ONLY <1>10, <1>22, <3>1 DEF Header
    <2> QED
      BY ONLY <1>23, <2>2
  <1>12. i \in SlotsOf(T) /\ G.entries \in [SlotsOf(T) -> EntryType] /\ G.entries[i] = e
         /\ \A j \in SlotsOf(T) : j # i => G.entries[j] = T.entries[j]
    BY <1>1, <1>7, <1>9, <1>11 DEF Shape, SlotsOf, Place
  <1>13. Typed(G) /\ Writes(T, i, G)
    BY <1>1, <1>11, <1>12 DEF Typed, Shape, Writes, SlotsOf
  <1>14. \A f \in Entries(T) : f.index \in Nat /\ f.index <= T.lastIndexUsed
    BY <1>1 DEF Entries, Held, Shape, EntryType, SlotsOf, Good
  <1>15. Sound(G)
    BY <1>1, <1>7, <1>9, <1>12, <1>13, <1>14, PlacedSound
  <1>16. T.entries[i].key \notin Keys /\ (T.entries[i].key = Deleted <=> met # {})
    BY <1>7, KeysAssumption
  <1>17. /\ Cardinality(Held(G)) = Cardinality(Held(T)) + 1
         /\ Cardinality(Marks(G)) = Cardinality(Marks(T)) - (IF T.entries[i].key = Deleted THEN 1 ELSE 0)
         /\ Entries(G) = Entries(T) \cup {e}
    BY <1>9, <1>12, <1>13, <1>16, Filled
  <1>18. /\ T.keyCount = Cardinality(Held(T)) /\ T.sentinelCount = Cardinality(Marks(T))
         /\ 4 * T.sentinelCount < T.size
         /\ T.keyCount \in Nat /\ T.sentinelCount \in Nat /\ T.size \in Nat
    BY GoodRoomy DEF Good
  <1>19. 2 * G.keyCount <= G.size
    <2>1. PICK q \in Nat : T.size = 2 * q
      BY <1>1, Halved DEF Shape, Even, PowersOf2
    <2> QED
      BY <1>11, <1>18, <2>1
  <1>20. /\ G.keyCount = Cardinality(Held(G)) /\ G.sentinelCount = Cardinality(Marks(G))
         /\ 4 * G.sentinelCount < G.size
    BY <1>11, <1>16, <1>17, <1>18, <1>22
  <1>21. \A f \in Entries(G) : f.index <= G.lastIndexUsed
    BY <1>9, <1>11, <1>14, <1>17
  <1>24. Capped(G)
    <2>1. \A j \in SlotsOf(T) : T.entries[j].index \in Nat /\ T.entries[j].index <= T.lastIndexUsed
      BY <1>1 DEF Shape, EntryType, SlotsOf, Good, Capped
    <2> QED
      BY <1>9, <1>11, <1>12, <2>1 DEF Capped, SlotsOf
  <1> QED
    BY <1>8, <1>11, <1>15, <1>17, <1>19, <1>20, <1>21, <1>24 DEF Good

------------------------------------------------------------------------------
(* Moving into another table.                                              *)

Tables(size, count) ==
    [size : {size}, entries : [0 .. size - 1 -> EntryType], keyCount : {count},
     sentinelCount : {0}, lastIndexUsed : {0}]

LEMMA InsertType ==
    ASSUME NEW size, NEW count, NEW J \in Tables(size, count), NEW e \in EntryType
    PROVE  insert(J, e) \in Tables(size, count)
  <1>1. PICK i : i = Find(J, e.key)
    OBVIOUS
  <1>2. insert(J, e) = [J EXCEPT !.entries[i] = e]
    BY <1>1 DEF insert
  <1>3. PICK f : f = J.entries
    OBVIOUS
  <1>4. f \in [0 .. size - 1 -> EntryType]
    BY <1>3 DEF Tables
  <1>5. [f EXCEPT ![i] = e] \in [0 .. size - 1 -> EntryType]
    BY <1>4
  <1> QED
    BY <1>2, <1>3, <1>5 DEF Tables

\* The loop of rehash: one slot after the other, from start.
Moves(T, start, f) ==
    /\ f[0] = start
    /\ \A n \in 1 .. T.size :
        f[n] = IF isValid(T.entries[n - 1].key) THEN insert(f[n - 1], T.entries[n - 1])
               ELSE f[n - 1]

LEMMA MovedIs ==
    ASSUME NEW T, T.size \in Nat, T.entries \in [0 .. T.size - 1 -> EntryType],
           NEW size, NEW count, NEW start \in Tables(size, count)
    PROVE  \E f : Moves(T, start, f) /\ Moved(T, start) = f[T.size]
  <1> DEFINE N == T.size
             A == Tables(size, count)
             next(J, n) == IF isValid(T.entries[n - 1].key) THEN insert(J, T.entries[n - 1])
                           ELSE J
             step == [n \in 1 .. N |-> [J \in A |-> next(J, n)]]
             moved[i \in 0 .. N] ==
                IF i = 0 THEN start
                ELSE LET e == T.entries[i - 1] IN
                     IF isValid(e.key) THEN insert(moved[i - 1], e) ELSE moved[i - 1]
  <1>1. step \in [1 .. N -> [A -> A]]
    <2>1. ASSUME NEW n \in 1 .. N, NEW J \in A PROVE next(J, n) \in A
      <3>1. T.entries[n - 1] \in EntryType
        <4>1. n - 1 \in 0 .. N - 1
          OBVIOUS
        <4> QED
          BY <4>1
      <3> HIDE DEF A
      <3> QED
        BY <2>1, <3>1, InsertType DEF A
    <2> HIDE DEF A, next
    <2> QED
      BY <2>1
  <1>2. PICK f : Run(N, A, start, step, f)
    <2> HIDE DEF A, step, N
    <2>1. N \in Nat /\ start \in A
      BY DEF N, A
    <2> QED
      BY <1>1, <2>1, Recursion
  <1>3. /\ f[0] = start /\ \A n \in 1 .. N : f[n] = next(f[n - 1], n)
        /\ f \in [0 .. N -> A]
    <2>1. ASSUME NEW n \in 1 .. N PROVE f[n] = next(f[n - 1], n)
      <3>1. n - 1 \in 0 .. N
        OBVIOUS
      <3>2. f[n - 1] \in A /\ f[n] = step[n][f[n - 1]]
        <4> HIDE DEF A, step
        <4> QED
          BY <1>2, <3>1 DEF Run
      <3> HIDE DEF A, next
      <3> QED
        BY <3>2
    <2>2. f[0] = start /\ f \in [0 .. N -> A]
      <3> HIDE DEF A, step, N
      <3> QED
        BY <1>2 DEF Run
    <2> QED
      BY <2>1, <2>2
  <1>4. f = [i \in 0 .. N |->
                IF i = 0 THEN start
                ELSE LET e == T.entries[i - 1] IN
                     IF isValid(e.key) THEN insert(f[i - 1], e) ELSE f[i - 1]]
    <2>1. \A n \in 0 .. N : n = 0 \/ n \in 1 .. N
      OBVIOUS
    <2> HIDE DEF A, N
    <2> QED
      BY <1>3, <2>1
  <1>5. moved = [i \in 0 .. N |->
                IF i = 0 THEN start
                ELSE LET e == T.entries[i - 1] IN
                     IF isValid(e.key) THEN insert(moved[i - 1], e) ELSE moved[i - 1]]
    <2> HIDE DEF N
    <2> QED
      BY <1>4, Zenon
  <1>6. Moved(T, start) = moved[N]
    BY DEF Moved
  <1> HIDE DEF moved
  <1>7. Moves(T, start, moved)
    <2>1. 0 \in 0 .. N /\ \A n \in 1 .. N : n \in 0 .. N /\ n # 0
      OBVIOUS
    <2>2. moved[0] = start
      <3> HIDE DEF N
      <3> QED
        BY <1>5, <2>1
    <2>3. ASSUME NEW n \in 1 .. N PROVE moved[n] = next(moved[n - 1], n)
      <3>1. n \in 0 .. N /\ n # 0
        BY <2>1
      <3> HIDE DEF N
      <3> QED
        BY <1>5, <3>1
    <2> QED
      BY <2>2, <2>3 DEF Moves
  <1> QED
    BY <1>6, <1>7

LEMMA EmptyIs ==
    ASSUME NEW size \in PowersOf2, size >= 4, NEW count \in Int,
           NEW G, G = EmptyTable(size, count)
    PROVE  /\ Sound(G) /\ Roomy(G) /\ G \in Tables(size, count)
           /\ Entries(G) = {} /\ Held(G) = {} /\ Marks(G) = {} /\ Blank(G)
  <1>1. NullEntry \in EntryType /\ NullEntry.key = NoKey
    BY KeysAssumption DEF NullEntry, Entry, EntryType, AttributeSets
  <1>2. G \in Tables(size, count)
    BY <1>1 DEF EmptyTable, Tables
  <1>3. G.size = size /\ \A j \in 0 .. size - 1 : G.entries[j] = NullEntry
    BY DEF EmptyTable
  <1>4. Held(G) = {} /\ Marks(G) = {}
    BY <1>1, <1>3, KeysAssumption DEF Held, Marks, SlotsOf
  <1>5. Entries(G) = {}
    BY <1>4 DEF Entries
  <1>6. Typed(G)
    BY <1>2 DEF Tables, Typed, Header, Shape
  <1>7. Located(G)
    BY <1>4 DEF Located, Held
  <1>8. Roomy(G)
    <2>1. 0 \in SlotsOf(G)
      BY <1>3 DEF SlotsOf, PowersOf2
    <2> QED
      BY <1>1, <1>3, <2>1 DEF Roomy, SlotsOf
  <1>9. Blank(G)
    BY <1>3 DEF Blank, SlotsOf
  <1> QED
    BY <1>2, <1>4, <1>5, <1>6, <1>7, <1>8, <1>9 DEF Sound, Distinct

LEMMA MaxIs ==
    ASSUME NEW L \in Nat, NEW S, S \subseteq 0 .. L, S # {}
    PROVE  Max(S) \in S /\ \A x \in S : x <= Max(S)
  <1>1. PICK R : R = {L - x : x \in S}
    OBVIOUS
  <1>2. R \subseteq Nat /\ R # {}
    <2>1. \A x \in S : L - x \in Nat
      OBVIOUS
    <2> QED
      BY <1>1, <2>1
  <1>3. PICK n \in R : \A m \in R : n <= m
    BY <1>2, LeastNumber
  <1>4. PICK y \in S : n = L - y
    BY <1>1, <1>3
  <1>5. \A x \in S : x <= y
    BY <1>1, <1>3, <1>4
  <1>6. \A z \in S : (\A x \in S : x <= z) => z = y
    BY <1>5
  <1> QED
    BY <1>5, <1>6 DEF Max

\* What the loop of rehash has moved after n slots.
MovedUpTo(T, n) == {T.entries[j] : j \in {i \in Held(T) : i < n}}

LEMMA MovesKeep ==
    ASSUME NEW T, Shape(T), Located(T), Distinct(Entries(T)), Cardinality(Held(T)) < T.size,
           NEW size \in PowersOf2, size >= T.size, NEW count \in Int,
           NEW start, start = EmptyTable(size, count), NEW f, Moves(T, start, f),
           NEW F, F = f[T.size]
    PROVE  /\ Sound(F) /\ Entries(F) = Entries(T) /\ Marks(F) = {}
           /\ F.size = size /\ F.keyCount = count /\ F.sentinelCount = 0 /\ Blank(F)
  <1> DEFINE N == T.size
             P(n, J) ==
                /\ Sound(J) /\ Entries(J) = MovedUpTo(T, n) /\ Marks(J) = {}
                /\ J.size = size /\ J.keyCount = count /\ J.sentinelCount = 0 /\ Blank(J)
             S == {n \in 0 .. N : P(n, f[n])}
  <1>1. N \in Nat /\ N >= 4 /\ size \in Nat
    BY DEF Shape, PowersOf2
  <1>2. 0 \in S
    <2>1. f[0] = EmptyTable(size, count)
      BY DEF Moves
    <2>2. /\ Sound(f[0]) /\ Entries(f[0]) = {} /\ Marks(f[0]) = {} /\ Blank(f[0])
          /\ f[0] \in Tables(size, count)
      BY <1>1, <2>1, EmptyIs
    <2>3. MovedUpTo(T, 0) = {}
      BY <1>1 DEF MovedUpTo, Held, SlotsOf
    <2>4. f[0].size = size /\ f[0].keyCount = count /\ f[0].sentinelCount = 0
      BY <2>2 DEF Tables
    <2>5. P(0, f[0]) /\ 0 \in 0 .. N
      BY <1>1, <2>2, <2>3, <2>4
    <2> HIDE DEF P
    <2> QED
      BY <2>5
  <1>3. ASSUME NEW n \in 0 .. N - 1, n \in S PROVE n + 1 \in S
    <2>1. PICK J : J = f[n]
      OBVIOUS
    <2>2. P(n, J)
      BY <1>3, <2>1
    <2>3. n \in SlotsOf(T) /\ n + 1 \in 1 .. N /\ n + 1 \in 0 .. N /\ (n + 1) - 1 = n
      BY <1>1 DEF SlotsOf
    <2>4. PICK e : e = T.entries[n]
      OBVIOUS
    <2>5. f[n + 1] = IF e.key \in Keys THEN insert(J, e) ELSE J
      BY <2>1, <2>3, <2>4 DEF Moves, isValid
    <2>6. \A i \in Held(T) : i \in Nat /\ (i < n + 1 <=> i < n \/ i = n)
      BY <1>1 DEF Held, SlotsOf
    <2>7. CASE e.key \notin Keys
      <3>1. MovedUpTo(T, n + 1) = MovedUpTo(T, n)
        BY <2>4, <2>6, <2>7 DEF MovedUpTo, Held
      <3> QED
        BY <2>2, <2>3, <2>5, <2>7, <3>1
    <2>8. CASE e.key \in Keys
      <3>1. n \in Held(T) /\ e \in EntryType
        BY <2>3, <2>4, <2>8 DEF Held, Shape, SlotsOf
      <3>2. MovedUpTo(T, n + 1) = MovedUpTo(T, n) \cup {e}
        BY <2>4, <2>6, <3>1 DEF MovedUpTo
      <3>3. ASSUME NEW d \in MovedUpTo(T, n) PROVE d.key # e.key /\ d.index # e.index
        <4>1. PICK i \in Held(T) : i < n /\ d = T.entries[i]
          BY <3>3 DEF MovedUpTo
        <4>2. i # n
          BY <2>3, <4>1 DEF Held, SlotsOf
        <4>3. d.key # e.key
          BY <2>4, <3>1, <4>1, <4>2, HeldOnce
        <4>4. d \in Entries(T) /\ e \in Entries(T)
          BY <2>4, <3>1, <4>1 DEF Entries
        <4> QED
          BY <4>3, <4>4 DEF Distinct
      <3>4. Roomy(J)
        <4>1. Shape(J) /\ Located(J)
          BY <2>2 DEF Sound, Typed
        <4>2. MovedUpTo(T, n) \subseteq Entries(T)
          BY DEF MovedUpTo, Entries
        <4>3. Cardinality(Held(J)) = Cardinality(Entries(J))
          BY <4>1, EntriesCounted
        <4>4. Cardinality(Entries(J)) <= Cardinality(Entries(T))
          BY <2>2, <4>2, EntriesCounted, FS_Subset
        <4>5. /\ Cardinality(Entries(T)) = Cardinality(Held(T)) /\ Cardinality(Held(T)) \in Nat
              /\ Cardinality(Held(J)) \in Nat
          BY <4>1, EntriesCounted, SlotsFinite
        <4>6. Cardinality(Marks(J)) = 0
          BY <2>2, FS_EmptySet
        <4>7. Cardinality(Held(J)) + Cardinality(Marks(J)) < J.size
          BY <1>1, <2>2, <4>3, <4>4, <4>5, <4>6
        <4> QED
          BY <4>1, <4>7, FewRoomy
      <3>5. PICK G : G = insert(J, e)
        OBVIOUS
      <3>6. /\ Sound(G) /\ Entries(G) = Entries(J) \cup {e} /\ Marks(G) = Marks(J)
            /\ G.size = J.size /\ G.keyCount = J.keyCount /\ G.sentinelCount = J.sentinelCount
            /\ Blank(G)
        BY <2>2, <2>8, <3>1, <3>3, <3>4, <3>5, Inserted
      <3> QED
        BY <2>2, <2>3, <2>5, <2>8, <3>2, <3>5, <3>6
    <2> QED
      BY <2>7, <2>8
  <1>4. N \in S
    <2> HIDE DEF S
    <2>1. 0 .. N \subseteq S
      BY <1>1, <1>2, <1>3, IntervalInduction
    <2> QED
      BY <1>1, <2>1
  <1>5. MovedUpTo(T, N) = Entries(T)
    BY <1>1 DEF MovedUpTo, Entries, Held, SlotsOf
  <1> QED
    BY <1>4, <1>5

\* Rehashing loses nothing but the sentinels.
LEMMA Rehashed ==
    ASSUME NEW T, Sound(T), \A e \in Entries(T) : e.index <= T.lastIndexUsed,
           T.keyCount = Cardinality(Held(T)), 2 * T.keyCount <= T.size,
           NEW size \in PowersOf2, size >= T.size, NEW s, s.key = NoKey,
           NEW G, G = rehash(T, s, size)
    PROVE  /\ Good(G) /\ Entries(G) = Entries(T) /\ G.size = size
           /\ G.keyCount = T.keyCount /\ G.lastIndexUsed <= T.lastIndexUsed
  <1>1. /\ Shape(T) /\ Located(T) /\ Distinct(Entries(T)) /\ T.lastIndexUsed \in Nat
        /\ T.keyCount \in Nat /\ T.size \in Nat /\ T.size >= 4 /\ size \in Nat
    BY SlotsFinite DEF Sound, Typed, Header, Shape, PowersOf2
  <1>2. Cardinality(Held(T)) < T.size
    BY <1>1
  <1>3. PICK start : start = EmptyTable(size, T.keyCount)
    OBVIOUS
  <1>4. start \in Tables(size, T.keyCount)
    BY <1>1, <1>3, EmptyIs
  <1>5. PICK f : Moves(T, start, f) /\ Moved(T, start) = f[T.size]
    BY <1>1, <1>4, MovedIs DEF Shape
  <1>6. PICK J : J = f[T.size]
    OBVIOUS
  <1>7. /\ Sound(J) /\ Entries(J) = Entries(T) /\ Marks(J) = {}
        /\ J.size = size /\ J.keyCount = T.keyCount /\ J.sentinelCount = 0 /\ Blank(J)
    <2>1. PICK c : c = T.keyCount
      OBVIOUS
    <2>2. Moves(T, start, f) /\ start = EmptyTable(size, c) /\ c \in Int
      BY <1>1, <1>3, <1>5, <2>1
    <2>3. size \in PowersOf2 /\ size >= T.size
      OBVIOUS
    <2>4. Shape(T) /\ Located(T) /\ Distinct(Entries(T))
      BY <1>1
    <2>5. /\ Sound(J) /\ Entries(J) = Entries(T) /\ Marks(J) = {}
          /\ J.size = size /\ J.keyCount = c /\ J.sentinelCount = 0 /\ Blank(J)
      BY ONLY <1>2, <1>6, <2>2, <2>3, <2>4, MovesKeep
    <2> QED
      BY ONLY <2>1, <2>5
  <1>8. PICK I : I = {T.entries[i].index : i \in {j \in 0 .. T.size - 1 :
                                                    isValid(T.entries[j].key)}}
    OBVIOUS
  <1>9. PICK l : l = Max(I \cup {0})
    OBVIOUS
  <1>10. I = {e.index : e \in Entries(T)}
    BY <1>8 DEF Entries, Held, SlotsOf, isValid
  <1>11. l \in 0 .. T.lastIndexUsed /\ \A e \in Entries(T) : e.index <= l
    <2>1. PICK S : S = I \cup {0}
      OBVIOUS
    <2>2. \A e \in Entries(T) : e.index \in Nat
      BY <1>1 DEF Entries, Held, Shape, EntryType, SlotsOf
    <2>3. S \subseteq 0 .. T.lastIndexUsed /\ S # {}
      BY <1>1, <1>10, <2>1, <2>2
    <2>4. l \in S /\ \A x \in S : x <= l
      BY <1>1, <1>9, <2>1, <2>3, MaxIs
    <2> QED
      BY <1>10, <2>1, <2>3, <2>4
  <1>12. G = [J EXCEPT !.lastIndexUsed = l]
    BY <1>3, <1>5, <1>6, <1>8, <1>9 DEF rehash
  <1>13. /\ G.size = J.size /\ G.entries = J.entries /\ G.keyCount = J.keyCount
         /\ G.sentinelCount = J.sentinelCount /\ G.lastIndexUsed = l /\ Header(G)
    <2>1. Header(J) /\ l \in Nat
      BY <1>1, <1>7, <1>11 DEF Sound, Typed
    <2> QED
      BY <1>12, <2>1 DEF Header
  <1>14. /\ SlotsOf(G) = SlotsOf(J) /\ Held(G) = Held(J) /\ Marks(G) = Marks(J)
         /\ Entries(G) = Entries(J)
    BY <1>13 DEF SlotsOf, Held, Marks, Entries
  <1>15. Sound(G)
    <2>1. Typed(G)
      BY <1>7, <1>13 DEF Sound, Typed, Shape
    <2>2. \A k, n, i : Reaches(G, k, n, i) <=> Reaches(J, k, n, i)
      BY <1>13 DEF Reaches, At
    <2>3. Located(G)
      BY <1>7, <1>13, <1>14, <2>2 DEF Located, Sound
    <2> QED
      BY <1>7, <1>14, <2>1, <2>3 DEF Sound
  <1>16. Cardinality(Held(G)) = Cardinality(Held(T))
    <2>1. Shape(J) /\ Located(J)
      BY <1>7 DEF Sound, Typed
    <2> QED
      BY <1>1, <1>7, <1>14, <2>1, EntriesCounted
  <1>17. Cardinality(Marks(G)) = 0
    BY <1>7, <1>14, FS_EmptySet
  <1>18. 2 * G.keyCount <= G.size /\ 4 * G.sentinelCount < G.size
    BY <1>1, <1>7, <1>13
  <1>19. G.keyCount = Cardinality(Held(G)) /\ G.sentinelCount = Cardinality(Marks(G))
    BY <1>7, <1>13, <1>16, <1>17
  <1>20. \A e \in Entries(G) : e.index <= G.lastIndexUsed
    BY <1>7, <1>11, <1>13, <1>14
  <1>22. Capped(G)
    <2>1. \A j \in SlotsOf(G) : G.entries[j] \in Entries(T) \/ G.entries[j] = NullEntry
      BY <1>7, <1>13, <1>14 DEF Blank
    <2>2. NullEntry.index <= l
      BY <1>1, <1>11 DEF NullEntry, Entry
    <2> QED
      BY <1>11, <1>13, <2>1, <2>2 DEF Capped
  <1>21. Good(G)
    BY <1>15, <1>18, <1>19, <1>20, <1>22 DEF Good
  <1> QED
    BY <1>7, <1>11, <1>13, <1>14, <1>21

\* The single entry becomes the first of a table.
LEMMA FirstTable ==
    ASSUME NEW s \in EntryType, s.key \in Keys, s.index = 0, NEW G, G = expand(NoTable, s)
    PROVE  /\ Good(G) /\ Entries(G) = {s} /\ G.size = InitialSize
           /\ G.keyCount = 1 /\ G.lastIndexUsed = 0
  <1>1. /\ InitialSize \in PowersOf2 /\ InitialSize >= 4 /\ InitialSize \in Nat
    BY SizeAssumption DEF PowersOf2
  <1>2. NoTable.size = 0 /\ NoTable.entries = <<>> /\ NoTable.keyCount = 0
    BY DEF NoTable
  <1>3. s.key # NoKey /\ [s EXCEPT !.index = 0] = s
    BY KeysAssumption DEF EntryType
  <1>4. PICK start, E : E = EmptyTable(InitialSize, 1) /\ start = insert(E, s)
    OBVIOUS
  <1>5. /\ Sound(E) /\ Roomy(E) /\ E \in Tables(InitialSize, 1)
        /\ Entries(E) = {} /\ Marks(E) = {} /\ Blank(E)
    BY <1>1, <1>4, EmptyIs
  <1>6. /\ Sound(start) /\ Entries(start) = {s} /\ Marks(start) = {}
        /\ start.size = InitialSize /\ start.keyCount = 1 /\ start.sentinelCount = 0
        /\ start.lastIndexUsed = 0 /\ start \in Tables(InitialSize, 1) /\ Blank(start)
    <2>1. /\ Sound(start) /\ Entries(start) = Entries(E) \cup {s} /\ Marks(start) = Marks(E)
          /\ Blank(start)
      BY <1>4, <1>5, Inserted
    <2>2. start \in Tables(InitialSize, 1)
      BY <1>4, <1>5, InsertType
    <2> QED
      BY <1>5, <2>1, <2>2 DEF Tables
  <1>7. Moved(NoTable, start) = start
    <2>1. NoTable.size \in Nat /\ NoTable.entries \in [0 .. NoTable.size - 1 -> EntryType]
      BY <1>2
    <2>2. PICK f : Moves(NoTable, start, f) /\ Moved(NoTable, start) = f[NoTable.size]
      BY <1>6, <2>1, MovedIs
    <2> QED
      BY <1>2, <2>2 DEF Moves
  <1>8. PICK I : I = {NoTable.entries[i].index : i \in {j \in 0 .. NoTable.size - 1 :
                                                    isValid(NoTable.entries[j].key)}}
    OBVIOUS
  <1>9. Max(I \cup {0}) = 0
    <2>1. I = {}
      BY <1>2, <1>8
    <2>2. Max({0}) \in {0}
      BY MaxIs
    <2> QED
      BY <2>1, <2>2
  <1>10. G = [start EXCEPT !.lastIndexUsed = 0]
    <2>1. G = rehash(NoTable, s, InitialSize)
      BY <1>2 DEF expand
    <2>2. start = insert(EmptyTable(InitialSize, NoTable.keyCount + 1), [s EXCEPT !.index = 0])
      BY <1>2, <1>3, <1>4
    <2> QED
      BY <1>3, <1>7, <1>8, <1>9, <2>1, <2>2 DEF rehash
  <1>11. G = start
    BY <1>6, <1>10 DEF Tables
  <1>12. Cardinality(Held(G)) = 1 /\ Cardinality(Marks(G)) = 0
    <2>1. Shape(G) /\ Located(G)
      BY <1>6, <1>11 DEF Sound, Typed
    <2>2. Cardinality({s}) = 1
      BY FS_Singleton
    <2> QED
      BY <1>6, <1>11, <2>1, <2>2, EntriesCounted, FS_EmptySet
  <1>13. \A e \in Entries(G) : e.index <= G.lastIndexUsed
    BY <1>6, <1>11
  <1>15. Capped(G)
    <2>1. NullEntry.index = 0
      BY DEF NullEntry, Entry
    <2> QED
      BY <1>6, <1>11, <2>1 DEF Capped, Blank
  <1>14. Good(G)
    BY <1>1, <1>6, <1>11, <1>12, <1>13, <1>15 DEF Good
  <1> QED
    BY <1>6, <1>11, <1>14

------------------------------------------------------------------------------
(* put and remove in a table.                                              *)

NameIn(E, k) == \E e \in E : e.key = k
Assigned(E, F, k, v) ==
    \E e \in E : e.key = k /\ F = (E \ {e}) \cup {[e EXCEPT !.value = v]}
Without(E, k) == {e \in E : e.key # k}

LEMMA EntriesTyped ==
    ASSUME NEW T, Sound(T), NEW e \in Entries(T)
    PROVE  e \in EntryType /\ e.key \in Keys /\ e.index \in Nat
  BY DEF Sound, Typed, Shape, Entries, Held, SlotsOf, EntryType

LEMMA AbsentName ==
    ASSUME NEW T, NEW k \in Keys
    PROVE  Absent(T, k) <=> ~ NameIn(Entries(T), k)
  BY DEF Absent, NameIn, Entries, Held

\* An entry whose name is kept is written over.
LEMMA OverwrittenGood ==
    ASSUME NEW T, Good(T), NEW i \in Held(T), NEW e \in EntryType,
           e.key = T.entries[i].key, e.index = T.entries[i].index,
           NEW G, G = [T EXCEPT !.entries[i] = e]
    PROVE  /\ Good(G) /\ G.size = T.size /\ G.lastIndexUsed = T.lastIndexUsed
           /\ Entries(G) = (Entries(T) \ {T.entries[i]}) \cup {e}
  <1>1. Typed(T) /\ Shape(T) /\ Located(T) /\ Sound(T) /\ Header(T) /\ i \in SlotsOf(T)
    BY DEF Good, Sound, Typed, Held
  <1>2. /\ G.size = T.size /\ G.keyCount = T.keyCount
        /\ G.sentinelCount = T.sentinelCount /\ G.lastIndexUsed = T.lastIndexUsed
        /\ G.entries = [T.entries EXCEPT ![i] = e] /\ Header(G)
    BY <1>1 DEF Header
  <1>3. /\ G.entries \in [SlotsOf(T) -> EntryType] /\ G.entries[i] = e
        /\ \A j \in SlotsOf(T) : j # i => G.entries[j] = T.entries[j]
    BY ONLY <1>1, <1>2, e \in EntryType DEF Shape, SlotsOf
  <1>4. Typed(G) /\ Writes(T, i, G)
    BY <1>1, <1>2, <1>3 DEF Typed, Shape, Writes, SlotsOf
  <1>5. T.entries[i].key \in Keys
    BY DEF Held
  <1>12. G.entries[i].key = T.entries[i].key
    BY <1>3
  <1>6. Located(G)
    BY ONLY <1>1, <1>4, <1>12, KeptLocated
  <1>7. /\ Held(G) = Held(T) /\ Marks(G) = Marks(T)
        /\ Entries(G) = (Entries(T) \ {T.entries[i]}) \cup {e}
    BY ONLY <1>1, <1>3, <1>4, <1>5, <1>12, Changed
  <1>8. T.entries[i] \in Entries(T)
    BY DEF Entries
  <1>9. Distinct(Entries(G))
    BY <1>1, <1>7, <1>8 DEF Distinct, Sound
  <1>10. \A f \in Entries(G) : f.index <= G.lastIndexUsed
    BY <1>2, <1>7, <1>8 DEF Good
  <1>11. Sound(G)
    BY <1>4, <1>6, <1>9 DEF Sound
  <1>13. Capped(G)
    <2>1. \A j \in SlotsOf(T) : T.entries[j].index <= T.lastIndexUsed
      BY DEF Good, Capped
    <2> QED
      BY <1>1, <1>2, <1>3, <2>1 DEF Capped, SlotsOf
  <1> QED
    BY <1>2, <1>7, <1>10, <1>11, <1>13 DEF Good

LEMMA PutIn ==
    ASSUME NEW T, Good(T), NEW k \in Keys, NEW v \in Values, NEW a \in AttributeSets,
           NEW ro, 2 * T.keyCount < T.size, NEW G, G = PutInTable(T, k, v, a, ro)
    PROVE  /\ Good(G) /\ G.size = T.size
           /\ \/ G = T /\ NameIn(Entries(T), k)
              \/ /\ Assigned(Entries(T), Entries(G), k, v)
                 /\ G.lastIndexUsed = T.lastIndexUsed
              \/ /\ ~ NameIn(Entries(T), k) /\ G.lastIndexUsed = T.lastIndexUsed + 1
                 /\ Entries(G) = Entries(T) \cup {Entry(k, v, a, T.lastIndexUsed + 1)}
  <1>1. Shape(T) /\ Located(T) /\ Roomy(T) /\ Header(T) /\ Sound(T)
    BY GoodRoomy DEF Good, Sound, Typed
  <1>2. PICK i : i = Find(T, k)
    OBVIOUS
  <1>3. i \in SlotsOf(T) /\ (T.entries[i].key = k \/ (T.entries[i].key = NoKey /\ Absent(T, k)))
    BY <1>1, <1>2, Found
  <1>4. CASE T.entries[i].key = NoKey
    <2>1. Absent(T, k) /\ G = AddEntry(T, k, v, a)
      BY <1>2, <1>3, <1>4, KeysAssumption DEF PutInTable
    <2>2. ~ NameIn(Entries(T), k)
      BY <2>1, AbsentName
    <2> QED
      BY <2>1, <2>2, Added
  <1>5. CASE T.entries[i].key = k
    <2>1. T.entries[i].key # NoKey /\ i \in Held(T)
      BY <1>3, <1>5, KeysAssumption DEF Held
    <2>2. CASE G = T
      <3>1. NameIn(Entries(T), k)
        BY <1>5, <2>1 DEF NameIn, Entries
      <3> QED
        BY <2>2, <3>1
    <2>3. CASE G # T
      <3>1. PICK e, d : d = T.entries[i] /\ e = [d EXCEPT !.value = v]
        OBVIOUS
      <3>2. G = [T EXCEPT !.entries[i].value = v]
        BY <1>2, <2>1, <2>3 DEF PutInTable
      <3>3. G = [T EXCEPT !.entries[i] = e]
        BY <3>1, <3>2
      <3>4. d \in Entries(T) /\ d \in EntryType /\ d.key = k
        BY <1>1, <1>5, <2>1, <3>1, EntriesTyped DEF Entries
      <3>5. e \in EntryType /\ e.key = d.key /\ e.index = d.index
        BY <3>1, <3>4, KeysAssumption DEF EntryType
      <3>6. /\ Good(G) /\ G.size = T.size /\ G.lastIndexUsed = T.lastIndexUsed
            /\ Entries(G) = (Entries(T) \ {d}) \cup {e}
        <4>1. e.key = T.entries[i].key /\ e.index = T.entries[i].index
          BY <3>1, <3>5
        <4>2. /\ Good(G) /\ G.size = T.size /\ G.lastIndexUsed = T.lastIndexUsed
              /\ Entries(G) = (Entries(T) \ {T.entries[i]}) \cup {e}
          BY ONLY Good(T), <2>1, <3>3, <3>5, <4>1, OverwrittenGood
        <4> QED
          BY <3>1, <4>2
      <3> QED
        BY <3>1, <3>4, <3>6 DEF Assigned
    <2> QED
      BY <2>2, <2>3
  <1> QED
    BY <1>3, <1>4, <1>5

LEMMA RemovedFrom ==
    ASSUME NEW T, Good(T), NEW k \in Keys, NEW G, G = RemoveFromTable(T, k)
    PROVE  /\ Good(G) /\ G.size = T.size /\ G.lastIndexUsed <= T.lastIndexUsed
           /\ Entries(G) = Without(Entries(T), k)
  <1>1. /\ Shape(T) /\ Located(T) /\ Roomy(T) /\ Header(T) /\ Sound(T) /\ Typed(T)
        /\ T.lastIndexUsed \in Nat /\ T.keyCount \in Nat /\ T.sentinelCount \in Nat
        /\ T.size \in Nat /\ T.size \in PowersOf2
    BY GoodRoomy DEF Good, Sound, Typed, Header, Shape
  <1>2. PICK i : i = Find(T, k)
    OBVIOUS
  <1>3. i \in SlotsOf(T) /\ (T.entries[i].key = k \/ (T.entries[i].key = NoKey /\ Absent(T, k)))
    BY <1>1, <1>2, Found
  <1>4. CASE T.entries[i].key = NoKey
    <2>1. G = T /\ ~ NameIn(Entries(T), k)
      BY <1>2, <1>3, <1>4, AbsentName, KeysAssumption DEF RemoveFromTable
    <2> QED
      BY <1>1, <2>1 DEF NameIn, Without
  <1>5. CASE T.entries[i].key = k
    <2>1. T.entries[i].key # NoKey /\ i \in Held(T) /\ T.entries[i].key \in Keys
      BY <1>3, <1>5, KeysAssumption DEF Held
    <2>2. PICK e, c, d : /\ e = [T.entries[i] EXCEPT !.key = Deleted, !.value = NoKey,
                                                     !.attributes = {"DontEnum"}]
                         /\ c = T.sentinelCount + 1 /\ d = T.keyCount - 1
      OBVIOUS
    <2>3. PICK R : R = [T EXCEPT !.entries[i] = e, !.keyCount = d, !.sentinelCount = c]
      OBVIOUS
    <2>4. G = IF R.sentinelCount * 4 >= R.size THEN rehash(R, NullEntry, R.size) ELSE R
      BY <1>2, <2>1, <2>2, <2>3 DEF RemoveFromTable
    <2>5. T.entries[i] \in EntryType
      BY <1>1, <1>3 DEF Shape, SlotsOf
    <2>6. e \in EntryType /\ e.key = Deleted
      BY <2>2, <2>5, KeysAssumption DEF EntryType, AttributeSets
    <2>7. c \in Nat /\ d \in Int
      BY <1>1, <2>2
    <2>8. /\ R.size = T.size /\ R.keyCount = d
          /\ R.sentinelCount = c /\ R.lastIndexUsed = T.lastIndexUsed
          /\ R.entries = [T.entries EXCEPT ![i] = e] /\ Header(R)
      <3>1. PICK n, x, l : n = T.size /\ x = T.entries /\ l = T.lastIndexUsed
        OBVIOUS
      <3>2. R = [size |-> n, entries |-> [x EXCEPT ![i] = e], keyCount |-> d,
                 sentinelCount |-> c, lastIndexUsed |-> l]
        <4>1. Header(T)
          BY <1>1
        <4> QED
          BY ONLY <2>3, <3>1, <4>1 DEF Header
      <3>3. l \in Nat
        BY <1>1, <3>1
      <3>4. /\ R.size = n /\ R.keyCount = d /\ R.sentinelCount = c /\ R.lastIndexUsed = l
            /\ R.entries = [x EXCEPT ![i] = e] /\ Header(R)
        BY ONLY <2>7, <3>2, <3>3 DEF Header
      <3> QED
        BY <3>1, <3>4
    <2>9. /\ R.entries \in [SlotsOf(T) -> EntryType] /\ R.entries[i] = e
          /\ \A j \in SlotsOf(T) : j # i => R.entries[j] = T.entries[j]
      BY <1>1, <1>3, <2>6, <2>8 DEF Shape, SlotsOf
    <2>10. Typed(R) /\ Writes(T, i, R)
      BY <1>1, <1>3, <2>8, <2>9 DEF Typed, Shape, Writes, SlotsOf
    <2>11. Located(R)
      BY <1>1, <2>1, <2>6, <2>9, <2>10, KeptLocated
    <2>12. /\ Cardinality(Held(R)) = Cardinality(Held(T)) - 1
           /\ Cardinality(Marks(R)) = Cardinality(Marks(T)) + 1
           /\ Entries(R) = Entries(T) \ {T.entries[i]}
      BY <1>1, <2>1, <2>6, <2>9, <2>10, Erased
    <2>13. Entries(R) = Without(Entries(T), k)
      <3>1. \A f \in Entries(T) : f.key = k <=> f = T.entries[i]
        BY <1>1, <1>5, <2>1 DEF Sound, Distinct, Entries
      <3> QED
        BY <2>12, <3>1 DEF Without
    <2>14. Sound(R) /\ \A f \in Entries(R) : f.index <= R.lastIndexUsed
      BY <1>1, <2>8, <2>10, <2>11, <2>12 DEF Sound, Distinct, Good
    <2>15. /\ R.keyCount = Cardinality(Held(R)) /\ R.sentinelCount = Cardinality(Marks(R))
           /\ 2 * R.keyCount <= R.size
      BY <1>1, <2>2, <2>8, <2>12 DEF Good
    <2>16. CASE R.sentinelCount * 4 >= R.size
      <3>1. G = rehash(R, NullEntry, R.size) /\ NullEntry.key = NoKey
        BY <2>4, <2>16 DEF NullEntry, Entry
      <3>2. /\ Good(G) /\ Entries(G) = Entries(R) /\ G.size = R.size
            /\ G.lastIndexUsed <= R.lastIndexUsed
        <4>1. PICK N, s : N = R.size /\ s = NullEntry
          OBVIOUS
        <4>2. N \in PowersOf2 /\ N >= R.size /\ s.key = NoKey /\ G = rehash(R, s, N)
          BY <1>1, <2>8, <3>1, <4>1
        <4> QED
          BY ONLY <2>14, <2>15, <4>1, <4>2, Rehashed
      <3> QED
        BY <2>8, <2>13, <3>2
    <2>17. CASE ~(R.sentinelCount * 4 >= R.size)
      <3>1. G = R
        BY <2>4, <2>17
      <3>2. 4 * R.sentinelCount < R.size
        BY <1>1, <2>7, <2>8, <2>17
      <3>4. Capped(R)
        <4>1. \A j \in SlotsOf(T) : T.entries[j].index <= T.lastIndexUsed
          BY DEF Good, Capped
        <4>2. R.entries[i].index = T.entries[i].index
          BY <2>2, <2>5, <2>9 DEF EntryType
        <4> QED
          BY <1>3, <2>8, <2>9, <4>1, <4>2 DEF Capped, SlotsOf
      <3>3. Good(R)
        BY <2>14, <2>15, <3>2, <3>4 DEF Good
      <3> QED
        BY <1>1, <2>8, <2>13, <3>1, <3>3
    <2> QED
      BY <2>16, <2>17
  <1> QED
    BY <1>3, <1>4, <1>5

------------------------------------------------------------------------------
(* The entries in the order of their indices.                              *)

\* B maps the elements of S to those before them.
Ordering(S, B) ==
    /\ B \in [S -> SUBSET S]
    /\ \A i \in S : i \notin B[i]
    /\ \A i, j \in S : i # j => i \in B[j] \/ j \in B[i]
    /\ \A i, j \in S : i \in B[j] => B[i] \subseteq B[j]

\* Counting those before it numbers the elements of a finite set from 0.
LEMMA Ranks ==
    ASSUME NEW S, IsFiniteSet(S), NEW B, Ordering(S, B)
    PROVE  /\ Cardinality(S) \in Nat
           /\ \A i \in S : Cardinality(B[i]) \in 0 .. Cardinality(S) - 1
           /\ \A i, j \in S : Cardinality(B[i]) = Cardinality(B[j]) => i = j
           /\ \A i, j \in S : i \in B[j] <=> Cardinality(B[i]) < Cardinality(B[j])
           /\ \A n \in 0 .. Cardinality(S) - 1 : \E i \in S : Cardinality(B[i]) = n
  <1>1. Cardinality(S) \in Nat
    BY FS_CardinalityType
  <1>2. ASSUME NEW X, NEW Y, X \subseteq Y, IsFiniteSet(Y), NEW y \in Y, y \notin X
        PROVE  Cardinality(X) \in Nat /\ Cardinality(Y) \in Nat /\ Cardinality(X) < Cardinality(Y)
    <2>1. IsFiniteSet(X) /\ Cardinality(X) <= Cardinality(Y) /\ (Cardinality(X) = Cardinality(Y) => X = Y)
      BY ONLY <1>2, FS_Subset
    <2>2. Cardinality(X) \in Nat /\ Cardinality(Y) \in Nat
      BY ONLY <1>2, <2>1, FS_CardinalityType
    <2>3. X # Y
      BY <1>2
    <2> QED
      BY ONLY <2>1, <2>2, <2>3
  <1>3. \A i \in S : B[i] \subseteq S /\ i \notin B[i] /\ IsFiniteSet(B[i])
    BY FS_Subset DEF Ordering
  <1>4. ASSUME NEW i \in S PROVE Cardinality(B[i]) \in 0 .. Cardinality(S) - 1
    <2>1. Cardinality(B[i]) \in Nat /\ Cardinality(B[i]) < Cardinality(S)
      BY <1>2, <1>3
    <2> QED
      BY <1>1, <2>1
  <1>5. ASSUME NEW i \in S, NEW j \in S, i \in B[j] PROVE Cardinality(B[i]) < Cardinality(B[j])
    <2>1. B[i] \subseteq B[j]
      BY <1>5 DEF Ordering
    <2> QED
      BY <1>2, <1>3, <1>5, <2>1
  <1>6. ASSUME NEW i \in S, NEW j \in S, Cardinality(B[i]) = Cardinality(B[j]) PROVE i = j
    <2>1. ~(i \in B[j]) /\ ~(j \in B[i])
      BY <1>1, <1>4, <1>5, <1>6
    <2> QED
      BY <2>1 DEF Ordering
  <1>7. ASSUME NEW i \in S, NEW j \in S, Cardinality(B[i]) < Cardinality(B[j]) PROVE i \in B[j]
    <2>1. Cardinality(B[i]) \in Int /\ Cardinality(B[j]) \in Int
      BY <1>1, <1>4
    <2>2. i # j /\ ~(j \in B[i])
      BY <1>5, <1>7, <2>1
    <2> QED
      BY <2>2 DEF Ordering
  <1>8. ASSUME NEW n \in 0 .. Cardinality(S) - 1 PROVE \E i \in S : Cardinality(B[i]) = n
    <2>1. PICK R : R = 0 .. Cardinality(S) - 1
      OBVIOUS
    <2>2. PICK f : f = [i \in S |-> Cardinality(B[i])]
      OBVIOUS
    <2>3. f \in Injection(S, R)
      BY <1>4, <1>6, <2>1, <2>2 DEF Injection, IsInjective
    <2>4. IsFiniteSet(R) /\ Cardinality(R) = Cardinality(S)
      <3>1. PICK m, c : c = Cardinality(S) /\ m = c - 1
        OBVIOUS
      <3>2. m \in Int /\ 0 \in Int /\ c \in Nat /\ (IF 0 > m THEN 0 ELSE m - 0 + 1) = c
        BY <1>1, <3>1
      <3>3. IsFiniteSet(0 .. m) /\ Cardinality(0 .. m) = IF 0 > m THEN 0 ELSE m - 0 + 1
        BY ONLY <3>2, FS_Interval
      <3> QED
        BY <2>1, <3>1, <3>2, <3>3
    <2>5. f \in Surjection(S, R)
      BY ONLY <2>3, <2>4, FS_Injection
    <2>6. \A x \in R : \E i \in S : f[i] = x
      BY <2>5 DEF Surjection
    <2> QED
      BY <2>1, <2>2, <2>6
  <1> QED
    BY <1>1, <1>4, <1>5, <1>6, <1>7, <1>8

\* t lists the entries in E from the lowest index to the highest.
Enumerates(t, E) ==
    /\ Cardinality(E) \in Nat /\ IsFiniteSet(E)
    /\ t \in [1 .. Cardinality(E) -> E]
    /\ \A e \in E : \E n \in 1 .. Cardinality(E) : t[n] = e
    /\ \A n, p \in 1 .. Cardinality(E) : n < p => t[n].index < t[p].index

LEMMA EnumeratesOnce ==
    ASSUME NEW E, \A e \in E : e.index \in Nat, NEW t, Enumerates(t, E),
           NEW u, Enumerates(u, E)
    PROVE  t = u
  <1> DEFINE D == 1 .. Cardinality(E)
             N == {n \in D : t[n] # u[n]}
  <1>1. /\ t \in [D -> E] /\ u \in [D -> E] /\ D \subseteq Nat
        /\ \A n, p \in D : n < p => t[n].index < t[p].index /\ u[n].index < u[p].index
        /\ \A e \in E : (\E n \in D : t[n] = e) /\ (\E n \in D : u[n] = e)
    BY DEF Enumerates
  <1> HIDE DEF D
  <1>2. SUFFICES ASSUME N # {} PROVE FALSE
    BY <1>1
  <1>3. PICK n \in N : \A m \in N : n <= m
    BY <1>1, <1>2, LeastNumber
  <1>4. /\ n \in D /\ n \in Nat /\ t[n] # u[n]
        /\ \A p \in D : p < n => t[p] = u[p]
    BY <1>1, <1>3
  <1>5. PICK p \in D : u[p] = t[n]
    BY <1>1, <1>4
  <1>6. PICK q \in D : t[q] = u[n]
    BY <1>1, <1>4
  <1>7. t[n].index \in Nat /\ u[n].index \in Nat
    BY <1>1, <1>4
  <1>8. ~(p < n) /\ ~(q < n)
    BY <1>1, <1>4, <1>5, <1>6, <1>7
  <1>9. p # n /\ q # n
    BY <1>4, <1>5, <1>6
  <1>10. n < p /\ n < q
    BY <1>1, <1>4, <1>8, <1>9
  <1>11. u[n].index < t[n].index /\ t[n].index < u[n].index
    BY <1>1, <1>4, <1>5, <1>6, <1>10
  <1> QED
    BY <1>7, <1>11

\* A list ordered by an Ordering of the slots that its entries come from.
Numbers(S, B, p) ==
    p \in [1 .. Cardinality(S) -> S] /\ \A n \in 1 .. Cardinality(S) : Cardinality(B[p[n]]) = n - 1

LEMMA NumbersOnce ==
    ASSUME NEW S, IsFiniteSet(S), NEW B, Ordering(S, B), NEW p, Numbers(S, B, p),
           NEW n \in 1 .. Cardinality(S), NEW i \in S, Cardinality(B[i]) = n - 1
    PROVE  p[n] = i
  <1>1. p[n] \in S /\ Cardinality(B[p[n]]) = n - 1
    BY DEF Numbers
  <1>2. \A x, y \in S : Cardinality(B[x]) = Cardinality(B[y]) => x = y
    BY Ranks
  <1> QED
    BY <1>1, <1>2

LEMMA NumbersExist ==
    ASSUME NEW S, IsFiniteSet(S), NEW B, Ordering(S, B)
    PROVE  \E p : Numbers(S, B, p)
  <1> DEFINE p == [n \in 1 .. Cardinality(S) |-> CHOOSE i \in S : Cardinality(B[i]) = n - 1]
  <1>1. ASSUME NEW n \in 1 .. Cardinality(S)
        PROVE  p[n] \in S /\ Cardinality(B[p[n]]) = n - 1
    <2>1. Cardinality(S) \in Nat
      BY FS_CardinalityType
    <2>2. n - 1 \in 0 .. Cardinality(S) - 1
      BY <2>1
    <2>3. \E i \in S : Cardinality(B[i]) = n - 1
      BY <2>2, Ranks
    <2> QED
      BY <2>3
  <1> QED
    BY <1>1 DEF Numbers

LEMMA NumbersList ==
    ASSUME NEW S, IsFiniteSet(S), NEW B, Ordering(S, B), NEW p, Numbers(S, B, p)
    PROVE  /\ \A i \in S : \E n \in 1 .. Cardinality(S) : p[n] = i
           /\ \A n, m \in 1 .. Cardinality(S) : n < m => p[n] \in B[p[m]]
  <1>1. Cardinality(S) \in Nat
    BY FS_CardinalityType
  <1>2. ASSUME NEW i \in S PROVE \E n \in 1 .. Cardinality(S) : p[n] = i
    <2>1. Cardinality(B[i]) \in 0 .. Cardinality(S) - 1
      BY Ranks
    <2>2. PICK n : n = Cardinality(B[i]) + 1
      OBVIOUS
    <2>3. n \in 1 .. Cardinality(S) /\ Cardinality(B[i]) = n - 1
      BY <1>1, <2>1, <2>2
    <2> QED
      BY <2>3, NumbersOnce
  <1>3. ASSUME NEW n \in 1 .. Cardinality(S), NEW m \in 1 .. Cardinality(S), n < m
        PROVE  p[n] \in B[p[m]]
    <2>1. /\ p[n] \in S /\ Cardinality(B[p[n]]) = n - 1
          /\ p[m] \in S /\ Cardinality(B[p[m]]) = m - 1
      BY DEF Numbers
    <2>2. Cardinality(B[p[n]]) < Cardinality(B[p[m]])
      BY <1>1, <1>3, <2>1
    <2> QED
      BY <2>1, <2>2, Ranks
  <1> QED
    BY <1>2, <1>3

\* The slots in S whose entry has a lower index than that in slot i.
Lower(E, S) == [i \in S |-> {j \in S : E[j].index < E[i].index}]

\* Each of the slots in S has its own index.
Indexed(E, S) ==
    /\ IsFiniteSet(S) /\ S \subseteq Nat
    /\ \A i \in S : E[i].index \in Nat
    /\ \A i, j \in S : E[i].index = E[j].index => i = j

LEMMA LowerOrders ==
    ASSUME NEW E, NEW S, Indexed(E, S)
    PROVE  Ordering(S, Lower(E, S))
  <1>0. /\ \A i \in S : E[i].index \in Nat
        /\ \A i, j \in S : E[i].index = E[j].index => i = j
    BY DEF Indexed
  <1>1. \A i \in S : Lower(E, S)[i] = {j \in S : E[j].index < E[i].index}
    BY DEF Lower
  <1>2. Lower(E, S) \in [S -> SUBSET S]
    BY DEF Lower
  <1>3. \A i, j \in S : i # j => E[i].index < E[j].index \/ E[j].index < E[i].index
    BY <1>0
  <1>4. \A i, j, k \in S : E[i].index < E[j].index /\ E[k].index < E[i].index
                              => E[k].index < E[j].index
    BY <1>0
  <1>5. \A i \in S : ~(E[i].index < E[i].index)
    BY <1>0
  <1> QED
    BY <1>1, <1>2, <1>3, <1>4, <1>5 DEF Ordering

LEMMA RankedIs ==
    ASSUME NEW E, NEW S, Indexed(E, S), NEW p, Numbers(S, Lower(E, S), p)
    PROVE  Ranked(E, S) = [n \in 1 .. Cardinality(S) |-> E[p[n]]]
  <1> DEFINE Before(i) == {j \in S : \/ E[j].index < E[i].index
                                     \/ (E[j].index = E[i].index /\ j < i)}
             P(i, n) == Cardinality(Before(i)) = n - 1
  <1>0. IsFiniteSet(S) /\ S \subseteq Nat
    BY DEF Indexed
  <1>1. \A i \in S : Before(i) = Lower(E, S)[i]
    <2>1. \A i, j \in S : ~(E[j].index = E[i].index /\ j < i)
      <3>1. \A i \in S : ~(i < i)
        BY <1>0
      <3> QED
        BY <3>1 DEF Indexed
    <2> QED
      BY <2>1 DEF Lower
  <1>2. ASSUME NEW n \in 1 .. Cardinality(S) PROVE (CHOOSE i \in S : P(i, n)) = p[n]
    <2>1. p[n] \in S /\ Cardinality(Lower(E, S)[p[n]]) = n - 1
      BY DEF Numbers
    <2>2. ASSUME NEW i \in S, Cardinality(Lower(E, S)[i]) = n - 1 PROVE i = p[n]
      <3>1. PICK B : B = Lower(E, S)
        OBVIOUS
      <3>2. Ordering(S, B) /\ Numbers(S, B, p) /\ Cardinality(B[i]) = n - 1
        BY <2>2, <3>1, LowerOrders
      <3> QED
        BY ONLY <1>0, <3>2, n \in 1 .. Cardinality(S), i \in S, NumbersOnce
    <2>3. \A i \in S : P(i, n) <=> i = p[n]
      BY <1>1, <2>1, <2>2
    <2> HIDE DEF P
    <2> QED
      BY <2>1, <2>3
  <1>3. Ranked(E, S) = [n \in 1 .. Cardinality(S) |-> E[CHOOSE i \in S : P(i, n)]]
    BY DEF Ranked
  <1> HIDE DEF P
  <1> QED
    BY <1>2, <1>3

LEMMA RankedEnumerates ==
    ASSUME NEW E, NEW S, Indexed(E, S), NEW F, F = {E[i] : i \in S}
    PROVE  Enumerates(Ranked(E, S), F) /\ Cardinality(F) = Cardinality(S)
  <1>0. IsFiniteSet(S) /\ \A i, j \in S : E[i].index = E[j].index => i = j
    BY DEF Indexed
  <1>1. PICK p : Numbers(S, Lower(E, S), p)
    BY <1>0, LowerOrders, NumbersExist
  <1>2. PICK t : t = Ranked(E, S)
    OBVIOUS
  <1>3. t = [n \in 1 .. Cardinality(S) |-> E[p[n]]]
    BY ONLY Indexed(E, S), <1>1, <1>2, RankedIs
  <1>10. PICK B : B = Lower(E, S)
    OBVIOUS
  <1>11. Ordering(S, B) /\ Numbers(S, B, p)
    BY <1>1, <1>10, LowerOrders
  <1>12. /\ \A i \in S : \E n \in 1 .. Cardinality(S) : p[n] = i
         /\ \A n, m \in 1 .. Cardinality(S) : n < m => p[n] \in B[p[m]]
    BY ONLY <1>0, <1>11, NumbersList
  <1>4. IsFiniteSet(F) /\ Cardinality(F) = Cardinality(S)
    <2>1. PICK f : f = [i \in S |-> E[i]]
      OBVIOUS
    <2>2. f \in Bijection(S, F)
      BY <1>0, <2>1 DEF Bijection, Injection, Surjection, IsInjective
    <2>3. ExistsBijection(S, F)
      BY <2>2 DEF ExistsBijection
    <2> QED
      BY <1>0, <2>3, FS_Bijection
  <1>5. Cardinality(F) \in Nat
    BY <1>4, FS_CardinalityType
  <1>6. \A n \in 1 .. Cardinality(S) : p[n] \in S
    BY <1>1 DEF Numbers
  <1>7. t \in [1 .. Cardinality(F) -> F]
    BY <1>3, <1>4, <1>6
  <1>8. ASSUME NEW e \in F PROVE \E n \in 1 .. Cardinality(S) : t[n] = e
    <2>1. PICK i \in S : e = E[i]
      OBVIOUS
    <2>2. PICK n \in 1 .. Cardinality(S) : p[n] = i
      BY <1>12
    <2> QED
      BY <1>3, <2>1, <2>2
  <1>9. ASSUME NEW n \in 1 .. Cardinality(S), NEW m \in 1 .. Cardinality(S), n < m
        PROVE  t[n].index < t[m].index
    <2>1. p[n] \in Lower(E, S)[p[m]] /\ p[m] \in S
      BY <1>6, <1>9, <1>10, <1>12
    <2>2. E[p[n]].index < E[p[m]].index
      BY <2>1 DEF Lower
    <2> QED
      BY <1>3, <2>2
  <1> QED
    BY <1>2, <1>4, <1>5, <1>7, <1>8, <1>9 DEF Enumerates

\* One more entry, of a higher index than all.
Behind(n, t, e) == [j \in 1 .. n + 1 |-> IF j = n + 1 THEN e ELSE t[j]]

LEMMA EnumeratesMore ==
    ASSUME NEW E, NEW t, Enumerates(t, E), NEW e, \A f \in E : f.index \in Nat,
           e.index \in Nat, \A f \in E : f.index < e.index
    PROVE  /\ Enumerates(Behind(Cardinality(E), t, e), E \cup {e})
           /\ Cardinality(E \cup {e}) = Cardinality(E) + 1
  <1>1. PICK n, u : n = Cardinality(E) /\ u = Behind(Cardinality(E), t, e)
    OBVIOUS
  <1>2. /\ n \in Nat /\ IsFiniteSet(E) /\ t \in [1 .. n -> E]
        /\ \A d \in E : \E j \in 1 .. n : t[j] = d
        /\ \A i, j \in 1 .. n : i < j => t[i].index < t[j].index
    BY <1>1 DEF Enumerates
  <1>3. e \notin E
    <2>1. ~(e.index < e.index)
      OBVIOUS
    <2> QED
      BY <2>1
  <1>4. PICK F : F = E \cup {e}
    OBVIOUS
  <1>5. IsFiniteSet(F) /\ Cardinality(F) = n + 1 /\ n + 1 \in Nat
    <2>1. IsFiniteSet(E \cup {e}) /\ Cardinality(E \cup {e}) = Cardinality(E) + 1
      BY ONLY <1>2, <1>3, FS_AddElement
    <2> QED
      BY <1>1, <1>2, <1>4, <2>1
  <1>6. u = [j \in 1 .. n + 1 |-> IF j = n + 1 THEN e ELSE t[j]]
    BY <1>1 DEF Behind
  <1>7. /\ \A j \in 1 .. n : j \in 1 .. n + 1 /\ j # n + 1 /\ u[j] = t[j] /\ t[j] \in E
        /\ n + 1 \in 1 .. n + 1 /\ u[n + 1] = e
        /\ \A j \in 1 .. n + 1 : j \in 1 .. n \/ j = n + 1
    BY <1>2, <1>6
  <1>8. u \in [1 .. n + 1 -> F]
    <2>1. \A j \in 1 .. n + 1 : u[j] \in F
      BY <1>4, <1>7
    <2> QED
      BY <1>6, <2>1
  <1>9. ASSUME NEW d \in F PROVE \E j \in 1 .. n + 1 : u[j] = d
    <2>1. CASE d = e
      BY <1>7, <2>1
    <2>2. CASE d # e
      <3>1. d \in E
        BY <1>4, <2>2
      <3>2. PICK j \in 1 .. n : t[j] = d
        BY <1>2, <3>1
      <3> QED
        BY <1>7, <3>2
    <2> QED
      BY <2>1, <2>2
  <1>10. ASSUME NEW i \in 1 .. n + 1, NEW j \in 1 .. n + 1, i < j
         PROVE  u[i].index < u[j].index
    <2>1. i \in 1 .. n
      BY <1>2, <1>10
    <2>2. CASE j = n + 1
      BY <1>7, <2>1, <2>2
    <2>3. CASE j # n + 1
      <3>1. j \in 1 .. n
        BY <1>7, <2>3
      <3> QED
        BY <1>2, <1>7, <1>10, <2>1, <3>1
    <2> QED
      BY <2>2, <2>3
  <1>11. Enumerates(u, F)
    BY <1>5, <1>8, <1>9, <1>10 DEF Enumerates
  <1> QED
    BY <1>1, <1>4, <1>5, <1>11

\* An entry in the place of another.
Instead(n, t, d, e) == [j \in 1 .. n |-> IF t[j] = d THEN e ELSE t[j]]

LEMMA EnumeratesOther ==
    ASSUME NEW E, NEW t, Enumerates(t, E), NEW d \in E, NEW e,
           \A f \in E : f.index = d.index => f = d, e.index = d.index
    PROVE  /\ Enumerates(Instead(Cardinality(E), t, d, e), (E \ {d}) \cup {e})
           /\ Cardinality((E \ {d}) \cup {e}) = Cardinality(E)
  <1>1. PICK n, u : n = Cardinality(E) /\ u = Instead(Cardinality(E), t, d, e)
    OBVIOUS
  <1>2. /\ n \in Nat /\ IsFiniteSet(E) /\ t \in [1 .. n -> E]
        /\ \A f \in E : \E j \in 1 .. n : t[j] = f
        /\ \A i, j \in 1 .. n : i < j => t[i].index < t[j].index
    BY <1>1 DEF Enumerates
  <1>3. PICK D, F : D = E \ {d} /\ F = D \cup {e}
    OBVIOUS
  <1>4. e \notin D
    BY <1>3
  <1>5. IsFiniteSet(F) /\ Cardinality(F) = n
    <2>1. IsFiniteSet(D) /\ Cardinality(D) = n - 1
      BY <1>1, <1>2, <1>3, FS_RemoveElement
    <2>2. IsFiniteSet(F) /\ Cardinality(F) = Cardinality(D) + 1
      BY ONLY <1>3, <1>4, <2>1, FS_AddElement
    <2> QED
      BY <1>2, <2>1, <2>2
  <1>6. /\ u = [j \in 1 .. n |-> IF t[j] = d THEN e ELSE t[j]]
        /\ \A j \in 1 .. n : u[j] = (IF t[j] = d THEN e ELSE t[j]) /\ t[j] \in E
    BY <1>1, <1>2 DEF Instead
  <1>7. u \in [1 .. n -> F]
    <2>1. \A j \in 1 .. n : u[j] \in F
      BY <1>3, <1>6
    <2> QED
      BY <1>6, <2>1
  <1>8. ASSUME NEW f \in F PROVE \E j \in 1 .. n : u[j] = f
    <2>1. CASE f = e
      <3>1. PICK j \in 1 .. n : t[j] = d
        BY <1>2
      <3> QED
        BY <1>6, <2>1, <3>1
    <2>2. CASE f # e
      <3>1. f \in E /\ f # d
        BY <1>3, <2>2
      <3>2. PICK j \in 1 .. n : t[j] = f
        BY <1>2, <3>1
      <3> QED
        BY <1>6, <3>1, <3>2
    <2> QED
      BY <2>1, <2>2
  <1>9. \A j \in 1 .. n : u[j].index = t[j].index
    BY <1>6
  <1>10. Enumerates(u, F)
    BY <1>2, <1>5, <1>7, <1>8, <1>9 DEF Enumerates
  <1> QED
    BY <1>1, <1>3, <1>5, <1>10

LEMMA EnumeratesNone == Enumerates(<<>>, {})
  <1>1. Cardinality({}) = 0 /\ IsFiniteSet({})
    BY FS_EmptySet
  <1>2. <<>> \in [1 .. 0 -> {}] /\ \A n : n \notin 1 .. 0
    OBVIOUS
  <1> QED
    BY <1>1, <1>2 DEF Enumerates

LEMMA EnumeratesSeq ==
    ASSUME NEW E, NEW t, Enumerates(t, E)
    PROVE  /\ t \in Seq(E) /\ Len(t) = Cardinality(E) /\ DOMAIN t = 1 .. Cardinality(E)
           /\ DOMAIN KeysOf(t) = 1 .. Cardinality(E)
           /\ \A n \in 1 .. Cardinality(E) : KeysOf(t)[n] = t[n].key /\ t[n] \in E
  <1>1. PICK n : n = Cardinality(E)
    OBVIOUS
  <1>2. n \in Nat /\ t \in [1 .. n -> E]
    BY <1>1 DEF Enumerates
  <1>3. t \in Seq(E) /\ Len(t) = n /\ DOMAIN t = 1 .. n
    BY <1>2
  <1> QED
    BY <1>1, <1>2, <1>3 DEF KeysOf

\* OrderedMap.tla counts as this module does.
LEMMA SameCardinality == \A S : Dictionary!Cardinality(S) = Cardinality(S)
  BY Zenon DEF Cardinality, Dictionary!Cardinality

\* The entries under the names in K.
Under(E, K) == {e \in E : e.key \in K}

LEMMA KeptList ==
    ASSUME NEW E, \A e \in E : e.index \in Nat, NEW t, Enumerates(t, E), NEW K
    PROVE  \E u : Enumerates(u, Under(E, K)) /\ Dictionary!Kept(KeysOf(t), K) = KeysOf(u)
  <1>1. PICK n, s, I : /\ n = Cardinality(E) /\ s = KeysOf(t)
                       /\ I = {i \in 1 .. n : t[i].key \in K}
    OBVIOUS
  <1>2. /\ n \in Nat /\ IsFiniteSet(E) /\ t \in [1 .. n -> E]
        /\ \A e \in E : \E j \in 1 .. n : t[j] = e
        /\ \A i, j \in 1 .. n : i < j => t[i].index < t[j].index
    BY <1>1 DEF Enumerates
  <1>3. DOMAIN s = 1 .. n /\ \A j \in 1 .. n : s[j] = t[j].key /\ t[j] \in E
    BY <1>1, EnumeratesSeq
  <1>4. \A i, j \in 1 .. n : t[i].index < t[j].index <=> i < j
    <2> SUFFICES ASSUME NEW i \in 1 .. n, NEW j \in 1 .. n PROVE t[i].index < t[j].index <=> i < j
      OBVIOUS
    <2>1. t[i].index \in Nat /\ t[j].index \in Nat
      BY <1>3
    <2>2. i < j \/ j < i \/ i = j
      BY <1>2
    <2>3. (i < j => t[i].index < t[j].index) /\ (j < i => t[j].index < t[i].index)
      BY <1>2
    <2>4. i < j => ~(j < i) /\ i # j
      BY <1>2
    <2> QED
      BY <2>1, <2>2, <2>3, <2>4
  <1>5. Indexed(t, I)
    <2>1. I \subseteq 1 .. n /\ I \subseteq Nat
      BY <1>1, <1>2
    <2>2. IsFiniteSet(1 .. n)
      BY <1>2, FS_Interval
    <2>3. IsFiniteSet(I)
      BY ONLY <2>1, <2>2, FS_Subset
    <2>4. \A i \in I : t[i].index \in Nat
      BY <1>3, <2>1
    <2>5. \A i, j \in I : t[i].index = t[j].index => i = j
      <3> SUFFICES ASSUME NEW i \in I, NEW j \in I, t[i].index = t[j].index PROVE i = j
        OBVIOUS
      <3>1. ~(t[i].index < t[j].index) /\ ~(t[j].index < t[i].index)
        BY <2>4
      <3>2. ~(i < j) /\ ~(j < i) /\ i \in Nat /\ j \in Nat
        BY <1>4, <2>1, <3>1
      <3> QED
        BY <3>2
    <2> QED
      BY <2>1, <2>3, <2>4, <2>5 DEF Indexed
  <1>6. PICK B : B = Lower(t, I)
    OBVIOUS
  <1>7. IsFiniteSet(I) /\ Ordering(I, B)
    BY <1>5, <1>6, LowerOrders DEF Indexed
  <1>8. PICK p : Numbers(I, B, p)
    BY <1>7, NumbersExist
  <1>9. PICK u : u = Ranked(t, I)
    OBVIOUS
  <1>10. u = [m \in 1 .. Cardinality(I) |-> t[p[m]]]
    <2>1. Numbers(I, Lower(t, I), p)
      BY <1>6, <1>8
    <2> QED
      BY ONLY <1>5, <1>9, <2>1, RankedIs
  <1>11. Enumerates(u, Under(E, K))
    <2>1. Under(E, K) = {t[i] : i \in I}
      BY <1>1, <1>2, <1>3 DEF Under
    <2> QED
      BY ONLY <1>5, <1>9, <2>1, RankedEnumerates
  <1>12. \A i \in I : {j \in I : j < i} = B[i]
    BY <1>1, <1>4, <1>6 DEF Lower
  <1> DEFINE P(i, m) == Dictionary!Cardinality({j \in I : j < i}) = m - 1
  <1>13. ASSUME NEW m \in 1 .. Cardinality(I) PROVE (CHOOSE i \in I : P(i, m)) = p[m]
    <2>1. p[m] \in I /\ Cardinality(B[p[m]]) = m - 1
      BY <1>8 DEF Numbers
    <2>2. \A i \in I : Cardinality(B[i]) = m - 1 => i = p[m]
      BY <1>7, <1>8, NumbersOnce
    <2>3. \A i \in I : P(i, m) <=> Cardinality(B[i]) = m - 1
      BY <1>12, SameCardinality
    <2> HIDE DEF P
    <2> QED
      BY <2>1, <2>2, <2>3
  <1>14. Dictionary!Kept(s, K) = [m \in 1 .. Cardinality(I) |-> s[CHOOSE i \in I : P(i, m)]]
    <2>1. I = {i \in DOMAIN s : s[i] \in K}
      BY <1>1, <1>3
    <2>2. Dictionary!Cardinality(I) = Cardinality(I)
      BY SameCardinality
    <2> QED
      BY <2>1, <2>2 DEF Dictionary!Kept
  <1>15. \A m \in 1 .. Cardinality(I) : p[m] \in 1 .. n
    BY <1>1, <1>8 DEF Numbers
  <1>16. Dictionary!Kept(s, K) = [m \in 1 .. Cardinality(I) |-> s[p[m]]]
    <2> HIDE DEF P
    <2> QED
      BY <1>13, <1>14
  <1>17. KeysOf(u) = [m \in 1 .. Cardinality(I) |-> s[p[m]]]
    BY <1>3, <1>10, <1>15 DEF KeysOf
  <1> QED
    BY <1>1, <1>11, <1>16, <1>17

------------------------------------------------------------------------------
(* What a set of entries shows as a dictionary.                            *)

Named(E) == \A e \in E : e.key \in Keys /\ e.index \in Nat

NameList(s, E) == \E t : Enumerates(t, E) /\ s = KeysOf(t)

Holds(c, E) ==
    /\ c = [k \in {e.key : e \in E} |-> c[k]]
    /\ \A e \in E : c[e.key] = [value |-> e.value, attributes |-> e.attributes]

Shows(s, c, E) == NameList(s, E) /\ Holds(c, E)

LEMMA ShowsOnce ==
    ASSUME NEW E, Named(E), NEW s, NEW c, Shows(s, c, E), NEW s2, NEW c2, Shows(s2, c2, E)
    PROVE  s2 = s /\ c2 = c
  <1>1. s2 = s
    <2>1. PICK t : Enumerates(t, E) /\ s = KeysOf(t)
      BY DEF Shows, NameList
    <2>2. PICK u : Enumerates(u, E) /\ s2 = KeysOf(u)
      BY DEF Shows, NameList
    <2>3. \A e \in E : e.index \in Nat
      BY DEF Named
    <2>4. t = u
      BY ONLY <2>1, <2>2, <2>3, EnumeratesOnce
    <2> QED
      BY <2>1, <2>2, <2>4
  <1>2. c2 = c
    <2>1. PICK D : D = {e.key : e \in E}
      OBVIOUS
    <2>2. c = [k \in D |-> c[k]] /\ c2 = [k \in D |-> c2[k]]
      BY <2>1 DEF Shows, Holds
    <2>3. ASSUME NEW k \in D PROVE c[k] = c2[k]
      <3>1. PICK e \in E : k = e.key
        BY <2>1
      <3> QED
        BY <3>1 DEF Shows, Holds
    <2> QED
      BY <2>2, <2>3
  <1> QED
    BY <1>1, <1>2

LEMMA ShowsNames ==
    ASSUME NEW E, Named(E), NEW s, NEW c, Shows(s, c, E)
    PROVE  /\ DOMAIN c = {e.key : e \in E} /\ s \in Seq(Keys)
           /\ Len(s) = Cardinality(E) /\ s = [n \in 1 .. Cardinality(E) |-> s[n]]
  <1>1. PICK t : Enumerates(t, E) /\ s = KeysOf(t)
    BY DEF Shows, NameList
  <1>2. PICK n : n = Cardinality(E)
    OBVIOUS
  <1>3. n \in Nat /\ DOMAIN s = 1 .. n /\ \A j \in 1 .. n : s[j] = t[j].key /\ t[j] \in E
    <2>1. n \in Nat
      BY <1>1, <1>2 DEF Enumerates
    <2> QED
      BY <1>1, <1>2, <2>1, EnumeratesSeq
  <1>4. s = [j \in 1 .. n |-> s[j]]
    <2>1. s = [j \in DOMAIN t |-> t[j].key]
      BY <1>1 DEF KeysOf
    <2>2. DOMAIN t = 1 .. n
      BY <1>1, <1>2, EnumeratesSeq
    <2> QED
      BY <2>1, <2>2
  <1>5. \A j \in 1 .. n : s[j] \in Keys
    BY <1>3 DEF Named
  <1>6. s \in Seq(Keys) /\ Len(s) = n
    BY <1>3, <1>4, <1>5
  <1>7. DOMAIN c = {e.key : e \in E}
    BY DEF Shows, Holds
  <1> QED
    BY <1>2, <1>4, <1>6, <1>7

LEMMA ShowsNone == Shows(<<>>, <<>>, {})
  <1>1. KeysOf(<<>>) = <<>>
    <2>1. KeysOf(<<>>) = [i \in DOMAIN <<>> |-> <<>>[i].key]
      BY DEF KeysOf
    <2>2. DOMAIN <<>> = {}
      OBVIOUS
    <2>3. <<>> = [i \in {} |-> <<>>[i].key]
      OBVIOUS
    <2> QED
      BY <2>1, <2>2, <2>3
  <1>2. NameList(<<>>, {})
    BY <1>1, EnumeratesNone DEF NameList
  <1>3. Holds(<<>>, {})
    BY DEF Holds
  <1> QED
    BY <1>2, <1>3 DEF Shows

\* c with k for e as well.
Extended(c, e) ==
    [x \in DOMAIN c \cup {e.key} |->
        IF x = e.key THEN [value |-> e.value, attributes |-> e.attributes] ELSE c[x]]

LEMMA ShowsMore ==
    ASSUME NEW E, Named(E), NEW s, NEW c, Shows(s, c, E), NEW e, e.index \in Nat,
           \A f \in E : f.index < e.index, ~ NameIn(E, e.key), e.key \in Keys
    PROVE  Shows(Append(s, e.key), Extended(c, e), E \cup {e})
  <1>1. PICK t : Enumerates(t, E) /\ s = KeysOf(t)
    BY DEF Shows, NameList
  <1>2. PICK n, u : n = Cardinality(E) /\ u = Behind(n, t, e)
    OBVIOUS
  <1>3. Enumerates(u, E \cup {e}) /\ Cardinality(E \cup {e}) = n + 1
    <2>1. \A f \in E : f.index \in Nat /\ f.index < e.index
      BY DEF Named
    <2> QED
      BY <1>1, <1>2, <2>1, EnumeratesMore
  <1>4. n \in Nat /\ u = [j \in 1 .. n + 1 |-> IF j = n + 1 THEN e ELSE t[j]]
    BY <1>1, <1>2 DEF Enumerates, Behind
  <1>5. /\ s \in Seq(Keys) /\ Len(s) = n /\ \A j \in 1 .. n : s[j] = t[j].key
    BY <1>1, <1>2, ShowsNames, EnumeratesSeq
  <1>6. KeysOf(u) = Append(s, e.key)
    <2>1. DOMAIN u = 1 .. n + 1
      BY <1>4
    <2>2. KeysOf(u) = [j \in 1 .. n + 1 |-> u[j].key]
      BY <2>1 DEF KeysOf
    <2>3. ASSUME NEW j \in 1 .. n + 1 PROVE Append(s, e.key)[j] = u[j].key
      <3>1. CASE j = n + 1
        BY <1>4, <1>5, <3>1
      <3>2. CASE j # n + 1
        <4>1. j \in 1 .. n
          BY <1>4, <3>2
        <4> QED
          BY <1>4, <1>5, <3>2, <4>1
      <3> QED
        BY <3>1, <3>2
    <2>4. Append(s, e.key) \in Seq(Keys) /\ Len(Append(s, e.key)) = n + 1
      BY <1>5
    <2>5. Append(s, e.key) = [j \in 1 .. n + 1 |-> Append(s, e.key)[j]]
      BY <2>4
    <2> QED
      BY <2>2, <2>3, <2>5
  <1>7. NameList(Append(s, e.key), E \cup {e})
    BY <1>3, <1>6 DEF NameList
  <1>8. Holds(Extended(c, e), E \cup {e})
    <2>1. DOMAIN c = {f.key : f \in E}
      BY ShowsNames
    <2>2. \A f \in E : f.key # e.key /\ c[f.key] = [value |-> f.value, attributes |-> f.attributes]
      BY DEF NameIn, Shows, Holds
    <2>3. \A f \in E \cup {e} :
            Extended(c, e)[f.key] = [value |-> f.value, attributes |-> f.attributes]
      BY <2>1, <2>2 DEF Extended
    <2>4. DOMAIN c \cup {e.key} = {f.key : f \in E \cup {e}}
      BY <2>1
    <2>5. Extended(c, e) = [k \in DOMAIN c \cup {e.key} |-> Extended(c, e)[k]]
      BY DEF Extended
    <2> QED
      BY <2>3, <2>4, <2>5 DEF Holds
  <1> QED
    BY <1>7, <1>8 DEF Shows

LEMMA ShowsOther ==
    ASSUME NEW E, Named(E), Distinct(E), NEW s, NEW c, Shows(s, c, E),
           NEW d \in E, d \in EntryType, NEW v, NEW e, e = [d EXCEPT !.value = v]
    PROVE  Shows(s, [c EXCEPT ![d.key].value = v], (E \ {d}) \cup {e})
  <1>1. PICK t : Enumerates(t, E) /\ s = KeysOf(t)
    BY DEF Shows, NameList
  <1>2. PICK n, u, F, k : /\ n = Cardinality(E) /\ u = Instead(n, t, d, e)
                          /\ F = (E \ {d}) \cup {e} /\ k = d.key
    OBVIOUS
  <1>3. e.key = k /\ e.index = d.index /\ e.attributes = d.attributes /\ e.value = v
    BY <1>2 DEF EntryType
  <1>4. Enumerates(u, F) /\ Cardinality(F) = n
    <2>1. \A f \in E : f.index = d.index => f = d
      BY DEF Distinct
    <2> QED
      BY <1>1, <1>2, <1>3, <2>1, EnumeratesOther
  <1>5. NameList(s, F)
    <2>1. u = [j \in 1 .. n |-> IF t[j] = d THEN e ELSE t[j]]
      BY <1>2 DEF Instead
    <2>2. DOMAIN t = 1 .. n
      BY <1>1, <1>2, EnumeratesSeq
    <2>3. \A j \in 1 .. n : u[j].key = t[j].key
      BY <1>2, <1>3, <2>1
    <2>4. KeysOf(u) = KeysOf(t)
      BY <2>1, <2>2, <2>3 DEF KeysOf
    <2> QED
      BY <1>1, <1>4, <2>4 DEF NameList
  <1>6. PICK g : g = [c EXCEPT ![k].value = v]
    OBVIOUS
  <1>7. /\ DOMAIN c = {f.key : f \in E}
        /\ \A f \in E : c[f.key] = [value |-> f.value, attributes |-> f.attributes]
        /\ c = [x \in DOMAIN c |-> c[x]]
    <2>1. DOMAIN c = {f.key : f \in E}
      BY ShowsNames
    <2>2. /\ \A f \in E : c[f.key] = [value |-> f.value, attributes |-> f.attributes]
          /\ c = [x \in {f.key : f \in E} |-> c[x]]
      BY DEF Shows, Holds
    <2> QED
      BY <2>1, <2>2
  <1>8. DOMAIN g = DOMAIN c /\ g = [x \in DOMAIN c |-> g[x]]
        /\ \A x \in DOMAIN c : g[x] = IF x = k THEN [c[k] EXCEPT !.value = v] ELSE c[x]
    BY <1>6, <1>7
  <1>9. k \in DOMAIN c
    BY <1>2, <1>7
  <1>10. g[k] = [value |-> e.value, attributes |-> e.attributes]
    <2>1. c[k] = [value |-> d.value, attributes |-> d.attributes]
      BY <1>2, <1>7
    <2> QED
      BY <1>3, <1>8, <1>9, <2>1
  <1>11. \A f \in F : g[f.key] = [value |-> f.value, attributes |-> f.attributes]
    <2>1. ASSUME NEW f \in E, f # d PROVE g[f.key] = [value |-> f.value, attributes |-> f.attributes]
      <3>1. f.key # k /\ f.key \in DOMAIN c
        BY <1>2, <1>7, <2>1 DEF Distinct
      <3> QED
        BY <1>7, <1>8, <3>1
    <2> QED
      BY <1>2, <1>3, <1>10, <2>1
  <1>12. DOMAIN c = {f.key : f \in F}
    <2>1. ASSUME NEW f \in E PROVE \E g2 \in F : f.key = g2.key
      <3>1. CASE f = d
        BY <1>2, <1>3, <3>1
      <3>2. CASE f # d
        BY <1>2, <3>2
      <3> QED
        BY <3>1, <3>2
    <2>2. ASSUME NEW f \in F PROVE \E g2 \in E : f.key = g2.key
      BY <1>2, <1>3
    <2> QED
      BY <1>7, <2>1, <2>2
  <1>13. Holds(g, F)
    BY <1>8, <1>11, <1>12 DEF Holds
  <1> QED
    BY <1>2, <1>5, <1>6, <1>13 DEF Shows

LEMMA ShowsUnder ==
    ASSUME NEW E, Named(E), NEW s, NEW c, Shows(s, c, E), NEW K
    PROVE  Shows(Dictionary!Kept(s, K), [k \in DOMAIN c \cap K |-> c[k]], Under(E, K))
  <1>1. PICK t : Enumerates(t, E) /\ s = KeysOf(t)
    BY DEF Shows, NameList
  <1>2. \A e \in E : e.index \in Nat
    BY DEF Named
  <1>3. PICK u : Enumerates(u, Under(E, K)) /\ Dictionary!Kept(s, K) = KeysOf(u)
    BY <1>1, <1>2, KeptList
  <1>4. /\ DOMAIN c = {f.key : f \in E}
        /\ \A f \in E : c[f.key] = [value |-> f.value, attributes |-> f.attributes]
    BY ShowsNames DEF Shows, Holds
  <1>5. DOMAIN c \cap K = {f.key : f \in Under(E, K)}
    BY <1>4 DEF Under
  <1>6. Holds([k \in DOMAIN c \cap K |-> c[k]], Under(E, K))
    <2>1. PICK g : g = [k \in DOMAIN c \cap K |-> c[k]]
      OBVIOUS
    <2>2. \A f \in Under(E, K) : g[f.key] = [value |-> f.value, attributes |-> f.attributes]
      BY <1>4, <1>5, <2>1 DEF Under
    <2>3. g = [k \in DOMAIN c \cap K |-> g[k]]
      BY <2>1
    <2> QED
      BY <1>5, <2>1, <2>2, <2>3 DEF Holds
  <1> QED
    BY <1>3, <1>6 DEF Shows, NameList

------------------------------------------------------------------------------
(* Maps.                                                                   *)

IsSingle(e) == e = NullEntry \/ (e \in EntryType /\ e.key \in Keys /\ e.index = 0)

\* One entry in place, or a table.
Sane(m) ==
    /\ m = [single |-> m.single, table |-> m.table]
    /\ \/ m.table = NoTable /\ IsSingle(m.single)
       \/ m.single = NullEntry /\ Good(m.table) /\ m.table.size >= InitialSize

\* The entries of a map.
View(m) ==
    IF m.table.size = 0 THEN {e \in {m.single} : e.key \in Keys} ELSE Entries(m.table)

LEMMA SaneCases ==
    ASSUME NEW m, Sane(m)
    PROVE  /\ m = [single |-> m.single, table |-> m.table]
           /\ \/ /\ m.table = NoTable /\ m.table.size = 0 /\ IsSingle(m.single)
                 /\ View(m) = {e \in {m.single} : e.key \in Keys}
              \/ /\ m.table.size # 0 /\ m.single = NullEntry /\ Good(m.table)
                 /\ m.table.size \in Nat /\ m.table.size >= InitialSize
                 /\ View(m) = Entries(m.table)
  <1>1. NoTable.size = 0
    BY DEF NoTable
  <1>2. Good(m.table) => m.table.size \in Nat /\ m.table.size >= 4
    BY DEF Good, Sound, Typed, Shape, PowersOf2
  <1> QED
    BY <1>1, <1>2 DEF Sane, View

LEMMA ViewTyped ==
    ASSUME NEW m, Sane(m)
    PROVE  /\ Named(View(m)) /\ Distinct(View(m)) /\ IsFiniteSet(View(m))
           /\ m.table.lastIndexUsed \in Nat
           /\ \A e \in View(m) : e \in EntryType /\ e.index <= m.table.lastIndexUsed
  <1>1. CASE m.table.size = 0
    <2>1. m.table = NoTable /\ IsSingle(m.single) /\ View(m) = {e \in {m.single} : e.key \in Keys}
      BY <1>1, SaneCases
    <2>2. m.table.lastIndexUsed = 0
      BY <2>1 DEF NoTable
    <2>3. \A e \in View(m) : e = m.single /\ e \in EntryType /\ e.key \in Keys /\ e.index = 0
      BY <2>1, KeysAssumption DEF IsSingle, NullEntry, Entry
    <2>4. IsFiniteSet(View(m))
      <3>1. View(m) \subseteq {m.single} /\ IsFiniteSet({m.single})
        BY <2>3, FS_Singleton
      <3> QED
        BY ONLY <3>1, FS_Subset
    <2> QED
      BY <2>2, <2>3, <2>4 DEF Named, Distinct
  <1>2. CASE m.table.size # 0
    <2>1. Good(m.table) /\ View(m) = Entries(m.table)
      BY <1>2, SaneCases
    <2>2. Sound(m.table) /\ m.table.lastIndexUsed \in Nat /\ Shape(m.table) /\ Located(m.table)
      BY <2>1 DEF Good, Sound, Typed, Header
    <2>3. \A e \in View(m) : e \in EntryType /\ e.key \in Keys /\ e.index \in Nat
      BY <2>1, <2>2, EntriesTyped
    <2>4. IsFiniteSet(View(m))
      BY <2>1, <2>2, EntriesCounted
    <2> QED
      BY <2>1, <2>2, <2>3, <2>4 DEF Named, Good, Sound
  <1> QED
    BY <1>1, <1>2

LEMMA GetIs ==
    ASSUME NEW m, Sane(m), NEW k \in Keys
    PROVE  /\ NameIn(View(m), k) => get(m, k) \in View(m) /\ get(m, k).key = k
           /\ ~ NameIn(View(m), k) => get(m, k).key \notin Keys
  <1>1. NullEntry.key \notin Keys
    BY KeysAssumption DEF NullEntry, Entry
  <1>2. CASE m.table.size = 0
    <2>1. View(m) = {e \in {m.single} : e.key \in Keys}
      BY <1>2, SaneCases
    <2>2. get(m, k) = IF m.single.key = k THEN m.single ELSE NullEntry
      BY <1>2 DEF get
    <2> QED
      BY <1>1, <2>1, <2>2 DEF NameIn
  <1>3. CASE m.table.size # 0
    <2>1. PICK T, i : T = m.table /\ i = Find(T, k)
      OBVIOUS
    <2>2. Good(T) /\ View(m) = Entries(T) /\ get(m, k) = T.entries[i]
      BY <1>3, <2>1, SaneCases DEF get
    <2>3. i \in SlotsOf(T) /\ (T.entries[i].key = k \/ (T.entries[i].key = NoKey /\ Absent(T, k)))
      BY <2>1, <2>2, GoodRoomy, Found
    <2>4. T.entries[i].key = k => T.entries[i] \in Entries(T)
      BY <2>3 DEF Entries, Held
    <2>5. T.entries[i].key = k => NameIn(View(m), k)
      BY <2>2, <2>4 DEF NameIn
    <2>6. Absent(T, k) => ~ NameIn(View(m), k)
      BY <2>2, AbsentName
    <2> QED
      BY <2>2, <2>3, <2>4, <2>5, <2>6, KeysAssumption
  <1> QED
    BY <1>2, <1>3

\* The operators that the module applies to Map.
ValidOf(m) ==
    IF m.table.size = 0 THEN IF isValid(m.single.key) THEN <<m.single>> ELSE <<>>
    ELSE Ranked(m.table.entries, {i \in DOMAIN m.table.entries : isValid(m.table.entries[i].key)})
OrderOf(m) == KeysOf(ValidOf(m))
ContentsOf(m) ==
    LET Got == [k \in Keys |-> get(m, k)] IN
    [k \in {x \in Keys : Got[x].key = x} |->
        [value |-> Got[k].value, attributes |-> Got[k].attributes]]

LEMMA OrderIs == Order = OrderOf(Map) /\ Contents = ContentsOf(Map)
  BY DEF Order, Sorted, ValidOf, OrderOf, Contents, ContentsOf

LEMMA HeldIndexed ==
    ASSUME NEW T, Sound(T), NEW S, S \subseteq Held(T)
    PROVE  Indexed(T.entries, S)
  <1>1. Shape(T) /\ Located(T) /\ Distinct(Entries(T)) /\ T.size \in Nat
    BY DEF Sound, Typed, Shape, PowersOf2
  <1>2. IsFiniteSet(S)
    BY <1>1, SlotsFinite, FS_Subset
  <1>3. S \subseteq Nat
    BY <1>1 DEF Held, SlotsOf
  <1>4. \A i \in S : T.entries[i] \in Entries(T) /\ T.entries[i].index \in Nat
    BY EntriesTyped DEF Entries
  <1>5. ASSUME NEW i \in S, NEW j \in S, T.entries[i].index = T.entries[j].index PROVE i = j
    <2>1. T.entries[i].key = T.entries[j].key
      BY <1>1, <1>4, <1>5 DEF Distinct
    <2> QED
      BY <1>1, <2>1, HeldOnce
  <1> QED
    BY <1>2, <1>3, <1>4, <1>5 DEF Indexed

LEMMA EnumeratesOne ==
    ASSUME NEW e
    PROVE  Enumerates(<<e>>, {e})
  <1>1. Cardinality({e}) = 1 /\ IsFiniteSet({e})
    BY FS_Singleton
  <1>2. <<e>> \in [1 .. 1 -> {e}] /\ <<e>>[1] = e /\ 1 \in 1 .. 1
    OBVIOUS
  <1>3. \A n, p \in 1 .. 1 : ~(n < p)
    OBVIOUS
  <1> QED
    BY <1>1, <1>2, <1>3 DEF Enumerates

\* The order of a map names its entries from the oldest to the newest.
LEMMA ValidEnumerates ==
    ASSUME NEW m, Sane(m)
    PROVE  Enumerates(ValidOf(m), View(m))
  <1>1. CASE m.table.size = 0
    <2>1. View(m) = {e \in {m.single} : e.key \in Keys}
      BY <1>1, SaneCases
    <2>2. ValidOf(m) = IF m.single.key \in Keys THEN <<m.single>> ELSE <<>>
      BY <1>1 DEF ValidOf, isValid
    <2>3. CASE m.single.key \in Keys
      <3>1. View(m) = {m.single} /\ ValidOf(m) = <<m.single>>
        BY <2>1, <2>2, <2>3
      <3> QED
        BY <3>1, EnumeratesOne
    <2>4. CASE m.single.key \notin Keys
      <3>1. View(m) = {} /\ ValidOf(m) = <<>>
        BY <2>1, <2>2, <2>4
      <3> QED
        BY <3>1, EnumeratesNone
    <2> QED
      BY <2>3, <2>4
  <1>2. CASE m.table.size # 0
    <2>1. PICK T : T = m.table
      OBVIOUS
    <2>2. Good(T) /\ View(m) = Entries(T)
      BY <1>2, <2>1, SaneCases
    <2>3. Sound(T) /\ DOMAIN T.entries = SlotsOf(T)
      BY <2>2 DEF Good, Sound, Typed, Shape, SlotsOf
    <2>4. ValidOf(m) = Ranked(T.entries, Held(T))
      BY <1>2, <2>1, <2>3 DEF ValidOf, isValid, Held
    <2>5. Indexed(T.entries, Held(T))
      BY <2>3, HeldIndexed
    <2>6. Entries(T) = {T.entries[i] : i \in Held(T)}
      BY DEF Entries
    <2>7. Enumerates(Ranked(T.entries, Held(T)), Entries(T))
      BY ONLY <2>5, <2>6, RankedEnumerates
    <2> QED
      BY <2>2, <2>4, <2>7
  <1> QED
    BY <1>1, <1>2

LEMMA ShowsMap ==
    ASSUME NEW m, Sane(m)
    PROVE  Shows(OrderOf(m), ContentsOf(m), View(m))
  <1>1. NameList(OrderOf(m), View(m))
    BY ValidEnumerates DEF NameList, OrderOf
  <1>2. PICK c, V : c = ContentsOf(m) /\ V = View(m)
    OBVIOUS
  <1>3. /\ DOMAIN c = {x \in Keys : get(m, x).key = x}
        /\ \A k \in DOMAIN c : c[k] = [value |-> get(m, k).value, attributes |-> get(m, k).attributes]
        /\ c = [k \in DOMAIN c |-> c[k]]
    BY <1>2 DEF ContentsOf
  <1>4. Named(V) /\ Distinct(V)
    BY <1>2, ViewTyped
  <1>5. \A k \in Keys : /\ NameIn(V, k) => get(m, k) \in V /\ get(m, k).key = k
                        /\ ~ NameIn(V, k) => get(m, k).key \notin Keys
    BY <1>2, GetIs
  <1>6. \A e \in V : e.key \in Keys /\ NameIn(V, e.key) /\ get(m, e.key) = e
    BY <1>4, <1>5 DEF Named, NameIn, Distinct
  <1>7. DOMAIN c = {e.key : e \in V}
    BY <1>3, <1>5, <1>6 DEF NameIn
  <1>8. \A e \in V : c[e.key] = [value |-> e.value, attributes |-> e.attributes]
    BY <1>3, <1>6, <1>7
  <1>9. Holds(c, V)
    BY <1>3, <1>7, <1>8 DEF Holds
  <1> QED
    BY <1>1, <1>2, <1>9 DEF Shows

------------------------------------------------------------------------------
(* put, remove and clear.                                                  *)

Adds(E, F, k, v, a) ==
    /\ ~ NameIn(E, k)
    /\ \E i \in Nat : (\A e \in E : e.index < i) /\ F = E \cup {Entry(k, v, a, i)}

Puts(E, F, k, v, a) ==
    (F = E /\ NameIn(E, k)) \/ Assigned(E, F, k, v) \/ Adds(E, F, k, v, a)

\* The sizes a table may get.
Grows(T, G) ==
    \/ G.size = T.size
    \/ T.size = 0 /\ G.size = InitialSize
    \/ T.size # 0 /\ T.size <= 2 * T.keyCount /\ G.size = 2 * T.size

LEMMA PutExpanded ==
    ASSUME NEW T, Good(T), NEW k \in Keys, NEW v \in Values, NEW a \in AttributeSets,
           NEW ro, 2 * T.keyCount < T.size, NEW G, G = PutInTable(T, k, v, a, ro)
    PROVE  /\ Good(G) /\ G.size = T.size /\ G.lastIndexUsed <= T.lastIndexUsed + 1
           /\ Puts(Entries(T), Entries(G), k, v, a)
  <1>1. T.lastIndexUsed \in Nat /\ \A e \in Entries(T) : e.index \in Nat /\ e.index <= T.lastIndexUsed
    BY EntriesTyped DEF Good, Sound, Typed, Header
  <1>2. /\ Good(G) /\ G.size = T.size
        /\ \/ G = T /\ NameIn(Entries(T), k)
           \/ /\ Assigned(Entries(T), Entries(G), k, v)
              /\ G.lastIndexUsed = T.lastIndexUsed
           \/ /\ ~ NameIn(Entries(T), k) /\ G.lastIndexUsed = T.lastIndexUsed + 1
              /\ Entries(G) = Entries(T) \cup {Entry(k, v, a, T.lastIndexUsed + 1)}
    BY PutIn
  <1>3. PICK i : i = T.lastIndexUsed + 1
    OBVIOUS
  <1>4. i \in Nat /\ \A e \in Entries(T) : e.index < i
    BY <1>1, <1>3
  <1>5. CASE G = T /\ NameIn(Entries(T), k)
    BY <1>1, <1>2, <1>5 DEF Puts
  <1>6. CASE Assigned(Entries(T), Entries(G), k, v) /\ G.lastIndexUsed = T.lastIndexUsed
    BY <1>1, <1>2, <1>6 DEF Puts
  <1>7. CASE /\ ~ NameIn(Entries(T), k) /\ G.lastIndexUsed = T.lastIndexUsed + 1
             /\ Entries(G) = Entries(T) \cup {Entry(k, v, a, T.lastIndexUsed + 1)}
    <2>1. Adds(Entries(T), Entries(G), k, v, a)
      BY <1>3, <1>4, <1>7 DEF Adds
    <2> QED
      BY <1>1, <1>2, <1>7, <2>1 DEF Puts
  <1> QED
    BY <1>2, <1>5, <1>6, <1>7

LEMMA Expanded ==
    ASSUME NEW m, Sane(m), m.table.size = 0 => m.single.key \in Keys,
           NEW X, X = expand(m.table, m.single)
    PROVE  /\ Good(X) /\ Entries(X) = View(m) /\ X.size >= InitialSize
           /\ 2 * X.keyCount < X.size /\ X.lastIndexUsed <= m.table.lastIndexUsed
           /\ X.size = IF m.table.size = 0 THEN InitialSize ELSE 2 * m.table.size
  <1>1. InitialSize \in Nat /\ InitialSize >= 4
    BY SizeAssumption DEF PowersOf2
  <1>2. CASE m.table.size = 0
    <2>1. PICK s : s = m.single
      OBVIOUS
    <2>2. s \in EntryType /\ s.key \in Keys /\ s.index = 0 /\ m.table = NoTable
      BY <1>2, <2>1, SaneCases, KeysAssumption DEF IsSingle, NullEntry, Entry
    <2>3. View(m) = {s}
      BY <1>2, <2>1, <2>2, SaneCases
    <2>4. X = expand(NoTable, s)
      BY <2>1, <2>2
    <2>5. /\ Good(X) /\ Entries(X) = {s} /\ X.size = InitialSize
          /\ X.keyCount = 1 /\ X.lastIndexUsed = 0
      BY ONLY <2>2, <2>4, FirstTable
    <2>6. m.table.lastIndexUsed = 0
      BY <2>2 DEF NoTable
    <2> QED
      BY <1>1, <1>2, <2>3, <2>5, <2>6
  <1>3. CASE m.table.size # 0
    <2>1. PICK T, s, N : T = m.table /\ s = m.single /\ N = T.size * 2
      OBVIOUS
    <2>2. Good(T) /\ s = NullEntry /\ T.size \in Nat /\ T.size >= InitialSize /\ View(m) = Entries(T)
      BY <1>3, <2>1, SaneCases
    <2>3. /\ Sound(T) /\ (\A e \in Entries(T) : e.index <= T.lastIndexUsed)
          /\ T.keyCount = Cardinality(Held(T)) /\ 2 * T.keyCount <= T.size
          /\ T.size \in PowersOf2 /\ T.keyCount \in Nat
      BY <2>2, GoodRoomy DEF Good, Sound, Typed, Shape
    <2>4. N \in PowersOf2 /\ N >= T.size /\ N = 2 * T.size
      <3>1. N = 2 * T.size
        BY <2>1, <2>2
      <3> QED
        BY <2>2, <2>3, <3>1, Doubled
    <2>5. X = rehash(T, s, N) /\ s.key = NoKey
      BY <1>3, <2>1, <2>2 DEF expand, NullEntry, Entry
    <2>6. /\ Good(X) /\ Entries(X) = Entries(T) /\ X.size = N
          /\ X.keyCount = T.keyCount /\ X.lastIndexUsed <= T.lastIndexUsed
      BY ONLY <2>3, <2>4, <2>5, Rehashed
    <2> QED
      BY <1>1, <1>3, <2>1, <2>2, <2>3, <2>4, <2>6
  <1> QED
    BY <1>2, <1>3

LEMMA TableSane ==
    ASSUME NEW G, Good(G), G.size >= InitialSize, NEW M, M = [single |-> NullEntry, table |-> G]
    PROVE  Sane(M) /\ View(M) = Entries(G) /\ M.table = G
  <1>1. G.size # 0
    BY DEF Good, Sound, Typed, Shape, PowersOf2
  <1> QED
    BY <1>1 DEF Sane, View

LEMMA SingleSane ==
    ASSUME NEW e, IsSingle(e), NEW M, M = [single |-> e, table |-> NoTable]
    PROVE  /\ Sane(M) /\ M.table = NoTable
           /\ e.key \in Keys => View(M) = {e}
           /\ e.key \notin Keys => View(M) = {}
  BY DEF Sane, View, NoTable

LEMMA PutMap ==
    ASSUME NEW m, Sane(m), NEW k \in Keys, NEW v \in Values, NEW a \in AttributeSets,
           NEW ro, NEW M, M = put(m, k, v, a, ro)
    PROVE  /\ Sane(M) /\ Puts(View(m), View(M), k, v, a) /\ Grows(m.table, M.table)
           /\ M.table.lastIndexUsed <= m.table.lastIndexUsed + 1
           /\ (View(m) = {} /\ m.table = NoTable) => M.table = NoTable
  <1>1. PICK s, T : s = m.single /\ T = m.table
    OBVIOUS
  <1>2. m = [single |-> s, table |-> T]
    BY <1>1 DEF Sane
  <1>3. T.lastIndexUsed \in Nat
    BY <1>1, ViewTyped
  <1>4. CASE T.size = 0 /\ s.key = NoKey
    <2>1. PICK e : e = Entry(k, v, a, 0)
      OBVIOUS
    <2>2. T = NoTable /\ View(m) = {}
      BY <1>1, <1>4, SaneCases, KeysAssumption
    <2>3. M = [single |-> e, table |-> NoTable]
      BY <1>1, <1>2, <1>4, <2>1, <2>2 DEF put
    <2>4. IsSingle(e) /\ e.key \in Keys
      BY <2>1, EntryIsTyped DEF IsSingle, Entry
    <2>5. Sane(M) /\ View(M) = {e} /\ M.table = NoTable
      BY <2>3, <2>4, SingleSane
    <2>6. Adds(View(m), View(M), k, v, a)
      BY <2>1, <2>2, <2>5 DEF Adds, NameIn
    <2> QED
      BY <1>1, <1>3, <2>2, <2>5, <2>6 DEF Puts, Grows
  <1>5. CASE T.size = 0 /\ s.key = k /\ ~ (ro /\ "ReadOnly" \in s.attributes)
    <2>1. PICK e : e = [s EXCEPT !.value = v]
      OBVIOUS
    <2>2. T = NoTable /\ IsSingle(s) /\ s.key \in Keys
      BY <1>1, <1>5, SaneCases
    <2>3. s \in EntryType /\ s.index = 0 /\ View(m) = {s} /\ s.key # NoKey
      BY <1>1, <1>5, <2>2, SaneCases, KeysAssumption DEF IsSingle, NullEntry, Entry
    <2>4. M = [m EXCEPT !.single.value = v]
      BY <1>1, <1>5, <2>3 DEF put
    <2>5. M = [single |-> e, table |-> NoTable]
      BY <1>2, <2>1, <2>2, <2>4
    <2>6. e \in EntryType /\ e.key = s.key /\ e.index = 0
      BY <2>1, <2>2, <2>3, KeysAssumption DEF EntryType
    <2>7. Sane(M) /\ View(M) = {e} /\ M.table = NoTable
      BY <2>2, <2>5, <2>6, SingleSane DEF IsSingle
    <2>8. Assigned(View(m), View(M), k, v)
      BY <1>5, <2>1, <2>3, <2>7 DEF Assigned
    <2> QED
      BY <1>1, <1>3, <2>2, <2>7, <2>8 DEF Puts, Grows
  <1>6. CASE /\ ~(T.size = 0 /\ s.key = NoKey)
             /\ ~(T.size = 0 /\ s.key = k /\ ~ (ro /\ "ReadOnly" \in s.attributes))
             /\ T.keyCount * 2 >= T.size
    <2>1. PICK X, G : X = expand(T, s) /\ G = PutInTable(X, k, v, a, ro)
      OBVIOUS
    <2>2. M = [single |-> NullEntry, table |-> G]
      BY <1>1, <1>6, <2>1 DEF put
    <2>3. T.size = 0 => s.key \in Keys
      BY <1>1, <1>6, SaneCases DEF IsSingle, NullEntry, Entry
    <2>4. /\ Good(X) /\ Entries(X) = View(m) /\ X.size >= InitialSize
          /\ 2 * X.keyCount < X.size /\ X.lastIndexUsed <= T.lastIndexUsed
          /\ X.size = IF T.size = 0 THEN InitialSize ELSE 2 * T.size
      BY <1>1, <2>1, <2>3, Expanded
    <2>5. /\ Good(G) /\ G.size = X.size /\ G.lastIndexUsed <= X.lastIndexUsed + 1
          /\ Puts(Entries(X), Entries(G), k, v, a)
      BY <2>1, <2>4, PutExpanded
    <2>6. Sane(M) /\ View(M) = Entries(G) /\ M.table = G
      BY <2>2, <2>4, <2>5, TableSane
    <2>7. X.lastIndexUsed \in Nat /\ G.lastIndexUsed \in Nat
      BY <2>4, <2>5 DEF Good, Sound, Typed, Header
    <2>8. G.lastIndexUsed <= T.lastIndexUsed + 1
      BY <1>3, <2>4, <2>5, <2>7
    <2>9. T.size # 0 => T.size <= 2 * T.keyCount
      <3>1. T.size # 0 => T.keyCount \in Nat /\ T.size \in Nat
        BY <1>1, SaneCases, GoodRoomy
      <3> QED
        BY <1>6, <3>1
    <2>10. Grows(T, G)
      BY <2>4, <2>5, <2>9 DEF Grows
    <2>11. ~(View(m) = {} /\ T = NoTable)
      BY <1>1, <2>3, SaneCases DEF NoTable
    <2> QED
      BY <1>1, <2>4, <2>5, <2>6, <2>8, <2>10, <2>11
  <1>7. CASE /\ ~(T.size = 0 /\ s.key = NoKey)
             /\ ~(T.size = 0 /\ s.key = k /\ ~ (ro /\ "ReadOnly" \in s.attributes))
             /\ ~(T.keyCount * 2 >= T.size)
    <2>1. PICK G : G = PutInTable(T, k, v, a, ro)
      OBVIOUS
    <2>2. M = [m EXCEPT !.table = G]
      BY <1>1, <1>7, <2>1 DEF put
    <2>3. T.size # 0
      BY <1>1, <1>7, SaneCases DEF NoTable
    <2>4. Good(T) /\ s = NullEntry /\ T.size \in Nat /\ T.size >= InitialSize /\ View(m) = Entries(T)
      BY <1>1, <2>3, SaneCases
    <2>5. 2 * T.keyCount < T.size
      BY <1>7, <2>4, GoodRoomy
    <2>6. M = [single |-> NullEntry, table |-> G]
      BY <1>2, <2>2, <2>4
    <2>7. /\ Good(G) /\ G.size = T.size /\ G.lastIndexUsed <= T.lastIndexUsed + 1
          /\ Puts(Entries(T), Entries(G), k, v, a)
      BY <2>1, <2>4, <2>5, PutExpanded
    <2>8. Sane(M) /\ View(M) = Entries(G) /\ M.table = G
      BY <2>4, <2>6, <2>7, TableSane
    <2> QED
      BY <1>1, <2>3, <2>4, <2>7, <2>8 DEF Grows, NoTable
  <1> QED
    BY <1>4, <1>5, <1>6, <1>7

LEMMA RemoveMap ==
    ASSUME NEW m, Sane(m), NEW k \in Keys, NEW M, M = remove(m, k)
    PROVE  /\ Sane(M) /\ View(M) = Without(View(m), k) /\ M.table.size = m.table.size
           /\ M.table.lastIndexUsed <= m.table.lastIndexUsed
  <1>1. PICK s, T : s = m.single /\ T = m.table
    OBVIOUS
  <1>2. m = [single |-> s, table |-> T]
    BY <1>1 DEF Sane
  <1>3. T.lastIndexUsed \in Nat
    BY <1>1, ViewTyped
  <1>4. CASE T.size # 0
    <2>1. PICK G : G = RemoveFromTable(T, k)
      OBVIOUS
    <2>2. Good(T) /\ s = NullEntry /\ T.size \in Nat /\ T.size >= InitialSize /\ View(m) = Entries(T)
      BY <1>1, <1>4, SaneCases
    <2>3. M = [single |-> NullEntry, table |-> G]
      BY <1>1, <1>2, <1>4, <2>1, <2>2 DEF remove
    <2>4. /\ Good(G) /\ G.size = T.size /\ G.lastIndexUsed <= T.lastIndexUsed
          /\ Entries(G) = Without(Entries(T), k)
      BY <2>1, <2>2, RemovedFrom
    <2>5. Sane(M) /\ View(M) = Entries(G) /\ M.table = G
      BY <2>2, <2>3, <2>4, TableSane
    <2> QED
      BY <1>1, <2>2, <2>4, <2>5
  <1>5. CASE T.size = 0
    <2>1. T = NoTable /\ IsSingle(s) /\ View(m) = {e \in {s} : e.key \in Keys}
      BY <1>1, <1>5, SaneCases
    <2>2. CASE s.key = k
      <3>1. M = [single |-> NullEntry, table |-> NoTable]
        BY <1>1, <1>2, <1>5, <2>1, <2>2 DEF remove
      <3>2. IsSingle(NullEntry) /\ NullEntry.key \notin Keys
        BY KeysAssumption DEF IsSingle, NullEntry, Entry
      <3>3. Sane(M) /\ View(M) = {} /\ M.table = NoTable
        BY <3>1, <3>2, SingleSane
      <3> QED
        BY <1>1, <1>3, <2>1, <2>2, <3>3 DEF Without
    <2>3. CASE s.key # k
      <3>1. M = m
        BY <1>1, <1>5, <2>3 DEF remove
      <3>2. View(m) = Without(View(m), k)
        <4>1. \A e \in View(m) : e.key # k
          BY <2>1, <2>3
        <4> QED
          BY <4>1 DEF Without
      <3> QED
        BY <1>1, <1>3, <3>1, <3>2
    <2> QED
      BY <2>2, <2>3
  <1> QED
    BY <1>4, <1>5

\* The table that Clear leaves.
Cleared(T) ==
    [T EXCEPT
        !.entries = [i \in DOMAIN @ |->
            IF isValid(@[i].key) THEN [@[i] EXCEPT !.key = NoKey, !.value = NoKey]
            ELSE @[i]],
        !.keyCount = 0, !.sentinelCount = 0]

LEMMA ClearedIs ==
    ASSUME NEW T, Good(T), T.sentinelCount = 0, NEW G, G = Cleared(T)
    PROVE  /\ Good(G) /\ Entries(G) = {} /\ G.size = T.size
           /\ G.lastIndexUsed = T.lastIndexUsed
  <1>1. /\ Shape(T) /\ Header(T) /\ T.size \in Nat /\ T.size >= 4
        /\ T.sentinelCount = Cardinality(Marks(T))
    BY DEF Good, Sound, Typed, Shape, PowersOf2
  <1>2. PICK x, y : /\ x = T.entries
                    /\ y = [i \in DOMAIN x |->
                            IF isValid(x[i].key) THEN [x[i] EXCEPT !.key = NoKey, !.value = NoKey]
                            ELSE x[i]]
    OBVIOUS
  <1>3. G = [T EXCEPT !.entries = y, !.keyCount = 0, !.sentinelCount = 0]
    BY <1>2 DEF Cleared
  <1>4. /\ G.size = T.size /\ G.entries = y /\ G.keyCount = 0 /\ G.sentinelCount = 0
        /\ G.lastIndexUsed = T.lastIndexUsed /\ Header(G)
    BY <1>1, <1>3 DEF Header
  <1>5. x \in [SlotsOf(T) -> EntryType]
    BY <1>1, <1>2 DEF Shape, SlotsOf
  <1>6. \A i \in SlotsOf(T) : x[i].key # Deleted
    <2>1. Marks(T) = {}
      BY <1>1, SlotsFinite, FS_EmptySet
    <2> QED
      BY <1>2, <2>1 DEF Marks
  <1>7. ASSUME NEW i \in SlotsOf(T) PROVE y[i] \in EntryType /\ y[i].key = NoKey
    <2>1. PICK e : e = x[i]
      OBVIOUS
    <2>2. e \in EntryType /\ e.key # Deleted
      BY <1>5, <1>6, <2>1
    <2>3. y[i] = IF e.key \in Keys THEN [e EXCEPT !.key = NoKey, !.value = NoKey] ELSE e
      BY <1>2, <1>5, <2>1 DEF isValid
    <2> QED
      BY <2>2, <2>3, KeysAssumption DEF EntryType
  <1>8. y \in [SlotsOf(T) -> EntryType]
    <2>1. DOMAIN y = SlotsOf(T) /\ y = [i \in DOMAIN y |-> y[i]]
      BY <1>2, <1>5
    <2> QED
      BY <1>7, <2>1
  <1>9. Typed(G)
    BY <1>1, <1>4, <1>8 DEF Typed, Shape, SlotsOf
  <1>10. Held(G) = {} /\ Marks(G) = {} /\ Entries(G) = {}
    BY <1>4, <1>7, KeysAssumption DEF Held, Marks, Entries, SlotsOf
  <1>11. Located(G) /\ Distinct(Entries(G))
    BY <1>10 DEF Located, Held, Distinct
  <1>12. Cardinality({}) = 0
    BY FS_EmptySet
  <1>13. Capped(G)
    <2>1. \A j \in SlotsOf(T) : x[j].index <= T.lastIndexUsed
      BY <1>2 DEF Good, Capped
    <2>2. \A j \in SlotsOf(T) : y[j].index = x[j].index
      BY <1>2, <1>5 DEF EntryType
    <2> QED
      BY <1>4, <2>1, <2>2 DEF Capped, SlotsOf
  <1> QED
    BY <1>1, <1>4, <1>9, <1>10, <1>11, <1>12, <1>13 DEF Good, Sound

------------------------------------------------------------------------------
(* save and restore.                                                       *)

MapType ==
    [single : EntryType,
     table : [size : Nat, entries : UNION {[0 .. n - 1 -> EntryType] : n \in Nat},
              keyCount : Int, sentinelCount : Int, lastIndexUsed : Nat]]

LEMMA SaneType ==
    ASSUME NEW m, Sane(m)
    PROVE  m \in MapType
  <1>1. NullEntry \in EntryType
    BY KeysAssumption DEF NullEntry, Entry, EntryType, AttributeSets
  <1>2. PICK s, T : s = m.single /\ T = m.table
    OBVIOUS
  <1>3. m = [single |-> s, table |-> T]
    BY <1>2 DEF Sane
  <1>4. s \in EntryType
    BY <1>1, <1>2, SaneCases DEF IsSingle
  <1>5. T = NoTable \/ Typed(T)
    BY <1>2, SaneCases DEF Good, Sound
  <1>6. PICK F : F = UNION {[0 .. n - 1 -> EntryType] : n \in Nat}
    OBVIOUS
  <1>7. T \in [size : Nat, entries : F, keyCount : Int, sentinelCount : Int, lastIndexUsed : Nat]
    <2>1. CASE T = NoTable
      <3>1. <<>> \in [0 .. 0 - 1 -> EntryType]
        OBVIOUS
      <3>2. <<>> \in F
        BY <1>6, <3>1
      <3> QED
        BY <2>1, <3>2 DEF NoTable
    <2>2. CASE Typed(T)
      <3>1. T.size \in Nat /\ T.entries \in [0 .. T.size - 1 -> EntryType]
        BY <2>2 DEF Typed, Shape, PowersOf2
      <3>2. T.entries \in F
        BY <1>6, <3>1
      <3> QED
        BY <2>2, <3>1, <3>2 DEF Typed, Header
    <2> QED
      BY <1>5, <2>1, <2>2
  <1> QED
    BY <1>3, <1>4, <1>6, <1>7 DEF MapType

\* The loop of restore.
Loads(m, saved, f) ==
    /\ f[0] = m
    /\ \A n \in 1 .. Len(saved) :
        f[n] = put(f[n - 1], saved[n].key, saved[n].value, saved[n].attributes, FALSE)

LEMMA RestoredIs ==
    ASSUME NEW m, Sane(m), NEW saved \in Seq({e \in EntryType : e.key \in Keys})
    PROVE  \E f : Loads(m, saved, f) /\ restore(m, saved) = f[Len(saved)]
  <1> DEFINE N == Len(saved)
             A == {x \in MapType : Sane(x)}
             next(J, n) == put(J, saved[n].key, saved[n].value, saved[n].attributes, FALSE)
             step == [n \in 1 .. N |-> [J \in A |-> next(J, n)]]
             after[n \in 0 .. N] ==
                IF n = 0 THEN m
                ELSE LET e == saved[n] IN put(after[n - 1], e.key, e.value, e.attributes, FALSE)
  <1>0. N \in Nat /\ m \in A
    BY SaneType
  <1>1. step \in [1 .. N -> [A -> A]]
    <2>1. ASSUME NEW n \in 1 .. N, NEW J \in A PROVE next(J, n) \in A
      <3>1. saved[n] \in EntryType /\ saved[n].key \in Keys
        OBVIOUS
      <3>2. saved[n].value \in Values /\ saved[n].attributes \in AttributeSets
        BY <3>1 DEF EntryType
      <3>3. Sane(J)
        OBVIOUS
      <3>4. PICK M : M = next(J, n)
        OBVIOUS
      <3>5. Sane(M)
        BY <3>1, <3>2, <3>3, <3>4, PutMap
      <3> QED
        BY <3>4, <3>5, SaneType
    <2> HIDE DEF A, next
    <2> QED
      BY <2>1
  <1>2. PICK f : Run(N, A, m, step, f)
    <2> HIDE DEF A, step, N
    <2> QED
      BY <1>0, <1>1, Recursion
  <1>3. /\ f[0] = m /\ f \in [0 .. N -> A]
        /\ \A n \in 1 .. N : f[n] = next(f[n - 1], n)
    <2>1. ASSUME NEW n \in 1 .. N PROVE f[n] = next(f[n - 1], n)
      <3>1. n - 1 \in 0 .. N
        BY <1>0
      <3>2. f[n - 1] \in A /\ f[n] = step[n][f[n - 1]]
        <4> HIDE DEF A, step
        <4> QED
          BY <1>2, <3>1 DEF Run
      <3> HIDE DEF A, next
      <3> QED
        BY <3>2
    <2>2. f[0] = m /\ f \in [0 .. N -> A]
      <3> HIDE DEF A, step, N
      <3> QED
        BY <1>2 DEF Run
    <2> QED
      BY <2>1, <2>2
  <1>4. f = [n \in 0 .. N |->
                IF n = 0 THEN m
                ELSE LET e == saved[n] IN put(f[n - 1], e.key, e.value, e.attributes, FALSE)]
    <2>1. \A n \in 0 .. N : n = 0 \/ n \in 1 .. N
      BY <1>0
    <2> HIDE DEF A, N
    <2> QED
      BY <1>3, <2>1
  <1>5. after = [n \in 0 .. N |->
                IF n = 0 THEN m
                ELSE LET e == saved[n] IN put(after[n - 1], e.key, e.value, e.attributes, FALSE)]
    <2> HIDE DEF N
    <2> QED
      BY <1>4, Zenon
  <1>6. restore(m, saved) = after[N]
    BY DEF restore
  <1> HIDE DEF after
  <1>7. Loads(m, saved, after)
    <2>1. 0 \in 0 .. N /\ \A n \in 1 .. N : n \in 0 .. N /\ n # 0
      BY <1>0
    <2>2. after[0] = m
      <3> HIDE DEF N
      <3> QED
        BY <1>5, <2>1
    <2>3. ASSUME NEW n \in 1 .. N PROVE after[n] = next(after[n - 1], n)
      <3>1. n \in 0 .. N /\ n # 0
        BY <2>1
      <3> HIDE DEF N
      <3> QED
        BY <1>5, <3>1
    <2> QED
      BY <2>2, <2>3 DEF Loads
  <1> QED
    BY <1>6, <1>7

\* Two entries for the same property.
Alike(e, f) == e.key = f.key /\ e.value = f.value /\ e.attributes = f.attributes

\* The entries of M are the first n of those saved, in their order.
Loaded(n, saved, M) ==
    /\ Cardinality(View(M)) = n
    /\ \E u : /\ Enumerates(u, View(M))
              /\ \A j \in 1 .. n : Alike(u[j], saved[j])

\* What restoring n of the entries of a map with a table of this size needs.
Fits(n, size, M) ==
    /\ n <= 1 => M.table = NoTable
    /\ n > 1 => M.table.lastIndexUsed <= n - 1
    /\ M.table.size <= size

LEMMA CountIs ==
    ASSUME NEW m, Sane(m)
    PROVE  /\ m.table.size # 0 => m.table.keyCount = Cardinality(View(m))
           /\ m.table.size = 0 => Cardinality(View(m)) <= 1
           /\ m.table.size \in Nat
  <1>1. CASE m.table.size # 0
    <2>1. Good(m.table) /\ View(m) = Entries(m.table) /\ m.table.size \in Nat
      BY <1>1, SaneCases
    <2>2. Shape(m.table) /\ Located(m.table) /\ m.table.keyCount = Cardinality(Held(m.table))
      BY <2>1 DEF Good, Sound, Typed
    <2> QED
      BY <1>1, <2>1, <2>2, EntriesCounted
  <1>2. CASE m.table.size = 0
    <2>1. View(m) \subseteq {m.single}
      BY <1>2, SaneCases
    <2>2. IsFiniteSet({m.single}) /\ Cardinality({m.single}) = 1
      BY FS_Singleton
    <2>3. Cardinality(View(m)) <= Cardinality({m.single})
      BY ONLY <2>1, <2>2, FS_Subset
    <2> QED
      BY <1>2, <2>2, <2>3
  <1> QED
    BY <1>1, <1>2

LEMMA LoadsOn ==
    ASSUME NEW M, Sane(M), NEW n \in Nat, NEW saved, Loaded(n, saved, M),
           NEW N \in Nat, n < N, NEW size \in Nat, Fits(n, size, M),
           N > 1 => size \in PowersOf2 /\ size >= InitialSize /\ 2 * N <= size,
           NEW k \in Keys, NEW v \in Values, NEW a \in AttributeSets,
           \A j \in 1 .. n : saved[j].key # k,
           saved[n + 1].key = k, saved[n + 1].value = v, saved[n + 1].attributes = a,
           NEW G, G = put(M, k, v, a, FALSE)
    PROVE  Sane(G) /\ Loaded(n + 1, saved, G) /\ Fits(n + 1, size, G)
  <1>1. PICK E, F : E = View(M) /\ F = View(G)
    OBVIOUS
  <1>2. PICK u : Enumerates(u, E) /\ \A j \in 1 .. n : Alike(u[j], saved[j])
    BY <1>1 DEF Loaded
  <1>3. Cardinality(E) = n /\ Named(E)
    BY <1>1, ViewTyped DEF Loaded
  <1>4. ~ NameIn(E, k)
    <2>1. \A e \in E : \E j \in 1 .. n : u[j] = e
      BY <1>2, <1>3 DEF Enumerates
    <2> QED
      BY <1>2, <2>1 DEF NameIn, Alike
  <1>5. /\ Sane(G) /\ Puts(E, F, k, v, a) /\ Grows(M.table, G.table)
        /\ G.table.lastIndexUsed <= M.table.lastIndexUsed + 1
        /\ (E = {} /\ M.table = NoTable) => G.table = NoTable
    <2>1. PICK ro : ro = FALSE
      OBVIOUS
    <2>2. Sane(M) /\ k \in Keys /\ v \in Values /\ a \in AttributeSets /\ G = put(M, k, v, a, ro)
      BY <2>1
    <2>3. /\ Sane(G) /\ Puts(View(M), View(G), k, v, a) /\ Grows(M.table, G.table)
          /\ G.table.lastIndexUsed <= M.table.lastIndexUsed + 1
          /\ (View(M) = {} /\ M.table = NoTable) => G.table = NoTable
      BY ONLY <2>2, PutMap
    <2> QED
      BY <1>1, <2>3
  <1>6. Adds(E, F, k, v, a)
    BY <1>4, <1>5 DEF Puts, Assigned, NameIn
  <1>7. PICK i \in Nat : (\A e \in E : e.index < i) /\ F = E \cup {Entry(k, v, a, i)}
    BY <1>6 DEF Adds
  <1>8. PICK e, w : e = Entry(k, v, a, i) /\ w = Behind(n, u, e)
    OBVIOUS
  <1>9. e.index = i /\ Alike(e, saved[n + 1])
    BY <1>8 DEF Entry, Alike
  <1>10. Enumerates(w, F) /\ Cardinality(F) = n + 1
    <2>1. \A f \in E : f.index \in Nat /\ f.index < e.index
      BY <1>3, <1>7, <1>9 DEF Named
    <2>2. F = E \cup {e} /\ e.index \in Nat
      BY <1>7, <1>8, <1>9
    <2> QED
      BY ONLY <1>2, <1>3, <1>8, <2>1, <2>2, EnumeratesMore
  <1>11. \A j \in 1 .. n + 1 : Alike(w[j], saved[j])
    <2>1. w = [j \in 1 .. n + 1 |-> IF j = n + 1 THEN e ELSE u[j]]
      BY <1>8 DEF Behind
    <2>2. \A j \in 1 .. n + 1 : j = n + 1 \/ j \in 1 .. n
      OBVIOUS
    <2> QED
      BY <1>2, <1>9, <2>1, <2>2
  <1>12. Loaded(n + 1, saved, G)
    BY <1>1, <1>10, <1>11 DEF Loaded
  <1>13. M.table.lastIndexUsed \in Nat /\ G.table.lastIndexUsed \in Nat
    BY <1>5, ViewTyped
  <1>14. CASE n = 0
    <2>1. E = {}
      <3>1. \A f \in E : \E j \in 1 .. n : u[j] = f
        BY <1>2, <1>3 DEF Enumerates
      <3> QED
        BY <1>14, <3>1
    <2>2. n <= 1 /\ n + 1 <= 1 /\ ~(n + 1 > 1)
      BY <1>14
    <2>3. M.table = NoTable
      BY <2>2 DEF Fits
    <2>4. G.table = NoTable
      BY <1>5, <2>1, <2>3
    <2>5. G.table.size = 0
      <3>1. NoTable.size = 0
        BY DEF NoTable
      <3> QED
        BY ONLY <2>4, <3>1
    <2>6. Fits(n + 1, size, G)
      BY <2>2, <2>4, <2>5 DEF Fits
    <2> QED
      BY <1>5, <1>12, <2>6
  <1>15. CASE n # 0
    <2>1. n >= 1 /\ N > 1 /\ size \in PowersOf2 /\ size >= InitialSize /\ 2 * N <= size
      BY <1>15
    <2>2. G.table.lastIndexUsed <= n
      <3>1. CASE n = 1
        <4>1. M.table.lastIndexUsed = 0
          BY <3>1 DEF Fits, NoTable
        <4>2. PICK y : y = G.table.lastIndexUsed
          OBVIOUS
        <4>3. y \in Nat /\ y <= 0 + 1 /\ n = 1
          BY <1>5, <1>13, <3>1, <4>1, <4>2
        <4>4. y <= n
          BY ONLY <4>3
        <4> QED
          BY <4>2, <4>4
      <3>2. CASE n # 1
        <4>1. M.table.lastIndexUsed <= n - 1
          BY <2>1, <3>2 DEF Fits
        <4>2. PICK x, y : x = M.table.lastIndexUsed /\ y = G.table.lastIndexUsed
          OBVIOUS
        <4>3. x \in Nat /\ y \in Nat /\ y <= x + 1 /\ x <= n - 1 /\ n \in Nat
          BY <1>5, <1>13, <4>1, <4>2
        <4>4. y <= n
          BY ONLY <4>3
        <4> QED
          BY <4>2, <4>4
      <3> QED
        BY <3>1, <3>2
    <2>3. G.table.size <= size
      <3>1. CASE G.table.size = M.table.size
        BY <3>1 DEF Fits
      <3>2. CASE G.table.size = InitialSize
        BY <2>1, <3>2
      <3>3. CASE /\ M.table.size # 0 /\ M.table.size <= 2 * M.table.keyCount
                 /\ G.table.size = 2 * M.table.size
        <4>1. PICK x : x = M.table.size
          OBVIOUS
        <4>2. M.table.keyCount = n /\ x \in PowersOf2 /\ x \in Nat
          BY <1>1, <1>3, <3>3, <4>1, CountIs, SaneCases DEF Good, Sound, Typed, Shape
        <4>3. x < size
          BY <2>1, <3>3, <4>1, <4>2
        <4>4. 2 * x <= size
          BY <2>1, <4>2, <4>3, PowersApart
        <4> QED
          BY <3>3, <4>1, <4>4
      <3> QED
        BY <1>5, <3>1, <3>2, <3>3 DEF Grows
    <2>4. n + 1 > 1 /\ ~(n + 1 <= 1) /\ (n + 1) - 1 = n
      BY <2>1
    <2>5. Fits(n + 1, size, G)
      BY <2>2, <2>3, <2>4 DEF Fits
    <2> QED
      BY <1>5, <1>12, <2>5
  <1> QED
    BY <1>14, <1>15

\* All of them.
LEMMA LoadedAll ==
    ASSUME NEW saved \in Seq({e \in EntryType : e.key \in Keys}),
           \A i, j \in 1 .. Len(saved) : saved[i].key = saved[j].key => i = j,
           NEW size \in Nat,
           Len(saved) > 1 => size \in PowersOf2 /\ size >= InitialSize /\ 2 * Len(saved) <= size,
           NEW M, M = restore([single |-> NullEntry, table |-> NoTable], saved)
    PROVE  Sane(M) /\ Loaded(Len(saved), saved, M) /\ Fits(Len(saved), size, M)
  <1> DEFINE N == Len(saved)
  <1>1. PICK m : m = [single |-> NullEntry, table |-> NoTable]
    OBVIOUS
  <1>2. Sane(m) /\ m.table = NoTable /\ View(m) = {}
    <2>1. IsSingle(NullEntry) /\ NullEntry.key \notin Keys
      BY KeysAssumption DEF IsSingle, NullEntry, Entry
    <2> QED
      BY <1>1, <2>1, SingleSane
  <1>3. PICK f : Loads(m, saved, f) /\ M = f[N]
    BY <1>1, <1>2, RestoredIs
  <1>4. N \in Nat
    OBVIOUS
  <1> DEFINE P(n) == Sane(f[n]) /\ Loaded(n, saved, f[n]) /\ Fits(n, size, f[n])
             S == {n \in 0 .. N : P(n)}
  <1>5. 0 \in S
    <2>1. f[0] = m
      BY <1>3 DEF Loads
    <2>2. Loaded(0, saved, m)
      <3>1. Cardinality(View(m)) = 0
        BY <1>2, FS_EmptySet
      <3>2. Enumerates(<<>>, View(m))
        BY <1>2, EnumeratesNone
      <3>3. \A j \in 1 .. 0 : FALSE
        OBVIOUS
      <3> QED
        BY <3>1, <3>2, <3>3 DEF Loaded
    <2>3. Fits(0, size, m)
      BY <1>2 DEF Fits, NoTable
    <2> QED
      BY <1>2, <1>4, <2>1, <2>2, <2>3
  <1>6. ASSUME NEW n \in 0 .. N - 1, n \in S PROVE n + 1 \in S
    <2>1. n \in Nat /\ n < N /\ n + 1 \in 1 .. N /\ n + 1 \in 0 .. N /\ (n + 1) - 1 = n
      BY <1>4
    <2>2. PICK e : e = saved[n + 1]
      OBVIOUS
    <2>3. e \in EntryType /\ e.key \in Keys /\ e.value \in Values /\ e.attributes \in AttributeSets
      <3>1. e \in EntryType /\ e.key \in Keys
        BY <2>1, <2>2
      <3> QED
        BY <3>1 DEF EntryType
    <2>4. f[n + 1] = put(f[n], e.key, e.value, e.attributes, FALSE)
      BY <1>3, <2>1, <2>2 DEF Loads
    <2>5. \A j \in 1 .. n : saved[j].key # e.key
      <3>1. \A j \in 1 .. n : j \in 1 .. N /\ j # n + 1
        BY <2>1
      <3> QED
        BY <2>1, <2>2, <3>1
    <2>6. Sane(f[n]) /\ Loaded(n, saved, f[n]) /\ Fits(n, size, f[n])
      BY <1>6
    <2>7. N > 1 => size \in PowersOf2 /\ size >= InitialSize /\ 2 * N <= size
      OBVIOUS
    <2>8. PICK k, v, a : k = e.key /\ v = e.value /\ a = e.attributes
      OBVIOUS
    <2>9. /\ k \in Keys /\ v \in Values /\ a \in AttributeSets
          /\ saved[n + 1].key = k /\ saved[n + 1].value = v /\ saved[n + 1].attributes = a
          /\ \A j \in 1 .. n : saved[j].key # k
      BY <2>2, <2>3, <2>5, <2>8
    <2>10. PICK G, J : G = f[n + 1] /\ J = f[n]
      OBVIOUS
    <2>11. G = put(J, k, v, a, FALSE) /\ Sane(J) /\ Loaded(n, saved, J) /\ Fits(n, size, J)
      BY <2>4, <2>6, <2>8, <2>10
    <2> HIDE DEF N
    <2>12. Sane(G) /\ Loaded(n + 1, saved, G) /\ Fits(n + 1, size, G)
      BY ONLY <1>4, <2>1, <2>7, <2>9, <2>11, size \in Nat, LoadsOn
    <2> QED
      BY <2>1, <2>10, <2>12
  <1>7. N \in S
    <2> HIDE DEF S, N
    <2>1. 0 .. N \subseteq S
      BY <1>4, <1>5, <1>6, IntervalInduction
    <2> QED
      BY <1>4, <2>1
  <1> QED
    BY <1>3, <1>7

\* The entries that save keeps.
Plain(E) == {e \in E : e.attributes \cap {"ReadOnly", "Function"} = {}}

LEMMA SaveEnumerates ==
    ASSUME NEW m, Sane(m)
    PROVE  Enumerates(save(m), Plain(View(m)))
  <1> DEFINE Keeps(e) == e.key \in Keys /\ e.attributes \cap {"ReadOnly", "Function"} = {}
  <1>1. save(m) = IF m.table.size = 0 THEN IF Keeps(m.single) THEN <<m.single>> ELSE <<>>
                  ELSE Ranked(m.table.entries, {i \in DOMAIN m.table.entries : Keeps(m.table.entries[i])})
    BY DEF save, Sorted, isValid
  <1>2. CASE m.table.size = 0
    <2>1. View(m) = {e \in {m.single} : e.key \in Keys}
      BY <1>2, SaneCases
    <2>2. CASE Keeps(m.single)
      <3>1. Plain(View(m)) = {m.single} /\ save(m) = <<m.single>>
        BY <1>1, <1>2, <2>1, <2>2 DEF Plain
      <3> QED
        BY <3>1, EnumeratesOne
    <2>3. CASE ~ Keeps(m.single)
      <3>1. Plain(View(m)) = {} /\ save(m) = <<>>
        BY <1>1, <1>2, <2>1, <2>3 DEF Plain
      <3> QED
        BY <3>1, EnumeratesNone
    <2> QED
      BY <2>2, <2>3
  <1>3. CASE m.table.size # 0
    <2>1. PICK T : T = m.table
      OBVIOUS
    <2>2. Good(T) /\ View(m) = Entries(T)
      BY <1>3, <2>1, SaneCases
    <2>3. Sound(T) /\ DOMAIN T.entries = SlotsOf(T)
      BY <2>2 DEF Good, Sound, Typed, Shape, SlotsOf
    <2>4. PICK E, S : E = T.entries /\ S = {i \in Held(T) : Keeps(T.entries[i])}
      OBVIOUS
    <2>5. save(m) = Ranked(E, S)
      BY <1>1, <1>3, <2>1, <2>3, <2>4 DEF Held
    <2>6. Indexed(E, S)
      BY <2>3, <2>4, HeldIndexed
    <2>7. Plain(View(m)) = {E[i] : i \in S}
      BY <2>2, <2>4 DEF Plain, Entries, Held
    <2>8. Enumerates(Ranked(E, S), Plain(View(m)))
      BY ONLY <2>6, <2>7, RankedEnumerates
    <2> QED
      BY <2>5, <2>8
  <1> QED
    BY <1>2, <1>3

\* Its indices leave a map no more entries than that.
LEMMA ViewCounted ==
    ASSUME NEW m, Sane(m)
    PROVE  /\ Cardinality(View(m)) \in Nat
           /\ Cardinality(View(m)) <= m.table.lastIndexUsed + 1
  <1>1. PICK E, l : E = View(m) /\ l = m.table.lastIndexUsed
    OBVIOUS
  <1>2. /\ l \in Nat /\ IsFiniteSet(E) /\ Distinct(E)
        /\ \A e \in E : e.index \in 0 .. l
    <2>1. /\ Named(E) /\ Distinct(E) /\ IsFiniteSet(E) /\ l \in Nat
          /\ \A e \in E : e.index <= l
      BY <1>1, ViewTyped
    <2> QED
      BY <2>1 DEF Named
  <1>3. [e \in E |-> e.index] \in Injection(E, 0 .. l)
    BY <1>2 DEF Injection, IsInjective, Distinct
  <1>4. IsFiniteSet(0 .. l) /\ Cardinality(0 .. l) = l + 1
    BY <1>2, FS_Interval
  <1>5. Cardinality(E) <= Cardinality(0 .. l)
    BY ONLY <1>3, <1>4, FS_Injection
  <1>6. Cardinality(E) \in Nat
    BY <1>2, FS_CardinalityType
  <1> QED
    BY <1>1, <1>4, <1>5, <1>6

LEMMA ListedOnce ==
    ASSUME NEW E, Named(E), Distinct(E), NEW t, Enumerates(t, E)
    PROVE  \A i, j \in 1 .. Cardinality(E) : t[i].key = t[j].key => i = j
  <1>1. PICK n : n = Cardinality(E)
    OBVIOUS
  <1>2. /\ n \in Nat /\ t \in [1 .. n -> E]
        /\ \A i, j \in 1 .. n : i < j => t[i].index < t[j].index
    BY <1>1 DEF Enumerates
  <1>3. ASSUME NEW i \in 1 .. n, NEW j \in 1 .. n, t[i].key = t[j].key PROVE i = j
    <2>1. t[i] \in E /\ t[j] \in E
      BY <1>2
    <2>2. t[i].index = t[j].index /\ t[i].index \in Nat
      BY <1>3, <2>1 DEF Distinct, Named
    <2>3. ~(i < j) /\ ~(j < i)
      BY <1>2, <2>2
    <2> QED
      BY <1>2, <2>3
  <1> QED
    BY <1>1, <1>3

\* The names of plain properties.
PlainNames(c) == {k \in DOMAIN c : c[k].attributes \cap {"ReadOnly", "Function"} = {}}

LEMMA PlainUnder ==
    ASSUME NEW E, NEW s, NEW c, Named(E), Shows(s, c, E)
    PROVE  Under(E, PlainNames(c)) = Plain(E)
  <1>1. /\ DOMAIN c = {f.key : f \in E}
        /\ \A f \in E : c[f.key] = [value |-> f.value, attributes |-> f.attributes]
    BY ShowsNames DEF Shows, Holds
  <1>2. ASSUME NEW f \in E PROVE f.key \in DOMAIN c /\ c[f.key].attributes = f.attributes
    <2>1. f.key \in {g.key : g \in E}
      OBVIOUS
    <2>2. c[f.key] = [value |-> f.value, attributes |-> f.attributes]
      BY <1>1
    <2>3. f.key \in DOMAIN c
      BY <1>1, <2>1
    <2> QED
      BY <2>2, <2>3
  <1> QED
    BY <1>2 DEF Under, Plain, PlainNames

\* Entries alike show the same.
LEMMA AlikeShow ==
    ASSUME NEW E, NEW s, NEW c, Shows(s, c, E), NEW t, Enumerates(t, E),
           \A e \in E : e.index \in Nat,
           NEW F, Cardinality(F) = Cardinality(E), NEW u, Enumerates(u, F),
           \A j \in 1 .. Cardinality(E) : Alike(u[j], t[j])
    PROVE  Shows(s, c, F)
  <1>1. PICK n : n = Cardinality(E)
    OBVIOUS
  <1>2. s = KeysOf(t)
    <2>1. PICK x : Enumerates(x, E) /\ s = KeysOf(x)
      BY DEF Shows, NameList
    <2>2. x = t
      BY ONLY <2>1, Enumerates(t, E), \A e \in E : e.index \in Nat, EnumeratesOnce
    <2> QED
      BY <2>1, <2>2
  <1>3. /\ DOMAIN t = 1 .. n /\ DOMAIN u = 1 .. n
        /\ \A j \in 1 .. n : t[j] \in E /\ u[j] \in F /\ Alike(u[j], t[j])
        /\ \A e \in E : \E j \in 1 .. n : t[j] = e
        /\ \A e \in F : \E j \in 1 .. n : u[j] = e
    BY <1>1 DEF Enumerates
  <1>4. KeysOf(u) = KeysOf(t)
    BY <1>3 DEF KeysOf, Alike
  <1>5. NameList(s, F)
    BY <1>2, <1>4 DEF NameList
  <1>6. {e.key : e \in E} = {e.key : e \in F}
    BY <1>3 DEF Alike
  <1>7. ASSUME NEW e \in F PROVE c[e.key] = [value |-> e.value, attributes |-> e.attributes]
    <2>1. PICK j \in 1 .. n : u[j] = e
      BY <1>3
    <2>2. t[j] \in E /\ e.key = t[j].key /\ e.value = t[j].value /\ e.attributes = t[j].attributes
      BY <1>3, <2>1 DEF Alike
    <2>3. c[t[j].key] = [value |-> t[j].value, attributes |-> t[j].attributes]
      BY <2>2 DEF Shows, Holds
    <2> QED
      BY <2>2, <2>3
  <1>8. Holds(c, F)
    <2>1. c = [k \in {e.key : e \in E} |-> c[k]]
      BY DEF Shows, Holds
    <2> QED
      BY <1>6, <1>7, <2>1 DEF Holds
  <1> QED
    BY <1>5, <1>8 DEF Shows

LEMMA ReloadMap ==
    ASSUME NEW m, Sane(m),
           NEW M, M = restore([single |-> NullEntry, table |-> NoTable], save(m)),
           NEW c, c = ContentsOf(m), NEW K, K = PlainNames(c)
    PROVE  /\ Sane(M) /\ M.table.size <= m.table.size
           /\ M.table.lastIndexUsed <= m.table.lastIndexUsed
           /\ Shows(Dictionary!Kept(OrderOf(m), K), [k \in DOMAIN c \cap K |-> c[k]], View(M))
  <1>1. PICK E, W, t, N, o, l, size :
            /\ E = View(m) /\ W = Plain(E) /\ t = save(m) /\ N = Cardinality(W)
            /\ o = OrderOf(m) /\ l = m.table.lastIndexUsed /\ size = m.table.size
    OBVIOUS
  <1>2. /\ Named(E) /\ Distinct(E) /\ IsFiniteSet(E) /\ l \in Nat
        /\ \A e \in E : e \in EntryType
    BY <1>1, ViewTyped
  <1>3. W \subseteq E /\ Named(W) /\ Distinct(W) /\ \A e \in W : e \in EntryType /\ e.key \in Keys
    BY <1>1, <1>2 DEF Plain, Named, Distinct
  <1>4. Enumerates(t, W)
    BY <1>1, SaveEnumerates
  <1>5. N \in Nat /\ t \in Seq(W) /\ Len(t) = N
    BY <1>1, <1>4, EnumeratesSeq DEF Enumerates
  <1>6. t \in Seq({e \in EntryType : e.key \in Keys})
    <2>1. W \subseteq {e \in EntryType : e.key \in Keys}
      BY <1>3
    <2> QED
      BY <1>5, <2>1
  <1>7. \A i, j \in 1 .. Len(t) : t[i].key = t[j].key => i = j
    BY <1>1, <1>3, <1>4, <1>5, ListedOnce
  <1>8. Cardinality(E) \in Nat /\ N <= Cardinality(E) /\ Cardinality(E) <= l + 1
    <2>1. Cardinality(W) <= Cardinality(E)
      BY ONLY <1>2, <1>3, FS_Subset
    <2> QED
      BY <1>1, <2>1, ViewCounted
  <1>9. size \in Nat
    BY <1>1, CountIs
  <1>10. N > 1 => size \in PowersOf2 /\ size >= InitialSize /\ 2 * N <= size
    <2> SUFFICES ASSUME N > 1 PROVE size \in PowersOf2 /\ size >= InitialSize /\ 2 * N <= size
      OBVIOUS
    <2>1. size # 0
      <3>1. size = 0 => Cardinality(E) <= 1
        BY <1>1, CountIs
      <3> QED
        BY <1>5, <1>8, <3>1
    <2>2. m.table.keyCount = Cardinality(E)
      BY <1>1, <2>1, CountIs
    <2>3. Good(m.table) /\ size >= InitialSize
      BY <1>1, <2>1, SaneCases
    <2>4. 2 * m.table.keyCount <= size /\ size \in PowersOf2
      BY <1>1, <2>3 DEF Good, Sound, Typed, Shape
    <2> QED
      BY <1>5, <1>8, <1>9, <2>2, <2>3, <2>4
  <1>11. Len(t) > 1 => size \in PowersOf2 /\ size >= InitialSize /\ 2 * Len(t) <= size
    BY <1>5, <1>10
  <1>12. M = restore([single |-> NullEntry, table |-> NoTable], t)
    BY <1>1
  <1>13. Sane(M) /\ Loaded(Len(t), t, M) /\ Fits(Len(t), size, M)
    BY ONLY <1>6, <1>7, <1>9, <1>11, <1>12, LoadedAll
  <1>14. M.table.size <= size
    BY <1>13 DEF Fits
  <1>15. M.table.lastIndexUsed <= l
    <2>1. PICK x : x = M.table.lastIndexUsed
      OBVIOUS
    <2>2. CASE N > 1
      <3>1. x <= N - 1
        BY <1>5, <1>13, <2>1, <2>2 DEF Fits
      <3>2. x \in Nat
        BY <1>13, <2>1, ViewTyped
      <3> QED
        BY <1>2, <1>5, <1>8, <2>1, <3>1, <3>2
    <2>3. CASE ~(N > 1)
      <3>1. Len(t) <= 1
        BY <1>5, <2>3
      <3>2. M.table = NoTable
        BY <1>13, <3>1 DEF Fits
      <3>3. NoTable.lastIndexUsed = 0
        BY DEF NoTable
      <3> QED
        BY <1>2, <3>2, <3>3
    <2> QED
      BY <2>2, <2>3
  <1>16. Shows(o, c, E)
    BY <1>1, ShowsMap
  <1>17. PICK s2, c2 : s2 = Dictionary!Kept(o, K) /\ c2 = [k \in DOMAIN c \cap K |-> c[k]]
    OBVIOUS
  <1>18. Shows(s2, c2, W)
    <2>1. Shows(s2, c2, Under(E, K))
      BY <1>2, <1>16, <1>17, ShowsUnder
    <2>2. Under(E, K) = W
      BY <1>1, <1>2, <1>16, PlainUnder
    <2> QED
      BY <2>1, <2>2
  <1>19. PICK u : Enumerates(u, View(M)) /\ \A j \in 1 .. N : Alike(u[j], t[j])
    BY <1>5, <1>13 DEF Loaded
  <1>20. Cardinality(View(M)) = N
    BY <1>5, <1>13 DEF Loaded
  <1>21. \A e \in W : e.index \in Nat
    BY <1>3 DEF Named
  <1>22. PICK F : F = View(M)
    OBVIOUS
  <1>23. Cardinality(F) = Cardinality(W) /\ Enumerates(u, F) /\ \A j \in 1 .. Cardinality(W) : Alike(u[j], t[j])
    BY <1>1, <1>19, <1>20, <1>22
  <1>24. Shows(s2, c2, F)
    BY ONLY <1>4, <1>18, <1>21, <1>23, AlikeShow
  <1> QED
    BY <1>1, <1>13, <1>14, <1>15, <1>17, <1>22, <1>24

LEMMA ClearMap ==
    ASSUME NEW m, Sane(m), m.table.sentinelCount = 0,
           NEW M, M = [single |-> NullEntry, table |-> Cleared(m.table)]
    PROVE  /\ Sane(M) /\ View(M) = {} /\ M.table.size = m.table.size
           /\ M.table.lastIndexUsed = m.table.lastIndexUsed
  <1>1. PICK T, G : T = m.table /\ G = Cleared(T)
    OBVIOUS
  <1>2. CASE T.size = 0
    <2>1. T = NoTable
      BY <1>1, <1>2, SaneCases
    <2>2. G = NoTable
      <3>1. G = [NoTable EXCEPT
                    !.entries = [i \in DOMAIN @ |->
                        IF isValid(@[i].key) THEN [@[i] EXCEPT !.key = NoKey, !.value = NoKey]
                        ELSE @[i]],
                    !.keyCount = 0, !.sentinelCount = 0]
        BY <1>1, <2>1 DEF Cleared
      <3>2. [i \in DOMAIN <<>> |->
                IF isValid(<<>>[i].key) THEN [<<>>[i] EXCEPT !.key = NoKey, !.value = NoKey]
                ELSE <<>>[i]] = <<>>
        <4>1. DOMAIN <<>> = {}
          OBVIOUS
        <4> QED
          BY <4>1
      <3> QED
        BY <3>1, <3>2 DEF NoTable
    <2>3. M = [single |-> NullEntry, table |-> NoTable]
      BY <1>1, <2>2
    <2>4. IsSingle(NullEntry) /\ NullEntry.key \notin Keys
      BY KeysAssumption DEF IsSingle, NullEntry, Entry
    <2>5. Sane(M) /\ M.table = NoTable /\ View(M) = {}
      BY <2>3, <2>4, SingleSane
    <2> QED
      BY <1>1, <2>1, <2>5
  <1>3. CASE T.size # 0
    <2>1. Good(T) /\ T.size >= InitialSize
      BY <1>1, <1>3, SaneCases
    <2>2. T.sentinelCount = 0
      BY <1>1
    <2>3. /\ Good(G) /\ Entries(G) = {} /\ G.size = T.size
          /\ G.lastIndexUsed = T.lastIndexUsed
      BY ONLY <1>1, <2>1, <2>2, ClearedIs
    <2>4. M = [single |-> NullEntry, table |-> G]
      BY <1>1
    <2>5. Sane(M) /\ View(M) = Entries(G) /\ M.table = G
      BY <2>1, <2>3, <2>4, TableSane
    <2> QED
      BY <1>1, <2>3, <2>5
  <1> QED
    BY <1>2, <1>3

------------------------------------------------------------------------------
(* The invariant.                                                          *)

IInv == Sane(Map) /\ table.size <= MaxSize /\ table.lastIndexUsed <= MaxIndex

LEMMA BecomeIs ==
    ASSUME NEW M, Sane(M), Become(M)
    PROVE  Map' = M
  <1>1. M = [single |-> M.single, table |-> M.table]
    BY DEF Sane
  <1> QED
    BY <1>1 DEF Become, Map

LEMMA InitIs == Init => IInv /\ View(Map) = {}
  <1> SUFFICES ASSUME Init PROVE IInv /\ View(Map) = {}
    OBVIOUS
  <1>1. PICK e : e = NullEntry
    OBVIOUS
  <1>2. Map = [single |-> e, table |-> NoTable]
    BY <1>1 DEF Init, Map
  <1>3. IsSingle(e) /\ e.key \notin Keys
    BY <1>1, KeysAssumption DEF IsSingle, NullEntry, Entry
  <1>4. PICK m : m = Map
    OBVIOUS
  <1>5. Sane(m) /\ View(m) = {}
    BY <1>2, <1>3, <1>4, SingleSane
  <1>6. table.size = 0 /\ table.lastIndexUsed = 0
    BY DEF Init, NoTable
  <1> QED
    BY <1>4, <1>5, <1>6, SizeAssumption DEF IInv

LEMMA PutStep ==
    ASSUME IInv, NEW k \in Keys, NEW v \in Values, NEW a \in Attributes[k],
           NEW ro \in BOOLEAN, PutProperty(k, v, a, ro)
    PROVE  IInv' /\ Puts(View(Map), View(Map'), k, v, a)
  <1>1. PICK m, M : /\ m = Map /\ M = put(m, k, v, a, ro) /\ table.lastIndexUsed < MaxIndex
                    /\ M.table.size <= MaxSize /\ Become(M)
    BY DEF PutProperty
  <1>2. Sane(m) /\ m.table = table
    BY <1>1 DEF IInv, Map
  <1>3. a \in AttributeSets
    BY DEF AttributeSets
  <1>4. /\ Sane(M) /\ Puts(View(m), View(M), k, v, a)
        /\ M.table.lastIndexUsed <= m.table.lastIndexUsed + 1
    BY ONLY k \in Keys, v \in Values, <1>1, <1>2, <1>3, PutMap
  <1>5. Map' = M /\ table' = M.table
    BY <1>1, <1>4, BecomeIs DEF Become
  <1>6. m.table.lastIndexUsed \in Nat /\ M.table.lastIndexUsed \in Nat
    BY <1>2, <1>4, ViewTyped
  <1>7. M.table.lastIndexUsed <= MaxIndex
    BY <1>1, <1>2, <1>4, <1>6, SizeAssumption
  <1> QED
    BY <1>1, <1>4, <1>5, <1>7 DEF IInv

LEMMA RemoveStep ==
    ASSUME IInv, NEW k \in Keys, RemoveProperty(k)
    PROVE  IInv' /\ View(Map') = Without(View(Map), k)
  <1>1. PICK m, M : m = Map /\ M = remove(m, k) /\ Become(M)
    BY DEF RemoveProperty
  <1>2. Sane(m) /\ m.table = table
    BY <1>1 DEF IInv, Map
  <1>3. /\ Sane(M) /\ View(M) = Without(View(m), k) /\ M.table.size = m.table.size
        /\ M.table.lastIndexUsed <= m.table.lastIndexUsed
    BY <1>1, <1>2, RemoveMap
  <1>4. Map' = M /\ table' = M.table
    BY <1>1, <1>3, BecomeIs DEF Become
  <1>5. m.table.lastIndexUsed \in Nat /\ M.table.lastIndexUsed \in Nat
    BY <1>2, <1>3, ViewTyped
  <1>6. M.table.lastIndexUsed <= MaxIndex
    BY <1>2, <1>3, <1>5, SizeAssumption DEF IInv
  <1> QED
    BY <1>1, <1>2, <1>3, <1>4, <1>6 DEF IInv

LEMMA ReloadStep ==
    ASSUME IInv, Reload, NEW c, c = ContentsOf(Map), NEW K, K = PlainNames(c)
    PROVE  /\ IInv'
           /\ Shows(Dictionary!Kept(OrderOf(Map), K), [k \in DOMAIN c \cap K |-> c[k]], View(Map'))
  <1>1. PICK m, M : /\ m = Map /\ Become(M)
                    /\ M = restore([single |-> NullEntry, table |-> NoTable], save(m))
    BY DEF Reload
  <1>2. Sane(m) /\ m.table = table /\ c = ContentsOf(m)
    BY <1>1 DEF IInv, Map
  <1>3. /\ Sane(M) /\ M.table.size <= m.table.size
        /\ M.table.lastIndexUsed <= m.table.lastIndexUsed
        /\ Shows(Dictionary!Kept(OrderOf(m), K), [k \in DOMAIN c \cap K |-> c[k]], View(M))
    BY ONLY <1>1, <1>2, K = PlainNames(c), ReloadMap
  <1>4. Map' = M /\ table' = M.table
    BY <1>1, <1>3, BecomeIs DEF Become
  <1>5. /\ m.table.lastIndexUsed \in Nat /\ M.table.lastIndexUsed \in Nat
        /\ m.table.size \in Nat /\ M.table.size \in Nat
    BY <1>2, <1>3, ViewTyped, CountIs
  <1>6. M.table.lastIndexUsed <= MaxIndex /\ M.table.size <= MaxSize
    BY <1>2, <1>3, <1>5, SizeAssumption DEF IInv
  <1> QED
    BY <1>1, <1>3, <1>4, <1>6 DEF IInv

LEMMA ClearStep ==
    ASSUME IInv, ~ ClearAnyTime, Clear
    PROVE  IInv' /\ View(Map') = {}
  <1>1. PICK m, M : m = Map /\ M = [single |-> NullEntry, table |-> Cleared(m.table)]
    OBVIOUS
  <1>2. Sane(m) /\ m.table = table /\ table.sentinelCount = 0
    BY <1>1 DEF IInv, Map, Clear
  <1>3. /\ Sane(M) /\ View(M) = {} /\ M.table.size = m.table.size
        /\ M.table.lastIndexUsed = m.table.lastIndexUsed
    BY <1>1, <1>2, ClearMap
  <1>4. single' = NullEntry /\ table' = Cleared(table)
    BY DEF Clear, Cleared
  <1>5. Map' = M /\ table' = M.table
    BY <1>1, <1>2, <1>4 DEF Map
  <1> QED
    BY <1>1, <1>2, <1>3, <1>5 DEF IInv

LEMMA Inductive ==
    ASSUME ~ ClearAnyTime, IInv, [Next]_vars
    PROVE  IInv'
  <1>1. CASE \E k \in Keys, v \in Values, ro \in BOOLEAN :
                \E a \in Attributes[k] : PutProperty(k, v, a, ro)
    BY <1>1, PutStep
  <1>2. CASE \E k \in Keys : RemoveProperty(k)
    BY <1>2, RemoveStep
  <1>3. CASE Reload
    BY <1>3, ReloadStep
  <1>4. CASE Clear
    BY <1>4, ClearStep
  <1>5. CASE UNCHANGED vars
    BY <1>5 DEF vars, IInv, Map
  <1> QED
    BY <1>1, <1>2, <1>3, <1>4, <1>5 DEF Next

\* The map is one entry in place or a good table.
THEOREM Invariance ==
    ASSUME ~ ClearAnyTime
    PROVE  Spec => []IInv
  <1>1. Init => IInv
    BY InitIs
  <1>2. IInv /\ [Next]_vars => IInv'
    BY Inductive
  <1> QED
    BY <1>1, <1>2, PTL DEF Spec

LEMMA TypedState == IInv => TypeOK
  <1> SUFFICES ASSUME IInv PROVE TypeOK
    OBVIOUS
  <1>1. PICK m, s, T : m = Map /\ s = single /\ T = table
    OBVIOUS
  <1>2. Sane(m) /\ m.single = s /\ m.table = T /\ T.size <= MaxSize /\ T.lastIndexUsed <= MaxIndex
    BY <1>1 DEF IInv, Map
  <1>3. MaxSize \in Nat /\ MaxIndex \in Nat
    BY SizeAssumption
  <1>4. ASSUME NEW e \in EntryType, e.index <= MaxIndex PROVE e \in EntrySet
    BY <1>3, <1>4 DEF EntryType, EntrySet
  <1>5. NullEntry \in EntryType /\ NullEntry.index = 0 /\ NullEntry.key = NoKey
    BY KeysAssumption DEF NullEntry, Entry, EntryType, AttributeSets
  <1>6. s \in EntrySet /\ s.key # Deleted
    <2>1. s = NullEntry \/ (s \in EntryType /\ s.key \in Keys /\ s.index = 0)
      BY <1>2, SaneCases DEF IsSingle
    <2>2. s \in EntryType /\ s.index <= MaxIndex /\ s.key # Deleted
      BY <1>3, <1>5, <2>1, KeysAssumption
    <2> QED
      BY <1>4, <2>2
  <1>7. CASE T.size = 0
    <2>1. T = NoTable
      BY <1>2, <1>7, SaneCases
    <2>2. /\ T.size \in 0 .. MaxSize /\ T.entries \in [0 .. T.size - 1 -> EntrySet]
          /\ T.keyCount \in 0 .. T.size /\ T.sentinelCount \in 0 .. T.size
          /\ T.lastIndexUsed \in 0 .. MaxIndex
      BY <1>3, <2>1 DEF NoTable
    <2> QED
      BY <1>1, <1>6, <2>2 DEF TypeOK
  <1>8. CASE T.size # 0
    <2>1. Good(T)
      BY <1>2, <1>8, SaneCases
    <2>2. /\ Shape(T) /\ Header(T) /\ Capped(T) /\ T.size \in Nat /\ T.keyCount \in Nat
          /\ T.sentinelCount \in Nat /\ 4 * (T.keyCount + T.sentinelCount) < 3 * T.size
          /\ T.lastIndexUsed \in Nat
      BY <2>1, GoodRoomy DEF Good, Sound, Typed, Header
    <2>3. T.entries \in [0 .. T.size - 1 -> EntrySet]
      <3>1. ASSUME NEW j \in 0 .. T.size - 1 PROVE T.entries[j] \in EntrySet
        <4>1. T.entries[j] \in EntryType /\ T.entries[j].index <= T.lastIndexUsed
          BY <2>2 DEF Shape, Capped, SlotsOf
        <4>2. T.entries[j].index \in Nat
          BY <4>1 DEF EntryType
        <4>3. T.entries[j].index <= MaxIndex
          BY <1>2, <1>3, <2>2, <4>1, <4>2
        <4> QED
          BY <1>4, <4>1, <4>3
      <3> QED
        BY <2>2, <3>1 DEF Shape
    <2>4. /\ T.size \in 0 .. MaxSize /\ T.lastIndexUsed \in 0 .. MaxIndex
          /\ T.keyCount \in 0 .. T.size /\ T.sentinelCount \in 0 .. T.size
      BY <1>2, <1>3, <2>2
    <2> QED
      BY <1>1, <1>6, <2>3, <2>4 DEF TypeOK
  <1> QED
    BY <1>7, <1>8

LEMMA ConsistentState == IInv => Consistent
  <1> SUFFICES ASSUME IInv, table.size # 0 PROVE
        /\ \A i \in Valid : /\ Ends(table, table.entries[i].key)
                            /\ Find(table, table.entries[i].key) = i
        /\ table.keyCount = Cardinality(Valid)
        /\ table.sentinelCount =
            Cardinality({i \in Slots : table.entries[i].key = Deleted})
        /\ table.size >= InitialSize
    BY DEF Consistent
  <1>1. PICK m, T : m = Map /\ T = table
    OBVIOUS
  <1>2. Sane(m) /\ m.table = T
    BY <1>1 DEF IInv, Map
  <1>3. Good(T) /\ T.size >= InitialSize
    BY <1>1, <1>2, SaneCases
  <1>4. Shape(T) /\ Located(T)
    BY <1>3 DEF Good, Sound, Typed
  <1>5. Valid = Held(T) /\ {i \in Slots : table.entries[i].key = Deleted} = Marks(T)
    BY <1>1 DEF Valid, Slots, Held, Marks, SlotsOf, isValid
  <1>6. ASSUME NEW i \in Held(T) PROVE Ends(T, T.entries[i].key) /\ Find(T, T.entries[i].key) = i
    <2>1. PICK k : k = T.entries[i].key
      OBVIOUS
    <2>2. PICK n : Reaches(T, k, n, i)
      BY <1>4, <2>1 DEF Located, Held
    <2> QED
      BY <1>4, <2>1, <2>2, ReachesFinds
  <1>7. T.keyCount = Cardinality(Held(T)) /\ T.sentinelCount = Cardinality(Marks(T))
    BY <1>3 DEF Good
  <1> QED
    BY <1>1, <1>3, <1>5, <1>6, <1>7

\* What counting to the number of S finds.
LEMMA Counting ==
    ASSUME NEW n \in Nat, NEW S, S \subseteq 0 .. n - 1, NEW i \in S
    PROVE  Cardinality({j \in 0 .. i - 1 : j \in S}) < Cardinality(S)
  <1>1. IsFiniteSet(S)
    <2>1. IsFiniteSet(0 .. n - 1)
      BY FS_Interval
    <2> QED
      BY ONLY <2>1, S \subseteq 0 .. n - 1, FS_Subset
  <1>2. PICK R : R = {j \in 0 .. i - 1 : j \in S}
    OBVIOUS
  <1>3. R \subseteq S /\ i \notin R
    BY <1>2
  <1>4. R # S
    BY <1>3
  <1>5. Cardinality(R) <= Cardinality(S) /\ Cardinality(R) # Cardinality(S) /\ IsFiniteSet(R)
    BY ONLY <1>1, <1>3, <1>4, FS_Subset
  <1>6. Cardinality(R) \in Nat /\ Cardinality(S) \in Nat
    BY <1>1, <1>5, FS_CardinalityType
  <1> QED
    BY <1>2, <1>5, <1>6

LEMMA WalksEndState == IInv => WalksEnd
  <1> SUFFICES ASSUME IInv PROVE WalksEnd
    OBVIOUS
  <1>1. PICK m, T : m = Map /\ T = table
    OBVIOUS
  <1>2. Sane(m) /\ m.table = T
    BY <1>1 DEF IInv, Map
  <1>3. PICK F, V, W : /\ F = {i \in 0 .. T.size - 1 : T.entries[i].key # NoKey}
                       /\ V = {i \in 0 .. T.size - 1 : T.entries[i].key \in Keys}
                       /\ W = {i \in 0 .. T.size - 1 : T.entries[i].value # NoKey}
    OBVIOUS
  <1>4. WalksEnd <=>
            /\ T.size # 0 => 4 * Cardinality(F) < 3 * T.size /\ \A k \in Keys : Ends(T, k)
            /\ V \subseteq MarkedSlots(T) \cap ReleasedSlots(T)
            /\ T.keyCount <= Cardinality(W)
            /\ T.keyCount + T.sentinelCount <= Cardinality(F)
    BY <1>1, <1>3 DEF WalksEnd, Valid, Slots, isValid
  <1>5. CASE T.size = 0
    <2>1. T = NoTable /\ T.size \in Nat
      BY <1>2, <1>5, SaneCases
    <2>2. F = {} /\ V = {} /\ W = {}
      BY <1>3, <1>5
    <2>3. Cardinality({}) = 0
      BY FS_EmptySet
    <2>4. T.keyCount = 0 /\ T.sentinelCount = 0
      BY <2>1 DEF NoTable
    <2> QED
      BY <1>4, <1>5, <2>2, <2>3, <2>4
  <1>6. CASE T.size # 0
    <2>1. Good(T)
      BY <1>2, <1>6, SaneCases
    <2>2. /\ Shape(T) /\ Located(T) /\ Roomy(T) /\ T.size \in Nat
          /\ T.keyCount \in Nat /\ T.sentinelCount \in Nat
          /\ 4 * (T.keyCount + T.sentinelCount) < 3 * T.size
      BY <2>1, GoodRoomy
    <2>3. T.keyCount = Cardinality(Held(T)) /\ T.sentinelCount = Cardinality(Marks(T))
      BY <2>1 DEF Good
    <2>4. \A i \in 0 .. T.size - 1 : T.entries[i] \in EntryType
      BY <2>2 DEF Shape
    <2>5. V = Held(T) /\ W = Held(T)
      BY <1>3, <2>4 DEF Held, SlotsOf, EntryType
    <2>6. F = Held(T) \cup Marks(T)
      BY <1>3, <2>4, KeysAssumption DEF Held, Marks, SlotsOf, EntryType
    <2>7. Cardinality(F) = T.keyCount + T.sentinelCount
      <3>1. PICK H, R : H = Held(T) /\ R = Marks(T)
        OBVIOUS
      <3>2. IsFiniteSet(H) /\ IsFiniteSet(R)
        BY <2>2, <3>1, SlotsFinite
      <3>3. H \cap R = {}
        BY <3>1, KeysAssumption DEF Held, Marks
      <3>4. Cardinality(H \cup R) = Cardinality(H) + Cardinality(R) - Cardinality(H \cap R)
        BY ONLY <3>2, FS_Union
      <3>5. Cardinality({}) = 0
        BY FS_EmptySet
      <3>6. Cardinality(H \cup R) = Cardinality(H) + Cardinality(R) - 0
        BY ONLY <3>3, <3>4, <3>5
      <3>7. Cardinality(H) = T.keyCount /\ Cardinality(R) = T.sentinelCount /\ F = H \cup R
        BY <2>3, <2>6, <3>1
      <3> QED
        BY <2>2, <3>6, <3>7
    <2>8. \A k \in Keys : Ends(T, k)
      BY <2>2, Found
    <2>9. ASSUME NEW i \in V PROVE i \in MarkedSlots(T) \cap ReleasedSlots(T)
      <3>1. PICK n : n = T.size
        OBVIOUS
      <3>2. n \in Nat /\ W \subseteq 0 .. n - 1 /\ F \subseteq 0 .. n - 1 /\ i \in 0 .. n - 1
        BY <1>3, <2>2, <3>1
      <3>3. i \in W /\ i \in F
        BY <2>5, <2>6
      <3>4. Cardinality({j \in 0 .. i - 1 : j \in W}) < Cardinality(W)
        BY ONLY <3>2, <3>3, Counting
      <3>5. Cardinality({j \in 0 .. i - 1 : j \in F}) < Cardinality(F)
        BY ONLY <3>2, <3>3, Counting
      <3>6. \A j \in 0 .. i - 1 : j \in 0 .. n - 1
        BY <3>2
      <3>7. /\ {j \in 0 .. i - 1 : j \in W} = {j \in 0 .. i - 1 : T.entries[j].value # NoKey}
            /\ {j \in 0 .. i - 1 : j \in F} = {j \in 0 .. i - 1 : T.entries[j].key # NoKey}
        BY <1>3, <3>1, <3>6
      <3> QED
        BY <2>3, <2>5, <2>7, <3>1, <3>2, <3>4, <3>5, <3>7 DEF MarkedSlots, ReleasedSlots
    <2>10. T.keyCount <= Cardinality(W) /\ T.keyCount + T.sentinelCount <= Cardinality(F)
      BY <2>2, <2>3, <2>5, <2>7
    <2> QED
      BY <1>4, <2>2, <2>7, <2>8, <2>9, <2>10
  <1> QED
    BY <1>5, <1>6

\* The entries whose names an enumeration shows.
Seen(E) == {e \in E : "DontEnum" \notin e.attributes}

LEMMA EnumerationState == IInv => EnumerationExact
  <1> SUFFICES ASSUME IInv PROVE EnumerationExact
    OBVIOUS
  <1>1. PICK m, E, K, o : /\ m = Map /\ E = View(m) /\ o = OrderOf(m)
                          /\ K = {k \in Keys : "DontEnum" \notin get(m, k).attributes}
    OBVIOUS
  <1>2. Sane(m)
    BY <1>1 DEF IInv
  <1>3. Named(E) /\ Distinct(E)
    BY <1>1, <1>2, ViewTyped
  <1> DEFINE Shown(e) == e.key # NoKey /\ "DontEnum" \notin e.attributes
  <1>4. PICK t : t = IF m.table.size = 0 THEN IF Shown(m.single) THEN <<m.single>> ELSE <<>>
                     ELSE Ranked(m.table.entries,
                                 {i \in DOMAIN m.table.entries : Shown(m.table.entries[i])})
    OBVIOUS
  <1>5. getEnumerablePropertyNames(m) = KeysOf(t)
    BY <1>4 DEF getEnumerablePropertyNames, Sorted
  <1>6. Enumerates(t, Seen(E))
    <2>1. CASE m.table.size = 0
      <3>1. E = {e \in {m.single} : e.key \in Keys} /\ IsSingle(m.single)
        BY <1>1, <1>2, <2>1, SaneCases
      <3>2. m.single.key \in Keys <=> m.single.key # NoKey
        BY <3>1, KeysAssumption DEF IsSingle, NullEntry, Entry
      <3>3. CASE Shown(m.single)
        <4>1. t = <<m.single>> /\ Seen(E) = {m.single}
          BY <1>4, <2>1, <3>1, <3>2, <3>3 DEF Seen
        <4> QED
          BY <4>1, EnumeratesOne
      <3>4. CASE ~ Shown(m.single)
        <4>1. t = <<>> /\ Seen(E) = {}
          BY <1>4, <2>1, <3>1, <3>2, <3>4 DEF Seen
        <4> QED
          BY <4>1, EnumeratesNone
      <3> QED
        BY <3>3, <3>4
    <2>2. CASE m.table.size # 0
      <3>1. PICK T : T = m.table
        OBVIOUS
      <3>2. Good(T) /\ E = Entries(T)
        BY <1>1, <1>2, <2>2, <3>1, SaneCases
      <3>3. Sound(T) /\ DOMAIN T.entries = SlotsOf(T) /\ \A i \in SlotsOf(T) : T.entries[i] \in EntryType
        BY <3>2 DEF Good, Sound, Typed, Shape, SlotsOf
      <3>4. PICK x, S : x = T.entries /\ S = {i \in Held(T) : "DontEnum" \notin T.entries[i].attributes}
        OBVIOUS
      <3>5. \A i \in SlotsOf(T) : Shown(T.entries[i]) <=> i \in S
        BY <3>3, <3>4, KeysAssumption DEF Held, EntryType
      <3>6. {i \in DOMAIN x : Shown(x[i])} = S
        BY <3>3, <3>4, <3>5 DEF Held
      <3>7. t = Ranked(x, S)
        BY <1>4, <2>2, <3>1, <3>4, <3>6
      <3>8. Indexed(x, S)
        BY <3>3, <3>4, HeldIndexed
      <3>9. Seen(E) = {x[i] : i \in S}
        BY <3>2, <3>4 DEF Seen, Entries
      <3>10. Enumerates(Ranked(x, S), Seen(E))
        BY ONLY <3>8, <3>9, RankedEnumerates
      <3> QED
        BY <3>7, <3>10
    <2> QED
      BY <2>1, <2>2
  <1>7. Under(E, K) = Seen(E)
    <2>1. ASSUME NEW e \in E PROVE e.key \in K <=> "DontEnum" \notin e.attributes
      <3>1. e.key \in Keys /\ NameIn(E, e.key)
        BY <1>3 DEF Named, NameIn
      <3>2. get(m, e.key) \in E /\ get(m, e.key).key = e.key
        BY <1>1, <1>2, <3>1, GetIs
      <3>3. get(m, e.key) = e
        BY <1>3, <3>2 DEF Distinct
      <3> QED
        BY <1>1, <3>1, <3>3
    <2> QED
      BY <2>1 DEF Under, Seen
  <1>8. PICK w : Enumerates(w, E) /\ o = KeysOf(w)
    BY <1>1, <1>2, ValidEnumerates DEF OrderOf
  <1>9. \A e \in E : e.index \in Nat
    BY <1>3 DEF Named
  <1>10. PICK u : Enumerates(u, Under(E, K)) /\ Dictionary!Kept(o, K) = KeysOf(u)
    BY <1>8, <1>9, KeptList
  <1>11. u = t
    <2>1. \A e \in Seen(E) : e.index \in Nat
      BY <1>9 DEF Seen
    <2>2. Enumerates(u, Seen(E))
      BY <1>7, <1>10
    <2> QED
      BY ONLY <1>6, <2>1, <2>2, EnumeratesOnce
  <1>12. Order = o
    BY <1>1, OrderIs
  <1> QED
    BY <1>1, <1>5, <1>10, <1>11, <1>12 DEF EnumerationExact

------------------------------------------------------------------------------
(* The refinement.                                                         *)

LEMMA OrderIsNext == Order' = OrderOf(Map') /\ Contents' = ContentsOf(Map')
  BY DEF Order, Sorted, ValidOf, OrderOf, Contents, ContentsOf

LEMMA ShowsNow ==
    ASSUME IInv
    PROVE  Shows(Order, Contents, View(Map)) /\ Named(View(Map)) /\ Distinct(View(Map))
  BY OrderIs, ShowsMap, ViewTyped DEF IInv

LEMMA ShowsNext ==
    ASSUME IInv'
    PROVE  Shows(Order', Contents', View(Map')) /\ Named(View(Map'))
  <1>1. PICK M : M = Map'
    OBVIOUS
  <1>2. Sane(M)
    BY <1>1 DEF IInv
  <1> QED
    BY <1>1, <1>2, OrderIsNext, ShowsMap, ViewTyped

LEMMA PutRefines ==
    ASSUME IInv, NEW k \in Keys, NEW v \in Values, NEW a \in Attributes[k],
           NEW ro \in BOOLEAN, PutProperty(k, v, a, ro)
    PROVE  \/ Order' = Order /\ Contents' = Contents
           \/ Dictionary!Put(k, v) \/ Dictionary!Add(k, v, a)
  <1>1. PICK E, F, o, c, o2, c2 :
            /\ E = View(Map) /\ F = View(Map')
            /\ o = Order /\ c = Contents /\ o2 = Order' /\ c2 = Contents'
    OBVIOUS
  <1>2. IInv' /\ Puts(E, F, k, v, a)
    BY <1>1, PutStep
  <1>3. Shows(o, c, E) /\ Named(E) /\ Distinct(E) /\ Shows(o2, c2, F) /\ Named(F)
    BY <1>1, <1>2, ShowsNow, ShowsNext
  <1>4. DOMAIN c = {e.key : e \in E}
    BY <1>3, ShowsNames
  <1>5. CASE F = E
    <2>1. o2 = o /\ c2 = c
      BY ONLY <1>3, <1>5, ShowsOnce
    <2> QED
      BY <1>1, <2>1
  <1>6. CASE Assigned(E, F, k, v)
    <2>0. PICK d \in E : d.key = k /\ F = (E \ {d}) \cup {[d EXCEPT !.value = v]}
      BY <1>6 DEF Assigned
    <2>1. PICK e : d.key = k /\ e = [d EXCEPT !.value = v] /\ F = (E \ {d}) \cup {e} /\ d \in E
      BY <2>0
    <2>2. d \in EntryType
      BY <1>1, <2>1, ViewTyped DEF IInv
    <2>3. PICK g : g = [c EXCEPT ![d.key].value = v]
      OBVIOUS
    <2>4. Shows(o, g, F)
      BY <1>3, <2>1, <2>2, <2>3, ShowsOther
    <2>5. o2 = o /\ c2 = g
      BY ONLY <1>3, <2>4, ShowsOnce
    <2>6. k \in DOMAIN c
      BY <1>4, <2>1
    <2> QED
      BY <1>1, <2>1, <2>3, <2>5, <2>6 DEF Dictionary!Put, Dictionary!Has
  <1>7. CASE Adds(E, F, k, v, a)
    <2>0. PICK i \in Nat : (\A f \in E : f.index < i) /\ F = E \cup {Entry(k, v, a, i)}
      BY <1>7 DEF Adds
    <2>1. PICK e : /\ \A f \in E : f.index < i
                   /\ i \in Nat /\ e = Entry(k, v, a, i) /\ F = E \cup {e} /\ ~ NameIn(E, k)
      BY <1>7, <2>0 DEF Adds
    <2>2. e.key = k /\ e.index = i /\ e.value = v /\ e.attributes = a
      BY <2>1 DEF Entry
    <2>3. Shows(Append(o, e.key), Extended(c, e), E \cup {e})
      <3>1. e.index \in Nat /\ (\A f \in E : f.index < e.index) /\ ~ NameIn(E, e.key) /\ e.key \in Keys
        BY <2>1, <2>2
      <3> QED
        BY ONLY <1>3, <3>1, ShowsMore
    <2>4. Shows(Append(o, k), Extended(c, e), F)
      BY <2>1, <2>2, <2>3
    <2>5. o2 = Append(o, k) /\ c2 = Extended(c, e)
      BY ONLY <1>3, <2>4, ShowsOnce
    <2>6. k \notin DOMAIN c
      BY <1>4, <2>1 DEF NameIn
    <2>7. Extended(c, e) = [x \in DOMAIN c \cup {k} |->
                                IF x = k THEN [value |-> v, attributes |-> a] ELSE c[x]]
      BY <2>2 DEF Extended
    <2> QED
      BY <1>1, <2>5, <2>6, <2>7 DEF Dictionary!Add, Dictionary!Has
  <1> QED
    BY <1>2, <1>5, <1>6, <1>7 DEF Puts

LEMMA RemoveRefines ==
    ASSUME IInv, NEW k \in Keys, RemoveProperty(k)
    PROVE  (Order' = Order /\ Contents' = Contents) \/ Dictionary!Remove(k)
  <1>1. PICK E, F, o, c, o2, c2 :
            /\ E = View(Map) /\ F = View(Map')
            /\ o = Order /\ c = Contents /\ o2 = Order' /\ c2 = Contents'
    OBVIOUS
  <1>2. IInv' /\ F = Without(E, k)
    BY <1>1, RemoveStep
  <1>3. Shows(o, c, E) /\ Named(E) /\ Shows(o2, c2, F) /\ Named(F)
    BY <1>1, <1>2, ShowsNow, ShowsNext
  <1>4. DOMAIN c = {e.key : e \in E}
    BY <1>3, ShowsNames
  <1>5. CASE ~ NameIn(E, k)
    <2>1. F = E
      BY <1>2, <1>5 DEF Without, NameIn
    <2>2. o2 = o /\ c2 = c
      BY ONLY <1>3, <2>1, ShowsOnce
    <2> QED
      BY <1>1, <2>2
  <1>6. CASE NameIn(E, k)
    <2>1. PICK K, s, g : /\ K = DOMAIN c \ {k} /\ s = Dictionary!Kept(o, K)
                         /\ g = [x \in DOMAIN c \cap K |-> c[x]]
      OBVIOUS
    <2>2. Under(E, K) = F
      BY <1>2, <1>4, <2>1 DEF Under, Without
    <2>3. Shows(s, g, F)
      <3>1. Shows(Dictionary!Kept(o, K), [x \in DOMAIN c \cap K |-> c[x]], Under(E, K))
        BY ONLY <1>3, ShowsUnder
      <3> QED
        BY <2>1, <2>2, <3>1
    <2>4. o2 = s /\ c2 = g
      BY ONLY <1>3, <2>3, ShowsOnce
    <2>5. k \in DOMAIN c
      BY <1>4, <1>6 DEF NameIn
    <2> QED
      BY <1>1, <2>1, <2>4, <2>5 DEF Dictionary!Remove, Dictionary!Retain, Dictionary!Has
  <1> QED
    BY <1>5, <1>6

LEMMA ReloadRefines ==
    ASSUME IInv, Reload
    PROVE  Dictionary!Reload
  <1>1. PICK F, o, c, o2, c2, K, s, g :
            /\ F = View(Map') /\ K = PlainNames(c)
            /\ o = Order /\ c = Contents /\ o2 = Order' /\ c2 = Contents'
            /\ s = Dictionary!Kept(o, K) /\ g = [x \in DOMAIN c \cap K |-> c[x]]
    OBVIOUS
  <1>2. c = ContentsOf(Map) /\ o = OrderOf(Map)
    BY <1>1, OrderIs
  <1>3. IInv' /\ Shows(s, g, F)
    BY <1>1, <1>2, ReloadStep
  <1>4. Shows(o2, c2, F) /\ Named(F)
    BY <1>1, <1>3, ShowsNext
  <1>5. o2 = s /\ c2 = g
    BY ONLY <1>3, <1>4, ShowsOnce
  <1> QED
    BY <1>1, <1>5 DEF Dictionary!Reload, Dictionary!Retain, PlainNames

LEMMA ClearRefines ==
    ASSUME IInv, ~ ClearAnyTime, Clear
    PROVE  Order' = <<>> /\ Contents' = <<>>
  <1>1. PICK F, o2, c2 : F = View(Map') /\ o2 = Order' /\ c2 = Contents'
    OBVIOUS
  <1>2. IInv' /\ F = {}
    BY <1>1, ClearStep
  <1>3. Shows(o2, c2, F) /\ Named(F)
    BY <1>1, <1>2, ShowsNext
  <1>4. Shows(<<>>, <<>>, F)
    BY <1>2, ShowsNone
  <1>5. o2 = <<>> /\ c2 = <<>>
    BY ONLY <1>3, <1>4, ShowsOnce
  <1> QED
    BY <1>1, <1>5

LEMMA InitRefines == Init => Dictionary!Init
  <1> SUFFICES ASSUME Init PROVE Order = <<>> /\ Contents = <<>>
    BY DEF Dictionary!Init
  <1>1. PICK F, o, c : F = View(Map) /\ o = Order /\ c = Contents
    OBVIOUS
  <1>2. IInv /\ F = {}
    BY <1>1, InitIs
  <1>3. Shows(o, c, F) /\ Named(F)
    BY <1>1, <1>2, ShowsNow
  <1>4. Shows(<<>>, <<>>, F)
    BY <1>2, ShowsNone
  <1>5. o = <<>> /\ c = <<>>
    BY ONLY <1>3, <1>4, ShowsOnce
  <1> QED
    BY <1>1, <1>5

LEMMA StepRefines ==
    ASSUME ~ ClearAnyTime, IInv, [Next]_vars
    PROVE  [Dictionary!Next]_Dictionary!mapVars
  <1>1. CASE \E k \in Keys, v \in Values, ro \in BOOLEAN :
                \E a \in Attributes[k] : PutProperty(k, v, a, ro)
    <2>1. PICK k \in Keys, v \in Values, ro \in BOOLEAN :
                \E a \in Attributes[k] : PutProperty(k, v, a, ro)
      BY <1>1
    <2>2. PICK a \in Attributes[k] : PutProperty(k, v, a, ro)
      BY <2>1
    <2>3. \/ Order' = Order /\ Contents' = Contents
          \/ Dictionary!Put(k, v) \/ Dictionary!Add(k, v, a)
      BY <2>2, PutRefines
    <2> QED
      BY <2>3 DEF Dictionary!Next, Dictionary!mapVars
  <1>2. CASE \E k \in Keys : RemoveProperty(k)
    <2>1. PICK k \in Keys : RemoveProperty(k)
      BY <1>2
    <2>2. (Order' = Order /\ Contents' = Contents) \/ Dictionary!Remove(k)
      BY <2>1, RemoveRefines
    <2> QED
      BY <2>2 DEF Dictionary!Next, Dictionary!mapVars
  <1>3. CASE Reload
    BY <1>3, ReloadRefines DEF Dictionary!Next
  <1>4. CASE Clear
    BY <1>4, ClearRefines DEF Dictionary!Next
  <1>5. CASE UNCHANGED vars
    <2>1. Map' = Map
      BY <1>5 DEF vars, Map
    <2>2. Order' = Order /\ Contents' = Contents
      BY <2>1, OrderIs, OrderIsNext
    <2> QED
      BY <2>2 DEF Dictionary!mapVars
  <1> QED
    BY <1>1, <1>2, <1>3, <1>4, <1>5 DEF Next

\* A single entry or a table, its slots and its counts are of their types.
THEOREM TypeCorrect ==
    ASSUME ~ ClearAnyTime
    PROVE  Spec => []TypeOK
  <1>1. IInv => TypeOK
    BY TypedState
  <1> QED
    BY <1>1, Invariance, PTL

\* What PropertyMap::checkConsistency asserts, after any operations: probing
\* for a key ends just where the key is, and keyCount and sentinelCount are
\* the numbers of keys and of sentinels.
THEOREM TableIsConsistent ==
    ASSUME ~ ClearAnyTime
    PROVE  Spec => []Consistent
  <1>1. IInv => Consistent
    BY ConsistentState
  <1> QED
    BY <1>1, Invariance, PTL

\* No loop over the table runs off it: probing ends for present and absent
\* names, and mark() and the destructor, which stop by counting, meet every
\* value and every key.
THEOREM LoopsEnd ==
    ASSUME ~ ClearAnyTime
    PROVE  Spec => []WalksEnd
  <1>1. IInv => WalksEnd
    BY WalksEndState
  <1> QED
    BY <1>1, Invariance, PTL

\* getEnumerablePropertyNames lists the enumerable properties in the order in
\* which they were added, each once, and no removed one.
THEOREM EnumerationIsExact ==
    ASSUME ~ ClearAnyTime
    PROVE  Spec => []EnumerationExact
  <1>1. IInv => EnumerationExact
    BY EnumerationState
  <1> QED
    BY <1>1, Invariance, PTL

\* put, remove, clear, save and restore are the operations of a dictionary that
\* remembers the order of insertion, through growth, sentinels and rehashing.
THEOREM MapIsOrdered ==
    ASSUME ~ ClearAnyTime
    PROVE  Spec => ImplementsOrderedMap
  <1>1. Init => Dictionary!Init
    BY InitRefines
  <1>2. IInv /\ [Next]_vars => [Dictionary!Next]_Dictionary!mapVars
    BY StepRefines
  <1> QED
    BY <1>1, <1>2, Invariance, PTL DEF Spec, ImplementsOrderedMap, Dictionary!Spec
==============================================================================
