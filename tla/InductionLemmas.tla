--------------------------- MODULE InductionLemmas ---------------------------
(***************************************************************************)
(* Induction over numbers for the proof modules, and what it shows of      *)
(* linked lists.  The induction theorems of the library have an operator   *)
(* for a parameter; these have a set, or a function, and follow from the   *)
(* well-foundedness of the numbers.                                        *)
(***************************************************************************)
EXTENDS Integers, FiniteSetTheorems, WellFoundedInduction, TLAPS

\* A set of numbers that is not empty has a least.
LEMMA LeastNumber ==
    ASSUME NEW T, T \subseteq Nat, T # {}
    PROVE  \E n \in T : \A m \in T : n <= m
  <1> DEFINE R == {p \in Nat \X Nat : p[1] < p[2]}
  <1>1. IsWellFoundedOn(R, Nat)
    BY NatLessThanWellFounded DEF OpToRel
  <1>2. PICK n \in T : \A m \in T : <<m, n>> \notin R
    <2> HIDE DEF R
    <2> QED
      BY <1>1, WFMin
  <1>3. ASSUME NEW m \in T PROVE n <= m
    <2>1. m \in Nat /\ n \in Nat
      OBVIOUS
    <2>2. m < n => <<m, n>> \in R
      BY <2>1
    <2> QED
      BY <1>2, <2>1, <2>2
  <1> QED
    BY <1>3

\* A set that holds 0, and n + 1 when it holds n, holds all numbers.
LEMMA SetInduction ==
    ASSUME NEW S, 0 \in S, \A n \in Nat : n \in S => n + 1 \in S
    PROVE  Nat \subseteq S
  <1> SUFFICES ASSUME Nat \ S # {} PROVE FALSE
    OBVIOUS
  <1>1. PICK n \in Nat \ S : \A m \in Nat \ S : n <= m
    BY LeastNumber
  <1>2. n # 0 /\ n - 1 \in Nat /\ n - 1 \in S
    BY <1>1
  <1> QED
    BY <1>2

\* The same up to some number only.
LEMMA IntervalInduction ==
    ASSUME NEW N \in Nat, NEW S, 0 \in S,
           \A n \in 0 .. N - 1 : n \in S => n + 1 \in S
    PROVE  0 .. N \subseteq S
  <1> DEFINE T == {n \in Nat : n <= N => n \in S}
  <1>1. 0 \in T
    OBVIOUS
  <1>2. ASSUME NEW n \in Nat, n \in T PROVE n + 1 \in T
    <2>1. CASE n + 1 <= N
      <3>1. n \in S /\ n \in 0 .. N - 1
        BY <1>2, <2>1
      <3> QED
        BY <3>1
    <2>2. CASE ~(n + 1 <= N)
      BY <2>2
    <2> QED
      BY <2>1, <2>2
  <1>3. Nat \subseteq T
    <2> HIDE DEF T
    <2> QED
      BY <1>1, <1>2, SetInduction
  <1> QED
    BY <1>3

\* The values f in A that are computed from base in n steps.
Run(n, A, base, step, f) ==
    f \in [0 .. n -> A] /\ f[0] = base /\ \A m \in 1 .. n : f[m] = step[m][f[m - 1]]

\* What is computed step by step exists.
LEMMA Recursion ==
    ASSUME NEW N \in Nat, NEW A, NEW base \in A, NEW step \in [1 .. N -> [A -> A]]
    PROVE  \E f : Run(N, A, base, step, f)
  <1> DEFINE Good(n, f) == Run(n, A, base, step, f)
             S == {n \in 0 .. N : \E f : Good(n, f)}
  <1>1. 0 \in S
    <2>1. Good(0, [m \in 0 .. 0 |-> base])
      BY DEF Run
    <2> HIDE DEF Good
    <2> QED
      BY <2>1
  <1>2. ASSUME NEW n \in 0 .. N - 1, n \in S PROVE n + 1 \in S
    <2>1. PICK f : Good(n, f)
      BY <1>2
    <2>2. n + 1 \in 1 .. N /\ n \in 0 .. n /\ 0 \in 0 .. n /\ n + 1 \in 0 .. N
      OBVIOUS
    <2>3. f[n] \in A /\ step[n + 1][f[n]] \in A
      BY <2>1, <2>2 DEF Run
    <2> DEFINE g == [m \in 0 .. n + 1 |-> IF m = n + 1 THEN step[n + 1][f[n]] ELSE f[m]]
    <2>4. \A m \in 0 .. n : g[m] = f[m] /\ f[m] \in A
      BY <2>1 DEF Run
    <2>5. g[n + 1] = step[n + 1][f[n]]
      OBVIOUS
    <2>6. g \in [0 .. n + 1 -> A]
      <3>1. ASSUME NEW m \in 0 .. n + 1 PROVE m = n + 1 \/ m \in 0 .. n
        OBVIOUS
      <3> QED
        BY <2>3, <2>4, <3>1
    <2> HIDE DEF g
    <2>7. ASSUME NEW m \in 1 .. n + 1 PROVE g[m] = step[m][g[m - 1]]
      <3>1. CASE m = n + 1
        <4>1. m - 1 = n
          BY <3>1
        <4> QED
          BY <2>2, <2>4, <2>5, <3>1, <4>1
      <3>2. CASE m # n + 1
        <4>1. m \in 1 .. n /\ m \in 0 .. n /\ m - 1 \in 0 .. n
          BY <3>2
        <4> QED
          BY <2>1, <2>4, <4>1 DEF Run
      <3> QED
        BY <3>1, <3>2
    <2>8. Good(n + 1, g)
      BY <2>1, <2>2, <2>4, <2>6, <2>7 DEF Run
    <2> HIDE DEF Good
    <2> QED
      BY <2>2, <2>8
  <1>3. N \in S
    <2> HIDE DEF S
    <2>1. 0 .. N \subseteq S
      BY <1>1, <1>2, IntervalInduction
    <2> QED
      BY <2>1
  <1> QED
    BY <1>3

------------------------------------------------------------------------------
(* Counting.                                                               *)

\* Two sets that differ in one element only.
Beside(h, S, T) == \A x : x # h => (x \in S <=> x \in T)

LEMMA OneMoves ==
    ASSUME NEW S, NEW T, IsFiniteSet(S), NEW h, Beside(h, S, T)
    PROVE  /\ IsFiniteSet(T) /\ Cardinality(S) \in Nat /\ Cardinality(T) \in Nat
           /\ (h \in S <=> h \in T) => Cardinality(T) = Cardinality(S)
           /\ h \notin S /\ h \in T => Cardinality(T) = Cardinality(S) + 1
           /\ h \in S /\ h \notin T => Cardinality(T) = Cardinality(S) - 1
  <1>1. Cardinality(S) \in Nat
    BY FS_CardinalityType
  <1>2. CASE h \in S <=> h \in T
    <2>1. S = T
      BY <1>2 DEF Beside
    <2> QED
      BY <1>1, <1>2, <2>1
  <1>3. CASE h \notin S /\ h \in T
    <2>1. T = S \cup {h}
      BY <1>3 DEF Beside
    <2>2. IsFiniteSet(T) /\ Cardinality(T) = Cardinality(S) + 1
      BY <1>3, <2>1, FS_AddElement
    <2> QED
      BY <1>1, <1>3, <2>2
  <1>4. CASE h \in S /\ h \notin T
    <2>1. T = S \ {h}
      BY <1>4 DEF Beside
    <2>2. IsFiniteSet(T) /\ Cardinality(T) = Cardinality(S) - 1
      BY <1>4, <2>1, FS_RemoveElement
    <2>3. Cardinality(T) \in Nat
      BY <2>2, FS_CardinalityType
    <2> QED
      BY <1>1, <1>4, <2>2, <2>3
  <1> QED
    BY <1>2, <1>3, <1>4

------------------------------------------------------------------------------
(* Linked lists.                                                           *)

\* s numbers the records in F in the order of the list that starts at first,
\* goes on by after, and ends at end.
OnList(n, s, F, first, after, end) ==
    /\ n \in Nat /\ s \in [1 .. n -> F]
    /\ F = {s[i] : i \in 1 .. n}
    /\ \A i, j \in 1 .. n : s[i] = s[j] => i = j
    /\ first = IF n = 0 THEN end ELSE s[1]
    /\ \A i \in 1 .. n : after[s[i]] = IF i = n THEN end ELSE s[i + 1]

\* A list that is followed only through its own records depends on no others.
LEMMA OnListKeeps ==
    ASSUME NEW n, NEW s, NEW F, NEW first, NEW after, NEW after2, NEW end,
           OnList(n, s, F, first, after, end), \A t \in F : after2[t] = after[t]
    PROVE  OnList(n, s, F, first, after2, end)
  BY DEF OnList

\* A record put in front.
InFront(n, s, t) == [i \in 1 .. n + 1 |-> IF i = 1 THEN t ELSE s[i - 1]]

LEMMA OnListPush ==
    ASSUME NEW n, NEW s, NEW F, NEW first, NEW after, NEW end, NEW t,
           OnList(n, s, F, first, after, end), t \notin F, after[t] = first
    PROVE  OnList(n + 1, InFront(n, s, t), F \cup {t}, t, after, end)
  <1> DEFINE s2 == InFront(n, s, t)
  <1>1. n \in Nat /\ s \in [1 .. n -> F] /\ n + 1 \in Nat
    BY DEF OnList
  <1>2. \A i \in 1 .. n + 1 : i # 1 => i - 1 \in 1 .. n
    BY <1>1
  <1>3. \A i \in 1 .. n : i + 1 \in 1 .. n + 1 /\ i + 1 # 1 /\ i + 1 - 1 = i
    BY <1>1
  <1>4. 1 \in 1 .. n + 1
    BY <1>1
  <1>5. s2 \in [1 .. n + 1 -> F \cup {t}]
    BY <1>1, <1>2 DEF InFront
  <1>6. s2[1] = t /\ \A i \in 1 .. n : s2[i + 1] = s[i]
    BY <1>3, <1>4 DEF InFront
  <1>7. \A i \in 1 .. n + 1 : i = 1 \/ \E j \in 1 .. n : i = j + 1
    BY <1>1
  <1> HIDE DEF s2
  <1>8. F \cup {t} = {s2[i] : i \in 1 .. n + 1}
    <2>1. F = {s[i] : i \in 1 .. n}
      BY DEF OnList
    <2> QED
      BY <1>3, <1>4, <1>6, <1>7, <2>1
  <1>9. \A i, j \in 1 .. n + 1 : s2[i] = s2[j] => i = j
    <2>1. \A i \in 1 .. n : s[i] # t /\ \A j \in 1 .. n : s[i] = s[j] => i = j
      BY DEF OnList
    <2> QED
      BY <1>6, <1>7, <2>1
  <1>10. \A i \in 1 .. n + 1 : after[s2[i]] = IF i = n + 1 THEN end ELSE s2[i + 1]
    <2>1. /\ first = IF n = 0 THEN end ELSE s[1]
          /\ \A i \in 1 .. n : after[s[i]] = IF i = n THEN end ELSE s[i + 1]
      BY DEF OnList
    <2>2. after[s2[1]] = IF 1 = n + 1 THEN end ELSE s2[2]
      BY <1>1, <1>6, <2>1
    <2>3. ASSUME NEW i \in 1 .. n
          PROVE  after[s2[i + 1]] = IF i + 1 = n + 1 THEN end ELSE s2[i + 1 + 1]
      <3>1. s2[i + 1] = s[i] /\ (i # n => i + 1 \in 1 .. n)
        BY <1>1, <1>6
      <3> QED
        BY <1>1, <1>6, <2>1, <3>1
    <2> QED
      BY <1>7, <2>2, <2>3
  <1>11. OnList(n + 1, s2, F \cup {t}, t, after, end)
    <2>1. n + 1 # 0
      BY <1>1
    <2> QED
      BY <1>1, <1>5, <1>6, <1>8, <1>9, <1>10, <2>1 DEF OnList
  <1> QED
    BY <1>11 DEF s2

\* The record before number k, or the head of the list, leads past it now.
Skips(n, s, k, first, after, first2, after2) ==
    /\ first2 = IF k = 1 THEN after[s[1]] ELSE first
    /\ \A i \in 1 .. n : after2[s[i]] = IF i + 1 = k THEN after[s[k]] ELSE after[s[i]]

\* The list without its record number k.
Past(n, s, k) == [i \in 1 .. n - 1 |-> IF i < k THEN s[i] ELSE s[i + 1]]

LEMMA OnListUnlink ==
    ASSUME NEW n, NEW s, NEW F, NEW first, NEW after, NEW end, NEW k \in 1 .. n,
           OnList(n, s, F, first, after, end), NEW first2, NEW after2,
           Skips(n, s, k, first, after, first2, after2)
    PROVE  OnList(n - 1, Past(n, s, k), F \ {s[k]}, first2, after2, end)
  <1> DEFINE q == Past(n, s, k)
  <1> USE DEF Skips
  <1>1. n \in Nat /\ k \in Nat /\ n # 0 /\ n - 1 \in Nat /\ s \in [1 .. n -> F]
    BY DEF OnList
  <1>2. \A i \in 1 .. n - 1 : i \in 1 .. n /\ i + 1 \in 1 .. n
    BY <1>1
  <1>4. \A i \in 1 .. n - 1 : q[i] = IF i < k THEN s[i] ELSE s[i + 1]
    BY DEF Past
  <1> HIDE DEF q
  <1>5. \A i, j \in 1 .. n : s[i] = s[j] => i = j
    BY DEF OnList
  <1>6. \A i \in 1 .. n : i # k => \E j \in 1 .. n - 1 : i = IF j < k THEN j ELSE j + 1
    <2> SUFFICES ASSUME NEW i \in 1 .. n, i # k
                 PROVE  \E j \in 1 .. n - 1 : i = IF j < k THEN j ELSE j + 1
      OBVIOUS
    <2>1. CASE i < k
      BY <1>1, <2>1
    <2>2. CASE i > k
      <3>1. i - 1 \in 1 .. n - 1 /\ ~(i - 1 < k) /\ i = i - 1 + 1
        BY <1>1, <2>2
      <3> QED
        BY <3>1
    <2> QED
      BY <1>1, <2>1, <2>2
  <1>7. F \ {s[k]} = {q[i] : i \in 1 .. n - 1}
    <2>1. F = {s[i] : i \in 1 .. n}
      BY DEF OnList
    <2>2. ASSUME NEW i \in 1 .. n - 1 PROVE q[i] \in F \ {s[k]}
      <3>1. CASE i < k
        BY <1>1, <1>2, <1>4, <1>5, <2>1, <3>1
      <3>2. CASE ~(i < k)
        <4>1. i + 1 # k /\ i + 1 \in 1 .. n
          BY <1>1, <1>2, <3>2
        <4> QED
          BY <1>4, <1>5, <2>1, <3>2, <4>1
      <3> QED
        BY <3>1, <3>2
    <2>3. ASSUME NEW x \in F \ {s[k]} PROVE \E i \in 1 .. n - 1 : x = q[i]
      <3>1. PICK i \in 1 .. n : x = s[i] /\ i # k
        BY <2>1
      <3>2. PICK j \in 1 .. n - 1 : i = IF j < k THEN j ELSE j + 1
        BY <1>6, <3>1
      <3> QED
        BY <1>4, <3>1, <3>2
    <2> QED
      BY <2>2, <2>3
  <1>3. q \in [1 .. n - 1 -> F \ {s[k]}]
    <2>1. \A i \in 1 .. n - 1 : q[i] \in F \ {s[k]}
      BY <1>7
    <2> QED
      BY <2>1 DEF q, Past
  <1>8. \A i, j \in 1 .. n - 1 : q[i] = q[j] => i = j
    <2> SUFFICES ASSUME NEW i \in 1 .. n - 1, NEW j \in 1 .. n - 1, q[i] = q[j]
                 PROVE  i = j
      OBVIOUS
    <2>1. (IF i < k THEN i ELSE i + 1) = (IF j < k THEN j ELSE j + 1)
      BY <1>2, <1>4, <1>5
    <2> QED
      BY <1>1, <2>1
  <1>9. first2 = IF n - 1 = 0 THEN end ELSE q[1]
    <2>1. /\ first = s[1] /\ 1 \in 1 .. n
          /\ after[s[1]] = IF 1 = n THEN end ELSE s[2]
      <3>1. /\ first = IF n = 0 THEN end ELSE s[1]
            /\ \A i \in 1 .. n : after[s[i]] = IF i = n THEN end ELSE s[i + 1]
        BY DEF OnList
      <3>2. 1 \in 1 .. n /\ 1 + 1 = 2 /\ n # 0
        BY <1>1
      <3> QED
        BY ONLY <3>1, <3>2
    <2>2. n - 1 # 0 => q[1] = IF 1 < k THEN s[1] ELSE s[2]
      BY <1>1, <1>4
    <2>3. n - 1 = 0 <=> n = 1
      BY <1>1
    <2>4. 1 < k <=> k # 1
      BY <1>1
    <2>5. n = 1 => k = 1
      BY <1>1
    <2> QED
      BY <2>1, <2>2, <2>3, <2>4, <2>5
  <1>10. ASSUME NEW i \in 1 .. n - 1
         PROVE  after2[q[i]] = IF i = n - 1 THEN end ELSE q[i + 1]
    <2>1. \A j \in 1 .. n : after[s[j]] = IF j = n THEN end ELSE s[j + 1]
      BY DEF OnList
    <2>2. i \in 1 .. n /\ i + 1 \in 1 .. n /\ (i # n - 1 => i + 1 \in 1 .. n - 1)
      BY <1>1
    <2>3. CASE i + 1 < k
      <3>1. q[i] = s[i] /\ q[i + 1] = s[i + 1] /\ after2[s[i]] = after[s[i]] /\ i # n - 1 /\ i # n
        BY <1>1, <1>4, <2>2, <2>3
      <3> QED
        BY <2>1, <2>2, <3>1
    <2>4. CASE i + 1 = k
      <3>1. q[i] = s[i] /\ after2[s[i]] = after[s[k]] /\ (i = n - 1 <=> k = n)
        BY <1>1, <1>4, <2>2, <2>4
      <3>2. i # n - 1 => q[i + 1] = s[k + 1]
        BY <1>1, <1>4, <2>2, <2>4
      <3> QED
        BY <2>1, <3>1, <3>2
    <2>5. CASE i + 1 > k
      <3>1. ~(i < k) /\ ~(i + 1 < k) /\ i + 1 + 1 # k
        BY <1>1, <2>5
      <3>2. q[i] = s[i + 1] /\ after2[s[i + 1]] = after[s[i + 1]]
        BY <1>4, <2>2, <3>1
      <3>3. i # n - 1 => q[i + 1] = s[i + 1 + 1]
        BY <1>4, <2>2, <3>1
      <3>4. i = n - 1 <=> i + 1 = n
        BY <1>1
      <3> QED
        BY <2>1, <2>2, <3>2, <3>3, <3>4
    <2> QED
      BY <1>1, <2>3, <2>4, <2>5
  <1>11. OnList(n - 1, q, F \ {s[k]}, first2, after2, end)
    BY <1>1, <1>3, <1>7, <1>8, <1>9, <1>10 DEF OnList
  <1> QED
    BY <1>11 DEF q

\* The length of a list is the number of its records.
LEMMA OnListCardinality ==
    ASSUME NEW n, NEW s, NEW F, NEW first, NEW after, NEW end,
           OnList(n, s, F, first, after, end)
    PROVE  IsFiniteSet(F) /\ Cardinality(F) = n
  <1>1. s \in Bijection(1 .. n, F) /\ n \in Nat
    BY DEF OnList, Bijection, Injection, Surjection, IsInjective
  <1>2. ExistsBijection(1 .. n, F)
    BY <1>1 DEF ExistsBijection
  <1>3. IsFiniteSet(1 .. n) /\ Cardinality(1 .. n) = n
    BY <1>1, FS_Interval
  <1> QED
    BY <1>2, <1>3, FS_Bijection

\* A walk along the list.
Walked(n, F, first, after, f) ==
    f[0] = first /\ \A m \in 1 .. n : f[m - 1] \in F => f[m] = after[f[m - 1]]

\* Who follows a list meets its records in their order, and then the end.
LEMMA OnListWalk ==
    ASSUME NEW n, NEW s, NEW F, NEW first, NEW after, NEW end, NEW f,
           OnList(n, s, F, first, after, end), Walked(n, F, first, after, f)
    PROVE  /\ \A m \in 0 .. n : f[m] = IF m = n THEN end ELSE s[m + 1]
           /\ {f[m] : m \in 0 .. n - 1} = F
  <1> DEFINE S == {m \in 0 .. n : f[m] = IF m = n THEN end ELSE s[m + 1]}
  <1>1. /\ n \in Nat /\ s \in [1 .. n -> F] /\ F = {s[i] : i \in 1 .. n}
        /\ first = IF n = 0 THEN end ELSE s[1]
        /\ \A i \in 1 .. n : after[s[i]] = IF i = n THEN end ELSE s[i + 1]
    BY DEF OnList
  <1>0. /\ n \in Nat /\ f[0] = first
        /\ \A m \in 1 .. n : f[m - 1] \in F => f[m] = after[f[m - 1]]
    BY DEF OnList, Walked
  <1>2. 0 \in S
    BY <1>0, <1>1
  <1>3. ASSUME NEW m \in 0 .. n - 1, m \in S PROVE m + 1 \in S
    <2>1. m + 1 \in 1 .. n /\ m + 1 \in 0 .. n /\ m # n /\ m + 1 - 1 = m
      BY <1>0
    <2>2. f[m] = s[m + 1] /\ f[m] \in F
      BY <1>1, <1>3, <2>1
    <2>3. f[m + 1] = after[s[m + 1]]
      BY <1>0, <2>1, <2>2
    <2> QED
      BY <1>1, <2>1, <2>3
  <1>4. 0 .. n \subseteq S
    <2> HIDE DEF S
    <2> QED
      BY <1>1, <1>2, <1>3, IntervalInduction
  <1>5. \A m \in 0 .. n : f[m] = IF m = n THEN end ELSE s[m + 1]
    BY <1>4
  <1>6. \A m \in 0 .. n - 1 : m + 1 \in 1 .. n /\ f[m] = s[m + 1]
    <2> SUFFICES ASSUME NEW m \in 0 .. n - 1 PROVE m + 1 \in 1 .. n /\ f[m] = s[m + 1]
      OBVIOUS
    <2>1. m + 1 \in 1 .. n /\ m \in 0 .. n /\ m # n
      BY <1>0
    <2> QED
      BY <1>5, <2>1
  <1>7. \A i \in 1 .. n : i - 1 \in 0 .. n - 1 /\ f[i - 1] = s[i]
    <2> SUFFICES ASSUME NEW i \in 1 .. n PROVE i - 1 \in 0 .. n - 1 /\ f[i - 1] = s[i]
      OBVIOUS
    <2>1. i - 1 \in 0 .. n - 1 /\ i - 1 + 1 = i
      BY <1>0
    <2> QED
      BY <1>6, <2>1
  <1>8. {f[m] : m \in 0 .. n - 1} = F
    <2>1. \A m \in 0 .. n - 1 : f[m] \in F
      BY <1>1, <1>6
    <2>2. \A x \in F : \E m \in 0 .. n - 1 : x = f[m]
      <3> SUFFICES ASSUME NEW x \in F PROVE \E m \in 0 .. n - 1 : x = f[m]
        OBVIOUS
      <3>1. PICK i \in 1 .. n : x = s[i]
        BY <1>1
      <3> QED
        BY <1>7, <3>1
    <2> QED
      BY <2>1, <2>2
  <1> QED
    BY <1>5, <1>8

==============================================================================
