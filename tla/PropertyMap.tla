----------------------------- MODULE PropertyMap -----------------------------
(***************************************************************************)
(* The property table of every JavaScript object (kjs/property_map.cpp).   *)
(* One property is kept in place; the second one turns the map into an     *)
(* open-addressed hash table with double hashing.  Removed entries leave a *)
(* sentinel; the table is rehashed in place when sentinels pile up, and    *)
(* into one twice the size when it is half full.                           *)
(***************************************************************************)
EXTENDS Integers, Sequences, FiniteSets, FiniteSetsExt, SequencesExt

CONSTANTS
    Keys,          \* identifiers
    Hash,          \* their hash values
    Values,        \* values
    Attributes,    \* name -> the attribute sets it is ever created with
    NoKey,         \* a null key
    Deleted,       \* deletedSentinel()
    InitialSize,   \* 16 in the code
    MaxSize,       \* bound on the size of a table
    MaxIndex,      \* bound on lastIndexUsed
    ClearAnyTime   \* FALSE if clear() is called only on tables without sentinels

ASSUME KeysAssumption ==
    /\ NoKey \notin Keys \cup Values /\ Deleted \notin Keys /\ NoKey # Deleted
    /\ Hash \in [Keys -> Nat]
\* Powers of 2: no odd number but 1 divides them.
PowersOf2 == {n \in Nat \ {0} : \A d \in 1 .. n : n % d = 0 => d = 1 \/ d % 2 = 0}
ASSUME SizeAssumption ==
    /\ MaxSize \in Nat /\ MaxIndex \in Nat
    /\ InitialSize \in 4 .. MaxSize /\ InitialSize \in PowersOf2

VARIABLES
    single,    \* _singleEntry
    table      \* *_table; size 0 when there is none

vars == <<single, table>>

Entry(k, v, a, i) == [key |-> k, value |-> v, attributes |-> a, index |-> i]
NullEntry == Entry(NoKey, NoKey, {}, 0)     \* as calloc leaves it
NoTable == [size |-> 0, entries |-> <<>>, keyCount |-> 0, sentinelCount |-> 0,
            lastIndexUsed |-> 0]

isValid(k) == k \in Keys

AttributeSets == {{}, {"DontEnum"}} \cup UNION {Attributes[k] : k \in Keys}

EntrySet == [key : Keys \cup {NoKey, Deleted}, value : Values \cup {NoKey},
             attributes : AttributeSets, index : 0 .. MaxIndex]

TypeOK ==
    /\ single \in EntrySet /\ single.key # Deleted
    /\ table.size \in 0 .. MaxSize
    /\ table.entries \in [0 .. table.size - 1 -> EntrySet]
    /\ table.keyCount \in 0 .. table.size /\ table.sentinelCount \in 0 .. table.size
    /\ table.lastIndexUsed \in 0 .. MaxIndex

Init == single = NullEntry /\ table = NoTable

------------------------------------------------------------------------------
(* Probing: h & sizeMask, then steps of k = 1 | (h % sizeMask).            *)

Step(h, size) == LET x == h % (size - 1) IN IF x % 2 = 0 THEN x + 1 ELSE x
Probe(h, size, n) == (h + n * Step(h, size)) % size

\* Probe n for key meets it or a null entry; the first such probe ends the
\* loop of the code, which has no other end.
StopsAt(T, key, n) == T.entries[Probe(Hash[key], T.size, n)].key \in {key, NoKey}
Ends(T, key) == \E n \in 0 .. T.size - 1 : StopsAt(T, key, n)
Length(T, key) ==
    CHOOSE n \in 0 .. T.size - 1 :
        StopsAt(T, key, n) /\ \A m \in 0 .. n - 1 : ~ StopsAt(T, key, m)
Find(T, key) == Probe(Hash[key], T.size, Length(T, key))

\* The probes for key that meet a sentinel before the last.
SentinelsMet(T, key) ==
    {n \in 0 .. Length(T, key) :
        T.entries[Probe(Hash[key], T.size, n)].key = Deleted}

\* PropertyMap::insert: into a table without sentinels, under a new key.
insert(T, e) == [T EXCEPT !.entries[Find(T, e.key)] = e]

------------------------------------------------------------------------------
(* Growth.                                                                 *)

EmptyTable(size, keyCount) ==
    [size |-> size, entries |-> [i \in 0 .. size - 1 |-> NullEntry],
     keyCount |-> keyCount, sentinelCount |-> 0, lastIndexUsed |-> 0]

\* PropertyMap::rehash(newTableSize): the single entry goes first, with index
\* 0; then the valid entries of the old table in the order of their slots.
\* (Mutant: the order of the slots becomes the order of the properties.)
rehashRenumbered(T, s, newSize) ==
    LET start ==
            IF s.key = NoKey THEN EmptyTable(newSize, T.keyCount)
            ELSE insert(EmptyTable(newSize, T.keyCount + 1), [s EXCEPT !.index = 0])
        moved[i \in 0 .. T.size] ==
            IF i = 0 THEN start
            ELSE LET e == T.entries[i - 1] IN
                 IF isValid(e.key) THEN insert(moved[i - 1], [e EXCEPT !.index = i - 1])
                 ELSE moved[i - 1]
    IN  [moved[T.size] EXCEPT !.lastIndexUsed = T.size]

Moved(T, start) ==
    LET moved[i \in 0 .. T.size] ==
            IF i = 0 THEN start
            ELSE LET e == T.entries[i - 1] IN
                 IF isValid(e.key) THEN insert(moved[i - 1], e) ELSE moved[i - 1]
    IN  moved[T.size]

rehash(T, s, newSize) ==
    LET start ==
            IF s.key = NoKey THEN EmptyTable(newSize, T.keyCount)
            ELSE insert(EmptyTable(newSize, T.keyCount + 1), [s EXCEPT !.index = 0])
        indices == {T.entries[i].index : i \in {j \in 0 .. T.size - 1 :
                                                isValid(T.entries[j].key)}}
    IN  [Moved(T, start) EXCEPT !.lastIndexUsed = Max(indices \cup {0})]

expand(T, s) == rehash(T, s, IF T.size = 0 THEN InitialSize ELSE T.size * 2)

------------------------------------------------------------------------------
(* PropertyMap::put and remove, as functions of the map m.                 *)

Map == [single |-> single, table |-> table]

\* (Mutant: a sentinel is counted after it has been overwritten.)
AddEntryMiscounted(T, k, v, a) ==
    LET met == SentinelsMet(T, k)
        i == IF met = {} THEN Find(T, k) ELSE Probe(Hash[k], T.size, Min(met))
    IN  [T EXCEPT !.entries[i] = Entry(k, v, a, T.lastIndexUsed + 1),
                  !.lastIndexUsed = @ + 1,
                  !.keyCount = @ + 1]

\* A new entry in the first sentinel met, or in the null entry at the end.
AddEntry(T, k, v, a) ==
    LET met == SentinelsMet(T, k)
        i == IF met = {} THEN Find(T, k) ELSE Probe(Hash[k], T.size, Min(met))
    IN  [T EXCEPT !.entries[i] = Entry(k, v, a, T.lastIndexUsed + 1),
                  !.sentinelCount = IF met = {} THEN @ ELSE @ - 1,
                  !.lastIndexUsed = @ + 1,
                  !.keyCount = @ + 1]

PutInTable(T, k, v, a, roCheck) ==
    LET i == Find(T, k) IN
        IF T.entries[i].key = NoKey THEN AddEntry(T, k, v, a)
        ELSE IF roCheck /\ "ReadOnly" \in T.entries[i].attributes THEN T
        ELSE [T EXCEPT !.entries[i].value = v]

\* (Mutant: the table grows only when it is full.)
putUntilFull(m, k, v, a, roCheck) ==
    LET s == m.single
        T == m.table
    IN
        IF T.size = 0 /\ s.key = NoKey THEN [m EXCEPT !.single = Entry(k, v, a, 0)]
        ELSE IF T.size = 0 /\ s.key = k THEN [m EXCEPT !.single.value = v]
        ELSE IF T.keyCount >= T.size
        THEN [single |-> NullEntry, table |-> PutInTable(expand(T, s), k, v, a, roCheck)]
        ELSE [m EXCEPT !.table = PutInTable(T, k, v, a, roCheck)]

put(m, k, v, a, roCheck) ==
    LET s == m.single
        T == m.table
    IN
        IF T.size = 0 /\ s.key = NoKey THEN [m EXCEPT !.single = Entry(k, v, a, 0)]
        ELSE IF T.size = 0 /\ s.key = k /\ ~ (roCheck /\ "ReadOnly" \in s.attributes)
        THEN [m EXCEPT !.single.value = v]
        ELSE IF T.keyCount * 2 >= T.size
        THEN [single |-> NullEntry, table |-> PutInTable(expand(T, s), k, v, a, roCheck)]
        ELSE [m EXCEPT !.table = PutInTable(T, k, v, a, roCheck)]

\* (Mutant: the attributes of the sentinel are those of the property.)
RemoveKeepingAttributes(T, k) ==
    LET i == Find(T, k)
        R == [T EXCEPT !.entries[i] = [@ EXCEPT !.key = Deleted, !.value = NoKey],
                       !.keyCount = @ - 1,
                       !.sentinelCount = @ + 1]
    IN
        IF T.entries[i].key = NoKey THEN T
        ELSE IF R.sentinelCount * 4 >= R.size THEN rehash(R, NullEntry, R.size)
        ELSE R

RemoveFromTable(T, k) ==
    LET i == Find(T, k)
        R == [T EXCEPT !.entries[i] = [@ EXCEPT !.key = Deleted, !.value = NoKey,
                                                !.attributes = {"DontEnum"}],
                       !.keyCount = @ - 1,
                       !.sentinelCount = @ + 1]
    IN
        IF T.entries[i].key = NoKey THEN T
        ELSE IF R.sentinelCount * 4 >= R.size THEN rehash(R, NullEntry, R.size)
        ELSE R

\* (Mutant: a sentinel in the place of the single entry.)
removeBySentinel(m, k) ==
    IF m.table.size # 0 THEN [m EXCEPT !.table = RemoveFromTable(m.table, k)]
    ELSE IF m.single.key = k THEN [m EXCEPT !.single.key = Deleted]
    ELSE m

\* The value and attributes that the code leaves behind in an empty single
\* entry are cleared here; no reader but containsGettersOrSetters sees them.
remove(m, k) ==
    IF m.table.size # 0 THEN [m EXCEPT !.table = RemoveFromTable(m.table, k)]
    ELSE IF m.single.key = k THEN [m EXCEPT !.single = NullEntry]
    ELSE m

\* PropertyMap::get; NullEntry stands for the null pointer.
get(m, k) ==
    IF m.table.size # 0 THEN m.table.entries[Find(m.table, k)]
    ELSE IF m.single.key = k THEN m.single ELSE NullEntry

------------------------------------------------------------------------------
(* Walks over the whole map.                                               *)

\* The entries at the slots in S, sorted by index.
Ranked(E, S) ==
    LET Before(i) == {j \in S : \/ E[j].index < E[i].index
                               \/ (E[j].index = E[i].index /\ j < i)}
    IN  [n \in 1 .. Cardinality(S) |-> E[CHOOSE i \in S : Cardinality(Before(i)) = n - 1]]

\* The entries that satisfy P, sorted by index.
Sorted(m, P(_)) ==
    IF m.table.size = 0 THEN IF P(m.single) THEN <<m.single>> ELSE <<>>
    ELSE LET E == m.table.entries IN Ranked(E, {i \in DOMAIN E : P(E[i])})

KeysOf(s) == [i \in DOMAIN s |-> s[i].key]

\* getEnumerablePropertyNames asks for a key that is not null, and relies on
\* the attributes of a sentinel to leave it out.
getEnumerablePropertyNames(m) ==
    LET Shown(e) == e.key # NoKey /\ "DontEnum" \notin e.attributes
    IN  KeysOf(Sorted(m, Shown))

\* save, then restore into an empty map.
save(m) ==
    LET Kept(e) == isValid(e.key) /\ e.attributes \cap {"ReadOnly", "Function"} = {}
    IN  Sorted(m, Kept)

restore(m, saved) ==
    LET after[n \in 0 .. Len(saved)] ==
            IF n = 0 THEN m
            ELSE LET e == saved[n] IN put(after[n - 1], e.key, e.value, e.attributes, FALSE)
    IN  after[Len(saved)]

\* The slots mark() reads: it counts values until it has seen keyCount, and
\* goes past null values without counting them.
MarkedSlots(T) ==
    {i \in 0 .. T.size - 1 :
        Cardinality({j \in 0 .. i - 1 : T.entries[j].value # NoKey}) < T.keyCount}

\* The slots whose key the destructor looks at, in the same manner.
ReleasedSlots(T) ==
    {i \in 0 .. T.size - 1 :
        Cardinality({j \in 0 .. i - 1 : T.entries[j].key # NoKey})
            < T.keyCount + T.sentinelCount}

------------------------------------------------------------------------------
(* The operations.                                                         *)

Become(m) == single' = m.single /\ table' = m.table

PutProperty(k, v, a, roCheck) ==
    \E m \in {put(Map, k, v, a, roCheck)} :
        /\ table.lastIndexUsed < MaxIndex
        /\ m.table.size <= MaxSize
        /\ Become(m)

RemoveProperty(k) == \E m \in {remove(Map, k)} : Become(m)

Reload ==
    \E m \in {restore([single |-> NullEntry, table |-> NoTable], save(Map))} : Become(m)

\* PropertyMap::clear empties the valid entries and resets both counts.
Clear ==
    /\ ClearAnyTime \/ table.sentinelCount = 0
    /\ single' = NullEntry
    /\ table' =
        [table EXCEPT
            !.entries = [i \in DOMAIN @ |->
                IF isValid(@[i].key) THEN [@[i] EXCEPT !.key = NoKey, !.value = NoKey]
                ELSE @[i]],
            !.keyCount = 0, !.sentinelCount = 0]

Next ==
    \/ \E k \in Keys, v \in Values, ro \in BOOLEAN :
            \E a \in Attributes[k] : PutProperty(k, v, a, ro)
    \/ \E k \in Keys : RemoveProperty(k)
    \/ Reload
    \/ Clear

Spec == Init /\ [][Next]_vars

------------------------------------------------------------------------------
(* Properties.                                                             *)

Slots == 0 .. table.size - 1
Valid == {i \in Slots : isValid(table.entries[i].key)}

\* What PropertyMap::checkConsistency asserts: each key is found by probing
\* just where it is, and both counts are right.
Consistent ==
    table.size # 0 =>
        /\ \A i \in Valid : /\ Ends(table, table.entries[i].key)
                            /\ Find(table, table.entries[i].key) = i
        /\ table.keyCount = Cardinality(Valid)
        /\ table.sentinelCount =
            Cardinality({i \in Slots : table.entries[i].key = Deleted})
        /\ table.size >= InitialSize

\* Every loop over the table ends in it and where it should.  A probe ends for
\* present and absent keys, since keys and sentinels together leave more than a
\* quarter of the slots empty.  Of the two loops that stop by counting, mark()
\* reaches every value and the destructor every key it has a reference to, and
\* neither runs off the table.
WalksEnd ==
    LET Full == {i \in Slots : table.entries[i].key # NoKey} IN
    /\ table.size # 0 =>
        /\ 4 * Cardinality(Full) < 3 * table.size
        /\ \A k \in Keys : Ends(table, k)
    /\ Valid \subseteq MarkedSlots(table) \cap ReleasedSlots(table)
    /\ table.keyCount <= Cardinality({i \in Slots : table.entries[i].value # NoKey})
    /\ table.keyCount + table.sentinelCount <= Cardinality(Full)

\* The names, oldest first.
Order == LET P(e) == isValid(e.key) IN KeysOf(Sorted(Map, P))

\* Seen through get and the order of its indices, the map is the ordered
\* dictionary of OrderedMap.tla.
Contents ==
    LET Found == [k \in Keys |-> get(Map, k)] IN
    [k \in {x \in Keys : Found[x].key = x} |->
        [value |-> Found[k].value, attributes |-> Found[k].attributes]]

Dictionary == INSTANCE OrderedMap WITH order <- Order, content <- Contents

ImplementsOrderedMap == Dictionary!Spec

\* The enumeration loop writes no more entries than its buffer holds, names
\* no removed property, and lists the others in the order of insertion.
EnumerationExact ==
    getEnumerablePropertyNames(Map) =
        Dictionary!Kept(Order, {k \in Keys : "DontEnum" \notin get(Map, k).attributes})
==============================================================================
