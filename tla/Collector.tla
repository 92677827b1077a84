------------------------------ MODULE Collector ------------------------------
(***************************************************************************)
(* The mark-and-sweep collector of kjs/collector.cpp, as the threads that  *)
(* share one heap see it.  Only the holder of the interpreter lock reads   *)
(* or writes JavaScript cells, but every thread may hold pointers to cells *)
(* on its stack, with or without the lock, and may return from a function  *)
(* or end while another thread collects.  A collection is the sequence of  *)
(* root scans of Collector::collect, one action each, and a sweep.         *)
(*                                                                         *)
(* The collector may take memory for a cell that is none: a constructor is *)
(* about to write it, or it was a cell once.  A virtual call on such       *)
(* memory, mark() or the destructor, goes through whatever lies where the  *)
(* pointer to the virtual functions should be.  What happens then is       *)
(* undefined, and the model ends there, in the phase "undefined".          *)
(*                                                                         *)
(* How cells are laid out in blocks is the business of CollectorHeap.tla.  *)
(***************************************************************************)
EXTENDS InterpreterLock, FiniteSets

CONSTANTS
    Cells,          \* the cells the heap can hold
    Interpreters,   \* the Interpreter objects on the ring Interpreter::s_hook
    MaxProtect,     \* bound on one cell's protect count
    MaxStray,       \* bound on the stray words one stack scan can meet
    MaxEdges,       \* bound on the references between cells
    MaxAnchors      \* bound on the words in Lists, protect counts and roots

ASSUME CellsAssumption == IsFiniteSet(Cells)
ASSUME MaxProtectAssumption == MaxProtect \in Nat
ASSUME BoundsAssumption ==
    MaxStray \in Nat /\ MaxEdges \in Nat /\ MaxAnchors \in Nat

VARIABLES
    cell,         \* "free"; allocated, not constructed: "raw", in a block,
                  \* or "unread", an oversize cell; "live"; or "lost",
                  \* given back to malloc before it was constructed
    unsafe,       \* cells whose destructor must run on the collection thread
    refs,         \* the cells a cell's mark() visits
    marked,       \* m_marked
    stack,        \* the cells a thread's stack and registers point to
    lists,        \* the cells in the ListImps of a thread's Lists
    protectCount, \* protectedValues()
    roots,        \* what Interpreter::mark visits: context, global, exception
    phase,        \* where Collector::collect is
    toScan,       \* registered threads whose stacks are still to be scanned
    mainThread    \* javaScriptCollectionThread; NoThread when never set

mutatorVars == <<unsafe, refs, lists, protectCount, roots>>
collectVars == <<marked, phase, toScan>>
vars == <<lockVars, cell, stack, mutatorVars, collectVars, mainThread>>

Phases == {"idle", "self", "threads", "handles", "sweep", "undefined"}

TypeOK ==
    /\ LockTypeOK
    /\ cell \in [Cells -> {"free", "raw", "unread", "live", "lost"}]
    /\ unsafe \subseteq Cells
    /\ refs \in [Cells -> SUBSET Cells]
    /\ marked \subseteq Cells
    /\ stack \in [Threads -> SUBSET Cells]
    /\ lists \in [Threads -> SUBSET Cells]
    /\ protectCount \in [Cells -> 0 .. MaxProtect]
    /\ roots \in [Interpreters -> SUBSET Cells]
    /\ phase \in Phases
    /\ toScan \subseteq Threads
    /\ mainThread \in Threads \cup {NoThread}

Live      == {c \in Cells : cell[c] = "live"}
Unread    == {c \in Cells : cell[c] = "unread"}
Raw       == {c \in Cells : cell[c] = "raw"} \cup Unread
Lost      == {c \in Cells : cell[c] = "lost"}
Allocated == Live \cup Raw
Protected == {c \in Cells : protectCount[c] > 0}

\* Every word the collector must honour.
Roots ==
    (UNION {roots[i] : i \in Interpreters}) \cup Protected
        \cup (UNION {stack[t] \cup lists[t] : t \in Threads})

\* A set of cells that the references r do not lead out of.
Closed(T, r) == \A c \in T : r[c] \subseteq T

\* The cells that the references r lead to from S: the smallest closed set of
\* cells that holds S.
Reach(S, r) ==
    {c \in Cells : \A T \in SUBSET Cells :
        (S \subseteq T /\ Closed(T, r)) => c \in T}

Reachable == Reach(Roots, refs)

\* What mark() visits from the cells S: it turns back at cells that are
\* marked, and at those passed over because their memory looks as if they were.
Visited(S, passed) ==
    LET stops == marked \cup passed
    IN  Reach(S \ stops, [c \in Cells |-> refs[c] \ stops])

\* JSCell::mark on each of the cells S that is not marked yet; the collection
\* goes on with the phase next.  The mark of a cell that is not constructed is
\* a bit of what its memory held before.
Mark(S, next) ==
    \E passed \in SUBSET (Cells \ Live) :
        IF Visited(S, passed) \subseteq Live
        THEN marked' = marked \cup Visited(S, passed) /\ phase' = next
        ELSE UNCHANGED marked /\ phase' = "undefined"

Init ==
    /\ LockInit
    /\ cell = [c \in Cells |-> "free"]
    /\ unsafe = {}
    /\ refs = [c \in Cells |-> {}]
    /\ marked = {}
    /\ stack = [t \in Threads |-> {}]
    /\ lists = [t \in Threads |-> {}]
    /\ protectCount = [c \in Cells |-> 0]
    /\ roots = [i \in Interpreters |-> {}]
    /\ phase = "idle"
    /\ toScan = {}
    /\ mainThread \in Threads \cup {NoThread}

\* The bounds on the number of references, inside the heap and into it.
Edges == {e \in Cells \X Cells : e[2] \in refs[e[1]]}
Anchors ==
    Cardinality({a \in Threads \X Cells : a[2] \in lists[a[1]]})
        + Cardinality({a \in Interpreters \X Cells : a[2] \in roots[a[1]]})
        + Cardinality({a \in Cells \X (1 .. MaxProtect) : a[2] <= protectCount[a[1]]})
MoreEdges   == Cardinality(Edges) < MaxEdges
MoreAnchors == Anchors < MaxAnchors

------------------------------------------------------------------------------
(* The lock.  A thread keeps the pointers on its stack when it unlocks.    *)

heapVars == <<cell, stack, mutatorVars, collectVars, mainThread>>

LockHeap(t) == Lock(t) /\ UNCHANGED heapVars

\* No function returns, and so no JSLock is released, between operator new
\* and the constructor, nor inside Collector::collect.
UnlockHeap(t) ==
    /\ Unlock(t)
    /\ phase = "idle"
    /\ stack[t] \cap Raw = {}
    /\ UNCHANGED heapVars

\* The thread's stack disappears with it, and so do the Lists on it.
ExitThread(t) ==
    /\ Exit(t)
    /\ lists[t] = {}
    /\ stack' = [stack EXCEPT ![t] = {}]
    /\ UNCHANGED <<cell, mutatorVars, collectVars, mainThread>>

------------------------------------------------------------------------------
(* The mutator: the thread inside the lock, outside a collection.          *)

Running(t) == holder = t /\ phase = "idle"

\* A running thread's pointers to constructed cells.
Held(t) == stack[t] \cap Live

Push(t, c) == stack' = [stack EXCEPT ![t] = @ \cup {c}]

MutatorKeeps == UNCHANGED <<lockVars, collectVars, mainThread>>

\* Collector::allocate, after the collection it begins with when one is due
\* (CollectorHeap.tla says when that is).  A cell of a block has a first word
\* of 0 until it is constructed; the memory of an oversize cell is as it was.
Allocate(t, c) ==
    /\ Running(t)
    /\ cell[c] = "free"
    /\ \E new \in {"raw", "unread"} : cell' = [cell EXCEPT ![c] = new]
    /\ Push(t, c)
    /\ UNCHANGED mutatorVars /\ MutatorKeeps

\* The constructors: JSCell's sets the flags, the derived ones start empty.
Construct(t, c) ==
    /\ Running(t)
    /\ c \in stack[t] \cap Raw
    /\ cell' = [cell EXCEPT ![c] = "live"]
    /\ refs' = [refs EXCEPT ![c] = {}]
    /\ unsafe' \in {unsafe, unsafe \cup {c}}
    /\ UNCHANGED <<stack, lists, protectCount, roots>> /\ MutatorKeeps

\* A property, prototype or internal value of c becomes d, or stops being d.
Store(t, c, d) ==
    /\ Running(t)
    /\ c \in Held(t) /\ d \in Held(t) \ refs[c]
    /\ MoreEdges
    /\ refs' = [refs EXCEPT ![c] = @ \cup {d}]
    /\ UNCHANGED <<cell, stack, unsafe, lists, protectCount, roots>>
    /\ MutatorKeeps

Erase(t, c, d) ==
    /\ Running(t)
    /\ c \in Held(t) /\ d \in refs[c]
    /\ refs' = [refs EXCEPT ![c] = @ \ {d}]
    /\ UNCHANGED <<cell, stack, unsafe, lists, protectCount, roots>>
    /\ MutatorKeeps

\* Cells a running thread can get a pointer to without allocating.
Visible(t) ==
    (UNION {refs[c] : c \in Held(t)}) \cup (UNION {roots[i] : i \in Interpreters})
        \cup Protected \cup lists[t]

Load(t, c) ==
    /\ Running(t)
    /\ c \in Visible(t) \ stack[t]
    /\ Push(t, c)
    /\ UNCHANGED <<cell, mutatorVars>> /\ MutatorKeeps

\* A frame returns or a register is reused; no lock is needed for that, and a
\* collection by another thread may be under way.
Forget(t, c) ==
    /\ c \in Held(t)
    /\ holder = t => phase = "idle"
    /\ stack' = [stack EXCEPT ![t] = @ \ {c}]
    /\ UNCHANGED <<lockVars, cell, mutatorVars, collectVars, mainThread>>

\* Collector::protect and unprotect.
Protect(t, c) ==
    /\ Running(t)
    /\ c \in Held(t)
    /\ protectCount[c] < MaxProtect /\ MoreAnchors
    /\ protectCount' = [protectCount EXCEPT ![c] = @ + 1]
    /\ UNCHANGED <<cell, stack, unsafe, refs, lists, roots>> /\ MutatorKeeps

\* (Mutant: a value that was never protected is let go.)
UnprotectAnything(t, c) ==
    /\ Running(t)
    /\ c \in Held(t)
    /\ protectCount' = [protectCount EXCEPT ![c] = @ - 1]
    /\ UNCHANGED <<cell, stack, unsafe, refs, lists, roots>> /\ MutatorKeeps

Unprotect(t, c) ==
    /\ Running(t)
    /\ c \in Protected
    /\ protectCount' = [protectCount EXCEPT ![c] = @ - 1]
    /\ UNCHANGED <<cell, stack, unsafe, refs, lists, roots>> /\ MutatorKeeps

\* ProtectedPtr::operator=: the new value is protected before the old one is
\* let go, both under one lock.
Reprotect(t, old, new) ==
    /\ Running(t)
    /\ old \in Protected /\ new \in Held(t) /\ old # new
    /\ protectCount[new] < MaxProtect
    /\ protectCount' = [protectCount EXCEPT ![new] = @ + 1, ![old] = @ - 1]
    /\ UNCHANGED <<cell, stack, unsafe, refs, lists, roots>> /\ MutatorKeeps

\* List::append and the destructor of a List.
ListAppend(t, c) ==
    /\ Running(t)
    /\ c \in Held(t) \ lists[t] /\ MoreAnchors
    /\ lists' = [lists EXCEPT ![t] = @ \cup {c}]
    /\ UNCHANGED <<cell, stack, unsafe, refs, protectCount, roots>>
    /\ MutatorKeeps

DropLists(t) ==
    /\ Running(t)
    /\ lists[t] # {}
    /\ lists' = [lists EXCEPT ![t] = {}]
    /\ UNCHANGED <<cell, stack, unsafe, refs, protectCount, roots>>
    /\ MutatorKeeps

\* A context, a global object or an exception of an interpreter begins or
\* ceases to be one.
AddRoot(t, i, c) ==
    /\ Running(t)
    /\ c \in Held(t) \ roots[i] /\ MoreAnchors
    /\ roots' = [roots EXCEPT ![i] = @ \cup {c}]
    /\ UNCHANGED <<cell, stack, unsafe, refs, lists, protectCount>>
    /\ MutatorKeeps

DropRoot(t, i, c) ==
    /\ Running(t)
    /\ c \in roots[i]
    /\ roots' = [roots EXCEPT ![i] = @ \ {c}]
    /\ UNCHANGED <<cell, stack, unsafe, refs, lists, protectCount>>
    /\ MutatorKeeps

------------------------------------------------------------------------------
(* Collector::collect.                                                     *)

CollectorKeeps ==
    UNCHANGED <<lockVars, cell, stack, mutatorVars, mainThread>>

\* Called by Collector::allocate when a collection is due, by
\* Interpreter::collect or by JSGarbageCollect; it begins with every
\* interpreter on the ring.
BeginCollect(t) ==
    /\ Running(t)
    /\ Mark(UNION {roots[i] : i \in Interpreters}, "self")
    /\ UNCHANGED toScan /\ CollectorKeeps

\* markStackObjectsConservatively(start, end) on the stack of t.  Words that
\* merely look like pointers are honoured too; a word that points to a free
\* cell, or to one of a block that is not constructed, is passed over because
\* the cell's first word is 0.  That of an oversize cell may be anything: it
\* may be passed over (Mark) or not.
\* (Mutant: without the test of zeroIfFree.)
ScanStackUnchecked(t, next) ==
    \E stray \in SUBSET Cells :
        Cardinality(stray) <= MaxStray /\ Mark(stack[t] \cup stray, next)

ScanStack(t, next) ==
    \E stray \in SUBSET Cells :
        /\ Cardinality(stray) <= MaxStray
        /\ Mark((stack[t] \cup stray) \cap (Live \cup Unread), next)

MarkSelf ==
    /\ phase = "self"
    /\ ScanStack(holder, "threads")
    /\ toScan' = registered \ {holder}
    /\ CollectorKeeps

\* One turn of the loop over registeredThreads; a thread that has ended
\* meanwhile is not on the list any more.
MarkOther(t) ==
    /\ phase = "threads"
    /\ t \in toScan \cap registered
    /\ ScanStack(t, "threads")
    /\ toScan' = toScan \ {t}
    /\ CollectorKeeps

MarkedStacks ==
    /\ phase = "threads"
    /\ toScan \cap registered = {}
    /\ phase' = "handles"
    /\ toScan' = {}
    /\ UNCHANGED marked /\ CollectorKeeps

\* markProtectedObjects, then List::markProtectedLists.
\* (Mutant: the Lists are forgotten.)
MarkProtectedOnly ==
    /\ phase = "handles"
    /\ Mark(Protected, "sweep")
    /\ UNCHANGED toScan /\ CollectorKeeps

MarkHandles ==
    /\ phase = "handles"
    /\ Mark(Protected \cup (UNION {lists[t] : t \in Threads}), "sweep")
    /\ UNCHANGED toScan /\ CollectorKeeps

OnCollectionThread == mainThread \in {NoThread, holder}

\* The constructed cells that the sweep destroys.
Garbage ==
    {c \in Live \ marked : OnCollectionThread \/ c \notin unsafe}

\* The loop over the blocks looks at the first word of a cell, too; the loop
\* over oversize cells does not: the mark and the flag of one that is not
\* constructed are what its memory holds, and may condemn it.
Sweep ==
    /\ phase = "sweep"
    /\ \E misread \in SUBSET Unread :
         /\ cell' = [c \in Cells |-> IF c \in Garbage THEN "free"
                                     ELSE IF c \in misread THEN "lost" ELSE cell[c]]
         /\ phase' = IF misread = {} THEN "idle" ELSE "undefined"
    /\ refs' = [c \in Cells |-> IF c \in Garbage THEN {} ELSE refs[c]]
    /\ unsafe' = unsafe \ Garbage
    /\ marked' = {}
    /\ UNCHANGED <<lockVars, stack, lists, protectCount, roots, toScan, mainThread>>

------------------------------------------------------------------------------
Mutate(t) ==
    \/ \E c \in Cells :
        \/ Allocate(t, c) \/ Construct(t, c) \/ Load(t, c) \/ Forget(t, c)
        \/ Protect(t, c) \/ Unprotect(t, c) \/ ListAppend(t, c)
        \/ \E i \in Interpreters : AddRoot(t, i, c) \/ DropRoot(t, i, c)
    \/ \E c, d \in Cells : Store(t, c, d) \/ Erase(t, c, d) \/ Reprotect(t, c, d)
    \/ DropLists(t)

Collect ==
    \/ MarkSelf \/ MarkedStacks \/ MarkHandles \/ Sweep
    \/ \E t \in Threads : MarkOther(t)

Next ==
    /\ phase # "undefined"
    /\ \/ \E t \in Threads :
            \/ LockHeap(t) \/ UnlockHeap(t) \/ ExitThread(t)
            \/ Mutate(t) \/ BeginCollect(t)
       \/ Collect

Spec == Init /\ [][Next]_vars

------------------------------------------------------------------------------
(* Properties.                                                             *)

\* No cell that a root leads to is ever reclaimed: whatever a stack, a List,
\* a protect count or an interpreter can reach has not been swept, but for an
\* oversize cell that was never constructed.
ReachableAllocated == Reachable \ Lost \subseteq Allocated

\* The collector calls mark() and destructors of constructed cells only, but in
\* two cases.  The thread that collects has itself allocated an oversize cell
\* that it has not constructed; no other thread can be in that position.  Or a
\* collection off the collection thread kept garbage whose destructor is unsafe
\* but not what it referred to, and a stray word has now revived it.
CallsConstructed ==
    [][phase # "undefined" /\ phase' = "undefined" =>
          \/ stack[holder] \cap Unread # {}
          \/ mainThread # NoThread /\ MaxStray > 0]_vars
==============================================================================
