--------------------------- MODULE CollectorProofs ---------------------------
(***************************************************************************)
(* The collector never reclaims a reachable cell that is constructed, for  *)
(* any set of threads, cells and interpreters, and it calls mark() and     *)
(* destructors of others in the two cases of CallsConstructed only.  The   *)
(* invariant that carries the proof follows the marking: what a marked     *)
(* cell refers to is marked as far as it is constructed, and each phase of *)
(* Collector::collect adds one more kind of root to what is marked.        *)
(***************************************************************************)
EXTENDS Collector, FiniteSetTheorems, TLAPS

------------------------------------------------------------------------------
(* Reach is the least closed superset.                                     *)

\* Reach yields cells, whatever the references are.
LEMMA ReachCells ==
    ASSUME NEW S, NEW r
    PROVE  Reach(S, r) \subseteq Cells
  BY DEF Reach

\* Reach contains the cells it starts from.
LEMMA ReachExtends ==
    ASSUME NEW r, NEW S \in SUBSET Cells
    PROVE  S \subseteq Reach(S, r)
  BY DEF Reach

\* Reach is inside every closed set that holds the start.
LEMMA ReachLeast ==
    ASSUME NEW r, NEW S, NEW T \in SUBSET Cells, S \subseteq T, Closed(T, r)
    PROVE  Reach(S, r) \subseteq T
  BY DEF Reach

\* Reach is closed, so a recursive mark() that ends leaves no child unmarked.
LEMMA ReachClosed ==
    ASSUME NEW r \in [Cells -> SUBSET Cells], NEW S
    PROVE  Closed(Reach(S, r), r)
  <1> SUFFICES ASSUME NEW c \in Reach(S, r), NEW d \in r[c]
               PROVE  d \in Reach(S, r)
    BY DEF Closed
  <1>1. c \in Cells /\ d \in Cells
    BY DEF Reach
  <1>2. ASSUME NEW T \in SUBSET Cells, S \subseteq T, Closed(T, r)
        PROVE  d \in T
    <2>1. c \in T
      BY <1>2 DEF Reach
    <2> QED
      BY <2>1, <1>2 DEF Closed
  <1> QED
    BY <1>1, <1>2 DEF Reach

\* A cell that is marked leads to marked cells, as far as they are constructed.
MarksClosed ==
    /\ marked \subseteq Live
    /\ \A c \in marked : refs[c] \cap Live \subseteq marked

\* mark() marks what it was called on and all that follows, even though it
\* turns back at cells that are marked already or look as if they were; or it
\* meets memory that is no cell, and the model ends.
LEMMA MarkCloses ==
    ASSUME TypeOK, MarksClosed, NEW S \in SUBSET Cells, NEW next, Mark(S, next),
           UNCHANGED <<cell, refs>>
    PROVE  /\ MarksClosed'
           /\ marked \subseteq marked'
           /\ \/ phase' = next /\ S \cap Live \subseteq marked'
              \/ phase' = "undefined" /\ marked' = marked
  <1>1. PICK passed \in SUBSET (Cells \ Live) :
          IF Visited(S, passed) \subseteq Live
          THEN marked' = marked \cup Visited(S, passed) /\ phase' = next
          ELSE UNCHANGED marked /\ phase' = "undefined"
    BY DEF Mark
  <1>2. Live' = Live
    BY DEF Live
  <1>3. CASE ~ (Visited(S, passed) \subseteq Live)
    BY <1>1, <1>2, <1>3 DEF MarksClosed
  <1>4. CASE Visited(S, passed) \subseteq Live
    <2> DEFINE stops == marked \cup passed
               r == [c \in Cells |-> refs[c] \ stops]
               V == Reach(S \ stops, r)
    <2>1. V = Visited(S, passed) /\ V \subseteq Live
      BY <1>4 DEF Visited
    <2>2. r \in [Cells -> SUBSET Cells] /\ S \ stops \in SUBSET Cells
      BY DEF TypeOK
    <2>3. S \ stops \subseteq V
      BY <2>2, ReachExtends
    <2>4. Closed(V, r)
      BY <2>2, ReachClosed
    <2>5. V \subseteq Cells
      BY ReachCells
    <2>6. \A c \in V : refs[c] \cap Live \subseteq V \cup marked
      <3> SUFFICES ASSUME NEW c \in V, NEW d \in refs[c] \cap Live, d \notin marked
                   PROVE  d \in V
        OBVIOUS
      <3>1. d \in refs[c] \ stops
        BY <1>1
      <3>2. r[c] \subseteq V /\ c \in Cells
        BY <2>4, <2>5 DEF Closed
      <3> HIDE DEF V, stops
      <3> QED
        BY <3>1, <3>2
    <2>7. S \cap Live \subseteq V \cup marked
      BY <1>1, <2>3
    <2>8. marked' = marked \cup V /\ phase' = next
      BY <1>1, <2>1
    <2> HIDE DEF V
    <2> QED
      BY <1>2, <2>1, <2>6, <2>7, <2>8 DEF MarksClosed
  <1> QED
    BY <1>3, <1>4

------------------------------------------------------------------------------
(* The inductive invariant.                                                *)

\* The lock is held exactly while its depth is positive, by a registered
\* thread; and a collection happens inside it.
LockInv ==
    /\ (holder = NoThread) <=> (depth = 0)
    /\ holder # NoThread => holder \in registered
    /\ phase # "idle" => holder # NoThread

\* A thread that is not registered has nothing to scan.
RegistryInv ==
    \A t \in Threads \ registered : stack[t] = {} /\ lists[t] = {}

\* Only constructed cells refer to others, only constructed cells are put in a
\* List, in a protect count or in an interpreter, and what is reachable refers
\* to constructed cells.
Handles ==
    (UNION {roots[i] : i \in Interpreters}) \cup Protected
        \cup (UNION {lists[t] : t \in Threads})

ShapeInv ==
    /\ \A c \in Cells : cell[c] # "live" => refs[c] = {}
    /\ Handles \subseteq Live
    /\ \A c \in Reachable : refs[c] \subseteq Live

\* A cell that is not constructed is on the stack of the thread in the lock; a
\* lost one ends the model.
RawInv ==
    /\ \A c \in Raw : holder # NoThread /\ c \in stack[holder]
    /\ phase # "undefined" => Lost = {}

\* How far the marking has come.
ScannedThreads ==
    {t \in Threads : \/ phase = "threads" /\ t \notin toScan
                     \/ phase \in {"handles", "sweep"}}

MarkInv ==
    /\ MarksClosed
    /\ phase = "idle" => marked = {}
    /\ phase \notin {"idle", "undefined"} => \A i \in Interpreters : roots[i] \subseteq marked
    /\ \A t \in ScannedThreads : stack[t] \cap Live \subseteq marked
    /\ phase = "sweep" => Handles \subseteq marked

IInv ==
    /\ TypeOK
    /\ LockInv
    /\ RegistryInv
    /\ ShapeInv
    /\ RawInv
    /\ ReachableAllocated
    /\ MarkInv

------------------------------------------------------------------------------
(* Type correctness.                                                       *)

\* Every step of the program keeps the types.
LEMMA TypeStep ==
    ASSUME TypeOK, LockInv, [Next]_vars
    PROVE  TypeOK'
  <1> USE NoThreadAssumption, MaxDepthAssumption, MaxProtectAssumption
  <1>1. CASE UNCHANGED vars
    BY <1>1 DEF TypeOK, LockTypeOK, vars, lockVars, mutatorVars, collectVars
  <1>2. ASSUME NEW t \in Threads, LockHeap(t) \/ UnlockHeap(t) \/ ExitThread(t)
        PROVE  TypeOK'
    <2>1. LockTypeOK'
      BY <1>2 DEF LockHeap, UnlockHeap, ExitThread, Lock, Unlock, Exit, LockInv,
                  TypeOK, LockTypeOK
    <2>2. stack' \in [Threads -> SUBSET Cells]
      BY <1>2 DEF LockHeap, UnlockHeap, ExitThread, heapVars, TypeOK
    <2> QED
      BY <1>2, <2>1, <2>2 DEF LockHeap, UnlockHeap, ExitThread, heapVars,
                              mutatorVars, collectVars, TypeOK
  <1>3. ASSUME NEW t \in Threads, Mutate(t)
        PROVE  TypeOK'
    <2> USE DEF TypeOK, LockTypeOK, MutatorKeeps, lockVars, mutatorVars,
                collectVars
    <2>1. ASSUME NEW c \in Cells,
                 Allocate(t, c) \/ Construct(t, c) \/ Load(t, c) \/ Forget(t, c)
          PROVE  TypeOK'
      BY <2>1 DEF Allocate, Construct, Load, Forget, Push, Held, Raw, Unread
    <2>2. ASSUME NEW c \in Cells,
                 Protect(t, c) \/ Unprotect(t, c) \/ ListAppend(t, c)
          PROVE  TypeOK'
      BY <2>2 DEF Protect, Unprotect, ListAppend, Protected
    <2>3. ASSUME NEW c \in Cells, NEW i \in Interpreters,
                 AddRoot(t, i, c) \/ DropRoot(t, i, c)
          PROVE  TypeOK'
      BY <2>3 DEF AddRoot, DropRoot
    <2>4. ASSUME NEW c \in Cells, NEW d \in Cells,
                 Store(t, c, d) \/ Erase(t, c, d) \/ Reprotect(t, c, d)
          PROVE  TypeOK'
      BY <2>4 DEF Store, Erase, Reprotect, Protected
    <2>5. CASE DropLists(t)
      BY <2>5 DEF DropLists
    <2> QED
      BY <1>3, <2>1, <2>2, <2>3, <2>4, <2>5 DEF Mutate
  <1>4. ASSUME NEW S, NEW next \in Phases, Mark(S, next)
        PROVE  marked' \subseteq Cells /\ phase' \in Phases
    BY <1>4, ReachCells DEF Mark, Visited, TypeOK, Phases
  <1>5. ASSUME NEW t \in Threads, BeginCollect(t) \/ MarkOther(t)
        PROVE  TypeOK'
    BY <1>4, <1>5 DEF BeginCollect, MarkOther, ScanStack, CollectorKeeps, TypeOK,
           LockTypeOK, Phases, lockVars, mutatorVars
  <1>6. CASE MarkSelf \/ MarkedStacks \/ MarkHandles
    BY <1>4, <1>6 DEF MarkSelf, MarkedStacks, MarkHandles, ScanStack,
           CollectorKeeps, TypeOK, LockTypeOK, Phases, lockVars, mutatorVars
  <1>7. CASE Sweep
    BY <1>7 DEF Sweep, TypeOK, LockTypeOK, Phases, lockVars
  <1> QED
    BY <1>1, <1>2, <1>3, <1>5, <1>6, <1>7 DEF Next, Collect

\* The lock discipline that the types and the scans rest on.
LEMMA LockStep ==
    ASSUME TypeOK, LockInv, RegistryInv, [Next]_vars
    PROVE  LockInv' /\ RegistryInv'
  <1> USE NoThreadAssumption, MaxDepthAssumption
  <1>1. CASE UNCHANGED vars
    BY <1>1 DEF LockInv, RegistryInv, vars, lockVars, mutatorVars, collectVars
  <1>2. ASSUME NEW t \in Threads, LockHeap(t) \/ UnlockHeap(t)
        PROVE  LockInv' /\ RegistryInv'
    BY <1>2 DEF LockHeap, UnlockHeap, Lock, Unlock, heapVars, mutatorVars,
                collectVars, LockInv, RegistryInv, TypeOK, LockTypeOK
  <1>3. ASSUME NEW t \in Threads, ExitThread(t)
        PROVE  LockInv' /\ RegistryInv'
    BY <1>3 DEF ExitThread, Exit, mutatorVars, collectVars, LockInv,
                RegistryInv, TypeOK, LockTypeOK
  <1>4. ASSUME NEW t \in Threads, Mutate(t)
        PROVE  LockInv' /\ RegistryInv'
    <2>1. UNCHANGED <<lockVars, phase>>
      BY <1>4 DEF Mutate, Allocate, Construct, Load, Forget, Protect, Unprotect,
            ListAppend, AddRoot, DropRoot, Store, Erase, Reprotect, DropLists,
            MutatorKeeps, collectVars
    <2>2. \A u \in Threads \ {t} : stack'[u] = stack[u] /\ lists'[u] = lists[u]
      BY <1>4 DEF Mutate, Allocate, Construct, Load, Forget, Protect, Unprotect,
            ListAppend, AddRoot, DropRoot, Store, Erase, Reprotect, DropLists,
            MutatorKeeps, mutatorVars, Push, TypeOK
    <2>3. t \notin registered => stack'[t] = {} /\ lists'[t] = {}
      <3>1. CASE t \in registered
        BY <3>1
      <3>2. CASE t \notin registered
        <4>1. holder # t /\ stack[t] = {} /\ lists[t] = {}
          BY <3>2 DEF LockInv, RegistryInv
        <4>2. \E c \in Cells : Forget(t, c)
          BY <1>4, <4>1 DEF Mutate, Allocate, Construct, Load, Protect,
                Unprotect, ListAppend, AddRoot, DropRoot, Store, Erase, Reprotect,
                DropLists, Running
        <4> QED
          BY <4>1, <4>2 DEF Forget, Held
      <3> QED
        BY <3>1, <3>2
    <2> QED
      BY <2>1, <2>2, <2>3 DEF LockInv, RegistryInv, lockVars
  <1>5. ASSUME NEW t \in Threads, BeginCollect(t) \/ MarkOther(t)
        PROVE  LockInv' /\ RegistryInv'
    BY <1>5 DEF BeginCollect, MarkOther, Running, CollectorKeeps, LockInv,
           RegistryInv, lockVars, mutatorVars
  <1>6. CASE MarkSelf \/ MarkedStacks \/ MarkHandles
    BY <1>6 DEF MarkSelf, MarkedStacks, MarkHandles, CollectorKeeps, LockInv,
           RegistryInv, lockVars, mutatorVars
  <1>7. CASE Sweep
    BY <1>7 DEF Sweep, LockInv, RegistryInv, lockVars
  <1> QED
    BY <1>1, <1>2, <1>3, <1>4, <1>5, <1>6, <1>7 DEF Next, Collect

\* Memory that is no cell yet stays with the thread in the lock.
LEMMA RawStep ==
    ASSUME TypeOK, LockInv, RawInv, [Next]_vars
    PROVE  RawInv'
  <1> USE NoThreadAssumption
  <1>1. CASE UNCHANGED vars
    BY <1>1 DEF RawInv, Raw, Unread, Lost, vars, lockVars, collectVars
  <1>2. CASE ~ UNCHANGED vars
    <2>1. phase # "undefined" /\ Lost = {}
      BY <1>2 DEF Next, RawInv
    <2>2. ASSUME NEW t \in Threads, LockHeap(t) \/ UnlockHeap(t) \/ ExitThread(t)
          PROVE  RawInv'
      <3>1. Raw' = Raw /\ Lost' = Lost
        BY <2>2 DEF LockHeap, UnlockHeap, ExitThread, heapVars, Raw, Unread, Lost
      <3>2. CASE LockHeap(t)
        BY <2>1, <3>1, <3>2 DEF LockHeap, Lock, heapVars, RawInv
      <3>3. CASE UnlockHeap(t)
        <4>1. holder = t /\ stack[t] \cap Raw = {}
          BY <3>3 DEF UnlockHeap, Unlock
        <4>2. Raw = {}
          BY <4>1 DEF RawInv
        <4> QED
          BY <2>1, <3>1, <4>2 DEF RawInv
      <3>4. CASE ExitThread(t)
        <4>1. holder # t /\ holder' = holder
          BY <3>4 DEF ExitThread, Exit
        <4>2. \A u \in Threads \ {t} : stack'[u] = stack[u]
          BY <3>4 DEF ExitThread, TypeOK
        <4>3. holder # NoThread => holder \in Threads \ {t}
          BY <4>1 DEF TypeOK, LockTypeOK
        <4> QED
          BY <2>1, <3>1, <4>1, <4>2, <4>3 DEF RawInv
      <3> QED
        BY <2>2, <3>2, <3>3, <3>4
    <2>3. ASSUME NEW t \in Threads, Mutate(t)
          PROVE  RawInv'
      <3>1. ASSUME NEW c \in Cells, Allocate(t, c)
            PROVE  RawInv'
        <4>1. Raw' = Raw \cup {c} /\ Lost' = Lost
          BY <3>1 DEF Allocate, Raw, Unread, Lost, TypeOK
        <4>2. holder' = holder /\ holder = t /\ stack'[t] = stack[t] \cup {c}
          BY <3>1 DEF Allocate, Running, Push, MutatorKeeps, lockVars, TypeOK
        <4> QED
          BY <2>1, <4>1, <4>2 DEF RawInv
      <3>2. ASSUME NEW c \in Cells, Construct(t, c)
            PROVE  RawInv'
        <4>1. Raw' \subseteq Raw /\ Lost' \subseteq Lost
          BY <3>2 DEF Construct, Raw, Unread, Lost, TypeOK
        <4>2. holder' = holder /\ stack' = stack
          BY <3>2 DEF Construct, MutatorKeeps, lockVars
        <4> QED
          BY <2>1, <4>1, <4>2 DEF RawInv
      <3>3. ASSUME UNCHANGED <<cell, holder>>,
                   \A c \in Raw, u \in Threads : c \in stack[u] => c \in stack'[u]
            PROVE  RawInv'
        <4>1. Raw' = Raw /\ Lost' = Lost
          BY <3>3 DEF Raw, Unread, Lost
        <4>2. holder # NoThread => holder \in Threads
          BY DEF TypeOK, LockTypeOK
        <4> QED
          BY <2>1, <3>3, <4>1, <4>2 DEF RawInv
      <3>4. ASSUME NEW c \in Cells, Load(t, c) \/ Forget(t, c)
            PROVE  RawInv'
        <4>1. c \notin Raw \/ Load(t, c)
          BY <3>4 DEF Forget, Held, Live, Raw, Unread
        <4>2. UNCHANGED <<cell, holder>>
          BY <3>4 DEF Load, Forget, MutatorKeeps, lockVars
        <4>3. \A d \in Raw, u \in Threads : d \in stack[u] => d \in stack'[u]
          BY <3>4, <4>1 DEF Load, Push, Forget, TypeOK
        <4> QED
          BY <3>3, <4>2, <4>3
      <3> QED
        BY <2>3, <3>1, <3>2, <3>3, <3>4 DEF Mutate, Protect, Unprotect, ListAppend,
              AddRoot, DropRoot, Store, Erase, Reprotect, DropLists, MutatorKeeps,
              lockVars
    <2>4. ASSUME CollectorKeeps
          PROVE  RawInv'
      BY <2>1, <2>4 DEF CollectorKeeps, lockVars, RawInv, Raw, Unread, Lost
    <2>5. CASE Sweep
      <3>1. PICK misread \in SUBSET Unread :
              /\ cell' = [c \in Cells |-> IF c \in Garbage THEN "free"
                                         ELSE IF c \in misread THEN "lost" ELSE cell[c]]
              /\ phase' = IF misread = {} THEN "idle" ELSE "undefined"
        BY <2>5 DEF Sweep
      <3>2. Raw' \subseteq Raw /\ Lost' \subseteq Lost \cup misread
        BY <3>1 DEF Raw, Unread, Lost
      <3>3. holder' = holder /\ stack' = stack
        BY <2>5 DEF Sweep, lockVars
      <3> QED
        BY <2>1, <3>1, <3>2, <3>3 DEF RawInv
    <2> QED
      BY <1>2, <2>2, <2>3, <2>4, <2>5 DEF Next, Collect, BeginCollect, MarkSelf,
            MarkOther, MarkedStacks, MarkHandles
  <1> QED
    BY <1>1, <1>2

------------------------------------------------------------------------------
(* Nothing reachable is lost.                                              *)

\* Roots are cells, and they are reachable, as is all they refer to.
LEMMA RootsReachable ==
    ASSUME TypeOK
    PROVE  /\ Roots = Handles \cup (UNION {stack[t] : t \in Threads})
           /\ Roots \subseteq Reachable
           /\ Reachable \subseteq Cells
           /\ Closed(Reachable, refs)
  <1>1. Roots = Handles \cup (UNION {stack[t] : t \in Threads})
    BY DEF Roots, Handles
  <1>2. Roots \in SUBSET Cells
    BY DEF Roots, Protected, TypeOK
  <1>3. refs \in [Cells -> SUBSET Cells]
    BY DEF TypeOK
  <1>4. /\ Roots \subseteq Reach(Roots, refs)
        /\ Reach(Roots, refs) \subseteq Cells
        /\ Closed(Reach(Roots, refs), refs)
    BY <1>2, <1>3, ReachExtends, ReachCells, ReachClosed
  <1> QED
    BY <1>1, <1>4 DEF Reachable

\* A step that adds no root and no reference from outside R leaves
\* everything reachable inside R.
LEMMA ReachableWithin ==
    ASSUME NEW R \in SUBSET Cells, Roots' \subseteq R, Closed(R, refs')
    PROVE  Reachable' \subseteq R
  BY ReachLeast DEF Reachable

\* While the mutator runs the marks are clean, whatever it does.
LEMMA IdleMarks ==
    ASSUME MarkInv, phase = "idle", UNCHANGED <<marked, phase>>
    PROVE  MarkInv'
  BY DEF MarkInv, MarksClosed, ScannedThreads

\* The mutator's steps: all of them happen while no collection runs, except
\* Forget, which may come at any moment.
LEMMA MutatorStep ==
    ASSUME IInv, phase # "undefined", NEW t \in Threads, Mutate(t)
    PROVE  ShapeInv' /\ ReachableAllocated' /\ MarkInv'
  <1> USE DEF IInv
  <1> DEFINE Goal == ShapeInv' /\ ReachableAllocated' /\ MarkInv'
  <1>0. /\ Roots = Handles \cup (UNION {stack[u] : u \in Threads})
        /\ Roots' = Handles' \cup (UNION {stack'[u] : u \in Threads})
        /\ Roots \subseteq Reachable /\ Reachable \subseteq Allocated
        /\ Reachable \subseteq Cells
        /\ \A c \in Reachable : refs[c] \subseteq Reachable \cap Live
    BY RootsReachable DEF ReachableAllocated, RawInv, ShapeInv, Closed, Roots,
                          Handles
  <1>00. stack[t] \subseteq Reachable /\ Handles \subseteq Reachable
    BY <1>0
  <1>1. ASSUME NEW c \in Cells, Allocate(t, c)
        PROVE  Goal
    <2>1. MarkInv'
      BY <1>1, IdleMarks DEF Allocate, Running, MutatorKeeps, collectVars
    <2>2. cell[c] = "free" /\ refs[c] = {} /\ refs' = refs /\ Handles' = Handles
      BY <1>1 DEF Allocate, ShapeInv, mutatorVars, Handles, Protected
    <2>3. Live' = Live /\ Allocated' = Allocated \cup {c}
      BY <1>1 DEF Allocate, Live, Raw, Unread, Allocated, TypeOK
    <2>5. \A u \in Threads : stack'[u] \subseteq stack[u] \cup {c}
      BY <1>1 DEF Allocate, Push, TypeOK
    <2>6. Roots' \subseteq Reachable \cup {c}
      BY <1>0, <2>2, <2>5
    <2>7. Closed(Reachable \cup {c}, refs')
      BY <1>0, <2>2 DEF Closed
    <2>8. Reachable' \subseteq Reachable \cup {c}
      BY <1>0, <2>6, <2>7, ReachableWithin
    <2>9. ShapeInv'
      BY <1>0, <1>1, <2>2, <2>3, <2>8 DEF ShapeInv, Allocate, TypeOK
    <2> QED
      BY <1>0, <2>1, <2>3, <2>8, <2>9 DEF ReachableAllocated
  <1>2. ASSUME NEW c \in Cells, Construct(t, c)
        PROVE  Goal
    <2>1. MarkInv'
      BY <1>2, IdleMarks DEF Construct, Running, MutatorKeeps, collectVars
    <2>2. c \in Raw /\ refs' = refs /\ Handles' = Handles /\ stack' = stack
      BY <1>2 DEF Construct, Raw, Unread, ShapeInv, TypeOK, Handles, Protected
    <2>3. Live' = Live \cup {c} /\ Allocated' = Allocated
      BY <1>2, <2>2 DEF Construct, Live, Raw, Unread, Allocated, TypeOK
    <2>4. Reachable' = Reachable
      BY <1>0, <2>2 DEF Reachable
    <2>5. ShapeInv'
      BY <1>0, <1>2, <2>2, <2>3, <2>4 DEF ShapeInv, Construct, TypeOK
    <2> QED
      BY <1>0, <2>1, <2>3, <2>4, <2>5 DEF ReachableAllocated
  <1>3. ASSUME UNCHANGED cell, Handles' \subseteq Live \cap Reachable,
               \A u \in Threads : stack'[u] \subseteq Reachable,
               \A c \in Cells : refs'[c] # refs[c] => cell[c] = "live",
               \A c \in Reachable : refs'[c] \subseteq Reachable \cap Live
        PROVE  ShapeInv' /\ ReachableAllocated'
    <2>1. Live' = Live /\ Allocated' = Allocated
      BY <1>3 DEF Live, Raw, Unread, Allocated
    <2>2. Reachable' \subseteq Reachable
      BY <1>0, <1>3, ReachableWithin DEF Closed
    <2> QED
      BY <1>0, <1>3, <2>1, <2>2 DEF ShapeInv, ReachableAllocated
  <1>4. ASSUME NEW c \in Cells, Load(t, c)
        PROVE  Goal
    <2>1. MarkInv'
      BY <1>4, IdleMarks DEF Load, Running, MutatorKeeps, collectVars
    <2>2. c \in Reachable
      <3>1. c \in UNION {refs[d] : d \in Held(t)} \/ c \in Handles
        BY <1>4 DEF Load, Visible, Handles
      <3> QED
        BY <3>1, <1>0, <1>00 DEF Held
    <2>3. refs' = refs /\ Handles' = Handles /\ cell' = cell
      BY <1>4 DEF Load, mutatorVars, Handles, Protected
    <2>4. \A u \in Threads : stack'[u] \subseteq Reachable
      BY <1>0, <1>4, <2>2 DEF Load, Push, TypeOK
    <2> QED
      BY <1>0, <1>00, <1>3, <2>1, <2>3, <2>4 DEF ShapeInv
  <1>5. ASSUME NEW c \in Cells, Forget(t, c)
        PROVE  Goal
    <2>1. \A u \in Threads : stack'[u] \subseteq stack[u]
      BY <1>5 DEF Forget, TypeOK
    <2>2. /\ refs' = refs /\ Handles' = Handles /\ cell' = cell
          /\ UNCHANGED <<marked, phase, toScan, roots>>
      BY <1>5 DEF Forget, mutatorVars, collectVars, Handles, Protected
    <2>3. MarkInv'
      BY <2>1, <2>2 DEF MarkInv, MarksClosed, ScannedThreads, Live
    <2>4. \A u \in Threads : stack[u] \subseteq Reachable
      BY <1>0
    <2> QED
      BY <1>0, <1>00, <1>3, <2>1, <2>2, <2>3, <2>4 DEF ShapeInv
  <1>6. ASSUME NEW c \in Cells,
               Protect(t, c) \/ Unprotect(t, c) \/ ListAppend(t, c)
                   \/ \E i \in Interpreters : AddRoot(t, i, c) \/ DropRoot(t, i, c)
        PROVE  Goal
    <2>1. MarkInv'
      BY <1>6, IdleMarks DEF Protect, Unprotect, ListAppend, AddRoot, DropRoot,
                             Running, MutatorKeeps, collectVars
    <2>2. cell' = cell /\ refs' = refs /\ stack' = stack
      BY <1>6 DEF Protect, Unprotect, ListAppend, AddRoot, DropRoot
    <2>3. Handles' \subseteq Handles \cup Held(t)
      BY <1>6 DEF Protect, Unprotect, ListAppend, AddRoot, DropRoot, Handles,
                  Protected, Held, TypeOK
    <2> QED
      BY <1>0, <1>00, <1>3, <2>1, <2>2, <2>3 DEF ShapeInv, Held
  <1>7. ASSUME NEW c \in Cells, NEW d \in Cells, Store(t, c, d) \/ Erase(t, c, d)
        PROVE  Goal
    <2>1. MarkInv'
      BY <1>7, IdleMarks DEF Store, Erase, Running, MutatorKeeps, collectVars
    <2>2. cell' = cell /\ stack' = stack /\ Handles' = Handles
      BY <1>7 DEF Store, Erase, Handles, Protected
    <2>3. c \in Live
      BY <1>7 DEF Store, Erase, Held
    <2>4. \A e \in Cells : refs'[e] \subseteq refs[e] \cup Held(t)
      BY <1>7 DEF Store, Erase, TypeOK
    <2>5. \A e \in Cells : refs'[e] # refs[e] => e = c
      BY <1>7 DEF Store, Erase, TypeOK
    <2> QED
      BY <1>0, <1>00, <1>3, <2>1, <2>2, <2>3, <2>4, <2>5
      DEF ShapeInv, Held, Live
  <1>8. ASSUME NEW c \in Cells, NEW d \in Cells, Reprotect(t, c, d)
        PROVE  Goal
    <2>1. MarkInv'
      BY <1>8, IdleMarks DEF Reprotect, Running, MutatorKeeps, collectVars
    <2>2. cell' = cell /\ refs' = refs /\ stack' = stack
      BY <1>8 DEF Reprotect
    <2>3. Handles' \subseteq Handles \cup Held(t)
      <3>1. Protected' \subseteq Protected \cup Held(t)
        BY <1>8 DEF Reprotect, Protected, TypeOK
      <3> QED
        BY <1>8, <3>1 DEF Reprotect, Handles
    <2> QED
      BY <1>0, <1>00, <1>3, <2>1, <2>2, <2>3 DEF ShapeInv, Held
  <1>9. CASE DropLists(t)
    <2>1. MarkInv'
      BY <1>9, IdleMarks DEF DropLists, Running, MutatorKeeps, collectVars
    <2>2. cell' = cell /\ refs' = refs /\ stack' = stack
      BY <1>9 DEF DropLists
    <2>3. Handles' \subseteq Handles
      BY <1>9 DEF DropLists, Handles, Protected, TypeOK
    <2> QED
      BY <1>0, <1>00, <1>3, <2>1, <2>2, <2>3 DEF ShapeInv
  <1> QED
    BY <1>1, <1>2, <1>4, <1>5, <1>6, <1>7, <1>8, <1>9 DEF Mutate

\* Taking and leaving the lock, and the end of a thread.
LEMMA ThreadStep ==
    ASSUME IInv, phase # "undefined", NEW t \in Threads,
           LockHeap(t) \/ UnlockHeap(t) \/ ExitThread(t)
    PROVE  ShapeInv' /\ ReachableAllocated' /\ MarkInv'
  <1> USE DEF IInv
  <1>1. /\ UNCHANGED <<cell, refs, marked, phase, roots, toScan>>
        /\ Handles' = Handles
    BY DEF LockHeap, UnlockHeap, ExitThread, heapVars, mutatorVars, collectVars,
           Handles, Protected
  <1>2. \A u \in Threads : stack'[u] \subseteq stack[u]
    BY DEF LockHeap, UnlockHeap, ExitThread, heapVars, TypeOK
  <1>3. Live' = Live /\ Allocated' = Allocated /\ Lost' = Lost
    BY <1>1 DEF Live, Raw, Unread, Allocated, Lost
  <1>4. MarkInv'
    BY <1>1, <1>2, <1>3 DEF MarkInv, MarksClosed, ScannedThreads
  <1>5. Roots' \subseteq Reachable
    BY <1>1, <1>2, RootsReachable DEF Roots, Handles
  <1>6. Reachable' \subseteq Reachable
    BY <1>1, <1>5, RootsReachable, ReachableWithin
  <1>7. ShapeInv'
    BY <1>1, <1>3, <1>6 DEF ShapeInv
  <1> QED
    BY <1>3, <1>4, <1>6, <1>7 DEF ReachableAllocated

\* A marking step changes the marks only, and what was marked stays marked.
LEMMA MarkStep ==
    ASSUME IInv, NEW S \in SUBSET Cells, NEW next, Mark(S, next), CollectorKeeps
    PROVE  /\ ShapeInv' /\ ReachableAllocated' /\ MarksClosed'
           /\ Handles' = Handles /\ Live' = Live
           /\ marked \subseteq marked'
           /\ \/ phase' = next /\ S \cap Live \subseteq marked'
              \/ phase' = "undefined" /\ marked' = marked
  <1>1. UNCHANGED <<cell, stack, lists, protectCount, roots, refs>>
    BY DEF CollectorKeeps, mutatorVars
  <1>2. /\ Handles' = Handles /\ Live' = Live /\ Allocated' = Allocated
        /\ Reachable' = Reachable /\ Lost' = Lost
    BY <1>1 DEF Handles, Protected, Live, Raw, Unread, Lost, Allocated, Reachable,
                Roots
  <1>3. ShapeInv' /\ ReachableAllocated'
    BY <1>1, <1>2 DEF IInv, ShapeInv, ReachableAllocated
  <1> QED
    BY <1>1, <1>2, <1>3, MarkCloses DEF IInv, MarkInv

\* When the model ends, nothing is left to be said of the marks.
LEMMA UndefinedMarks ==
    ASSUME MarksClosed', phase' = "undefined"
    PROVE  MarkInv'
  BY DEF MarkInv, ScannedThreads

\* The root scans of Collector::collect, one after the other.
LEMMA ScanStep ==
    ASSUME IInv,
           \/ \E t \in Threads : BeginCollect(t) \/ MarkOther(t)
           \/ MarkSelf \/ MarkedStacks \/ MarkHandles
    PROVE  ShapeInv' /\ ReachableAllocated' /\ MarkInv'
  <1> USE DEF IInv
  <1>1. ASSUME NEW t \in Threads, BeginCollect(t)
        PROVE  ShapeInv' /\ ReachableAllocated' /\ MarkInv'
    <2> DEFINE S == UNION {roots[i] : i \in Interpreters}
    <2>1. S \in SUBSET Cells /\ S \subseteq Live
      BY DEF TypeOK, ShapeInv, Handles
    <2>2. Mark(S, "self") /\ CollectorKeeps /\ roots' = roots
      BY <1>1 DEF BeginCollect, CollectorKeeps, mutatorVars
    <2>3. \A i \in Interpreters : roots'[i] \subseteq S
      BY <2>2
    <2> HIDE DEF S
    <2>4. CASE phase' = "undefined"
      BY <2>1, <2>2, <2>4, MarkStep, UndefinedMarks
    <2>5. CASE phase' # "undefined"
      <3>1. /\ ShapeInv' /\ ReachableAllocated' /\ MarksClosed'
            /\ phase' = "self" /\ S \subseteq marked'
        BY <2>1, <2>2, <2>5, MarkStep
      <3> QED
        BY <2>3, <3>1 DEF MarkInv, ScannedThreads
    <2> QED
      BY <2>4, <2>5
  <1>2. ASSUME NEW t \in Threads, NEW next, ScanStack(t, next), CollectorKeeps
        PROVE  /\ ShapeInv' /\ ReachableAllocated' /\ MarksClosed'
               /\ marked \subseteq marked' /\ Live' = Live
               /\ \/ phase' = next /\ stack[t] \cap Live \subseteq marked'
                  \/ phase' = "undefined"
    <2>1. PICK stray \in SUBSET Cells :
            Mark((stack[t] \cup stray) \cap (Live \cup Unread), next)
      BY <1>2 DEF ScanStack
    <2> DEFINE S == (stack[t] \cup stray) \cap (Live \cup Unread)
    <2>2. S \in SUBSET Cells /\ stack[t] \cap Live \subseteq S \cap Live
      BY DEF Live, Unread
    <2> HIDE DEF S
    <2> QED
      BY <1>2, <2>1, <2>2, MarkStep DEF S
  <1>3. CASE MarkSelf
    <2>1. /\ phase = "self" /\ ScanStack(holder, "threads")
          /\ toScan' = registered \ {holder} /\ CollectorKeeps
          /\ UNCHANGED <<stack, roots>>
      BY <1>3 DEF MarkSelf, CollectorKeeps, mutatorVars
    <2>2. holder \in Threads
      BY <2>1 DEF LockInv, TypeOK, LockTypeOK
    <2>3. CASE phase' = "undefined"
      BY <1>2, <2>1, <2>2, <2>3, UndefinedMarks
    <2>4. CASE phase' # "undefined"
      <3>1. /\ ShapeInv' /\ ReachableAllocated' /\ MarksClosed'
            /\ marked \subseteq marked' /\ Live' = Live
            /\ phase' = "threads" /\ stack[holder] \cap Live \subseteq marked'
        BY <1>2, <2>1, <2>2, <2>4
      <3>2. \A t \in Threads \ toScan' : stack[t] \cap Live \subseteq marked'
        BY <2>1, <3>1 DEF RegistryInv
      <3> QED
        BY <2>1, <3>1, <3>2 DEF MarkInv, ScannedThreads
    <2> QED
      BY <2>3, <2>4
  <1>4. ASSUME NEW t \in Threads, MarkOther(t)
        PROVE  ShapeInv' /\ ReachableAllocated' /\ MarkInv'
    <2>1. /\ phase = "threads" /\ ScanStack(t, "threads")
          /\ toScan' = toScan \ {t} /\ CollectorKeeps
          /\ UNCHANGED <<stack, roots>>
      BY <1>4 DEF MarkOther, CollectorKeeps, mutatorVars
    <2>2. CASE phase' = "undefined"
      BY <1>2, <2>1, <2>2, UndefinedMarks
    <2>3. CASE phase' # "undefined"
      <3>1. /\ ShapeInv' /\ ReachableAllocated' /\ MarksClosed'
            /\ marked \subseteq marked' /\ Live' = Live
            /\ phase' = "threads" /\ stack[t] \cap Live \subseteq marked'
        BY <1>2, <2>1, <2>3
      <3>2. \A u \in Threads \ toScan' : stack[u] \cap Live \subseteq marked'
        BY <2>1, <3>1 DEF MarkInv, ScannedThreads
      <3> QED
        BY <2>1, <3>1, <3>2 DEF MarkInv, ScannedThreads
    <2> QED
      BY <2>2, <2>3
  <1>5. CASE MarkedStacks
    <2>1. /\ phase = "threads" /\ phase' = "handles"
          /\ toScan \cap registered = {}
          /\ UNCHANGED <<marked, cell, stack, lists, protectCount, roots, refs>>
      BY <1>5 DEF MarkedStacks, CollectorKeeps, mutatorVars
    <2>2. /\ Handles' = Handles /\ Live' = Live /\ Allocated' = Allocated
          /\ Reachable' = Reachable /\ Lost' = Lost
      BY <2>1 DEF Handles, Protected, Live, Raw, Unread, Lost, Allocated, Reachable,
                  Roots
    <2>3. \A t \in Threads : stack[t] \cap Live \subseteq marked
      BY <2>1 DEF MarkInv, ScannedThreads, RegistryInv
    <2>4. ShapeInv' /\ ReachableAllocated'
      BY <2>1, <2>2 DEF ShapeInv, ReachableAllocated
    <2>5. MarkInv'
      BY <2>1, <2>2, <2>3 DEF MarkInv, MarksClosed, ScannedThreads
    <2> QED
      BY <2>4, <2>5
  <1>6. CASE MarkHandles
    <2> DEFINE S == Protected \cup (UNION {lists[t] : t \in Threads})
    <2>1. S \in SUBSET Cells /\ S \subseteq Live
      BY DEF Protected, TypeOK, ShapeInv, Handles
    <2>2. /\ phase = "handles" /\ Mark(S, "sweep")
          /\ CollectorKeeps /\ UNCHANGED <<stack, roots>>
      BY <1>6 DEF MarkHandles, CollectorKeeps, mutatorVars
    <2>3. Handles = S \cup (UNION {roots[i] : i \in Interpreters})
      BY DEF Handles
    <2> HIDE DEF S
    <2>4. CASE phase' = "undefined"
      BY <2>1, <2>2, <2>4, MarkStep, UndefinedMarks
    <2>5. CASE phase' # "undefined"
      <3>1. /\ ShapeInv' /\ ReachableAllocated' /\ MarksClosed'
            /\ Handles' = Handles /\ Live' = Live
            /\ marked \subseteq marked' /\ phase' = "sweep" /\ S \subseteq marked'
        BY <2>1, <2>2, <2>5, MarkStep
      <3>2. \A t \in Threads : stack[t] \cap Live \subseteq marked'
        BY <2>2, <3>1 DEF MarkInv, ScannedThreads
      <3>3. \A i \in Interpreters : roots[i] \subseteq marked'
        BY <2>2, <3>1 DEF MarkInv
      <3>4. Handles' \subseteq marked'
        BY <2>3, <3>1, <3>3
      <3> QED
        BY <2>2, <3>1, <3>2, <3>3, <3>4 DEF MarkInv, ScannedThreads
    <2> QED
      BY <2>4, <2>5
  <1> QED
    BY <1>1, <1>3, <1>4, <1>5, <1>6

\* When the sweep starts, all cells but the constructed ones that are not marked
\* are closed and hold every root, so it destroys none that is reachable.
LEMMA SweepStep ==
    ASSUME IInv, Sweep
    PROVE  ShapeInv' /\ ReachableAllocated' /\ MarkInv'
  <1> USE DEF IInv
  <1> DEFINE Spared == Cells \ (Live \ marked)
  <1>1. PICK misread \in SUBSET Unread :
          /\ cell' = [c \in Cells |-> IF c \in Garbage THEN "free"
                                      ELSE IF c \in misread THEN "lost" ELSE cell[c]]
          /\ phase' = IF misread = {} THEN "idle" ELSE "undefined"
    BY DEF Sweep
  <1>2. /\ phase = "sweep" /\ marked' = {}
        /\ UNCHANGED <<stack, lists, protectCount, roots>>
        /\ refs' = [c \in Cells |-> IF c \in Garbage THEN {} ELSE refs[c]]
    BY DEF Sweep
  <1>3. MarkInv'
    BY <1>1, <1>2 DEF MarkInv, MarksClosed, ScannedThreads
  <1>4. /\ Roots = Handles \cup (UNION {stack[t] : t \in Threads})
        /\ Roots \subseteq Reachable /\ Reachable \subseteq Allocated
        /\ Reachable \subseteq Cells
        /\ \A c \in Reachable : refs[c] \subseteq Reachable \cap Live
    BY <1>2, RootsReachable DEF ReachableAllocated, RawInv, ShapeInv, Closed
  <1>5. Spared \in SUBSET Cells /\ Spared \cap Garbage = {}
    BY DEF Garbage
  <1>6. Roots \subseteq Spared
    <2>1. \A t \in Threads : stack[t] \cap Live \subseteq marked
      BY <1>2 DEF MarkInv, ScannedThreads
    <2>2. Handles \subseteq marked
      BY <1>2 DEF MarkInv
    <2> QED
      BY <1>4, <2>1, <2>2
  <1>7. Closed(Spared, refs)
    <2>1. \A c \in Spared : refs[c] \in SUBSET Cells
      BY DEF TypeOK
    <2>2. \A c \in Spared : refs[c] \cap Live \subseteq marked
      <3> SUFFICES ASSUME NEW c \in Spared PROVE refs[c] \cap Live \subseteq marked
        OBVIOUS
      <3>1. c \in marked \/ refs[c] = {}
        BY DEF ShapeInv, Live
      <3> QED
        BY <3>1 DEF MarkInv, MarksClosed
    <2> QED
      BY <2>1, <2>2 DEF Closed
  <1>8. Reachable \subseteq Spared
    BY <1>5, <1>6, <1>7, ReachLeast DEF Reachable
  <1>9. \A c \in Reachable : c \in Cells /\ c \notin Garbage
    BY <1>4, <1>5, <1>8
  <1>10. Handles' = Handles /\ Roots' = Roots
    BY <1>2 DEF Handles, Roots, Protected
  <1>11. Closed(Reachable, refs')
    BY <1>2, <1>4, <1>9 DEF Closed
  <1>12. Reachable' \subseteq Reachable
    BY <1>4, <1>10, <1>11, ReachableWithin
  <1>13. /\ Allocated \ Garbage \subseteq Allocated' \cup Lost'
         /\ Live' = Live \ Garbage
    BY <1>1 DEF Allocated, Live, Raw, Unread, Garbage, Lost
  <1>14. ReachableAllocated'
    BY <1>4, <1>9, <1>12, <1>13 DEF ReachableAllocated
  <1>15. ShapeInv'
    <2>1. Handles \subseteq Live \ Garbage
      BY <1>4, <1>9 DEF ShapeInv
    <2>2. \A c \in Cells : cell'[c] # "live" => refs'[c] = {}
      <3> SUFFICES ASSUME NEW c \in Cells, cell'[c] # "live", c \notin Garbage
                   PROVE  refs[c] = {}
        BY <1>2
      <3>1. cell[c] # "live"
        BY <1>1 DEF Unread
      <3> QED
        BY <3>1 DEF ShapeInv
    <2>3. \A c \in Reachable' : refs'[c] \subseteq Live \ Garbage
      <3> SUFFICES ASSUME NEW c \in Reachable PROVE refs'[c] \subseteq Live \ Garbage
        BY <1>12
      <3>1. refs'[c] \subseteq refs[c]
        BY <1>2, <1>4
      <3> QED
        BY <1>4, <1>9, <3>1
    <2> QED
      BY <1>10, <1>13, <2>1, <2>2, <2>3 DEF ShapeInv
  <1> QED
    BY <1>3, <1>14, <1>15

\* The invariant holds at the start and every step keeps it.
THEOREM Invariance == Spec => []IInv
  <1>1. Init => IInv
    <2> SUFFICES ASSUME Init PROVE IInv
      OBVIOUS
    <2>1. TypeOK
      BY NoThreadAssumption, MaxDepthAssumption, MaxProtectAssumption
      DEF Init, LockInit, TypeOK, LockTypeOK, Phases
    <2>2. LockInv /\ RegistryInv /\ RawInv
      BY DEF Init, LockInit, LockInv, RegistryInv, RawInv, Raw, Unread, Lost
    <2>3. Handles = {} /\ Roots = {}
      BY DEF Init, Handles, Roots, Protected
    <2>4. Reachable \subseteq {}
      BY <2>3, ReachLeast DEF Reachable, Closed
    <2>5. ShapeInv /\ MarkInv
      BY <2>3, <2>4 DEF Init, ShapeInv, MarkInv, MarksClosed, ScannedThreads
    <2> QED
      BY <2>1, <2>2, <2>4, <2>5 DEF IInv, ReachableAllocated
  <1>2. IInv /\ [Next]_vars => IInv'
    <2> SUFFICES ASSUME IInv, [Next]_vars PROVE IInv'
      OBVIOUS
    <2>1. TypeOK' /\ LockInv' /\ RegistryInv' /\ RawInv'
      BY TypeStep, LockStep, RawStep DEF IInv
    <2>2. CASE UNCHANGED vars
      <3>1. UNCHANGED <<cell, refs, stack, lists, protectCount, roots, marked,
                        phase, toScan>>
        BY <2>2 DEF vars, mutatorVars, collectVars
      <3>2. /\ Handles' = Handles /\ Live' = Live /\ Allocated' = Allocated
            /\ Reachable' = Reachable /\ ScannedThreads' = ScannedThreads
            /\ Lost' = Lost
        BY <3>1 DEF Handles, Protected, Live, Raw, Unread, Lost, Allocated,
                    Reachable, Roots, ScannedThreads
      <3> QED
        BY <2>1, <3>1, <3>2
        DEF IInv, ShapeInv, ReachableAllocated, MarkInv, MarksClosed
    <2>3. CASE /\ phase # "undefined"
               /\ \E t \in Threads : LockHeap(t) \/ UnlockHeap(t) \/ ExitThread(t)
      BY <2>1, <2>3, ThreadStep DEF IInv
    <2>4. CASE phase # "undefined" /\ \E t \in Threads : Mutate(t)
      BY <2>1, <2>4, MutatorStep DEF IInv
    <2>5. CASE \/ \E t \in Threads : BeginCollect(t) \/ MarkOther(t)
               \/ MarkSelf \/ MarkedStacks \/ MarkHandles
      BY <2>1, <2>5, ScanStep DEF IInv
    <2>6. CASE Sweep
      BY <2>1, <2>6, SweepStep DEF IInv
    <2> QED
      BY <2>2, <2>3, <2>4, <2>5, <2>6 DEF Next, Collect
  <1> QED
    BY <1>1, <1>2, PTL DEF Spec

\* Every variable of the collector keeps its type.
THEOREM TypeCorrectness == Spec => []TypeOK
  BY Invariance, PTL DEF IInv

\* The collector never reclaims a cell that a stack, a List, a protect count or
\* an interpreter leads to, but for an oversize cell that is not constructed
\* (Collector::collect).
THEOREM NoReachableCellIsLost == Spec => []ReachableAllocated
  BY Invariance, PTL DEF IInv

------------------------------------------------------------------------------
(* Calls of what is no cell.                                               *)

\* When every collection may run any destructor, constructed cells refer to
\* constructed cells only, reachable or not.
NoDangling == mainThread = NoThread => \A c \in Live : refs[c] \subseteq Live

\* A traversal that starts in a set of constructed cells without a way out
\* stays there, and does not end the model.
LEMMA MarkStaysInside ==
    ASSUME NEW T \in SUBSET Live, NEW S \in SUBSET T, Closed(T, refs),
           NEW next, Mark(S, next)
    PROVE  phase' = next
  <1>1. ASSUME NEW passed \in SUBSET (Cells \ Live)
        PROVE  Visited(S, passed) \subseteq Live
    <2> DEFINE stops == marked \cup passed
    <2>1. T \in SUBSET Cells /\ S \ stops \subseteq T
      BY DEF Live
    <2>2. Closed(T, [c \in Cells |-> refs[c] \ stops])
      BY <2>1 DEF Closed
    <2>3. Reach(S \ stops, [c \in Cells |-> refs[c] \ stops]) \subseteq T
      BY <2>1, <2>2, ReachLeast
    <2> QED
      BY <2>3 DEF Visited
  <1> QED
    BY <1>1 DEF Mark

\* Every step keeps the references of constructed cells among them.
LEMMA NoDanglingStep ==
    ASSUME IInv, NoDangling, [Next]_vars
    PROVE  NoDangling'
  <1> USE DEF IInv
  <1> SUFFICES ASSUME mainThread' = NoThread PROVE NoDangling'
    BY DEF NoDangling
  <1>0. mainThread' = mainThread
    <2>1. ASSUME NEW t \in Threads, Mutate(t)
          PROVE  mainThread' = mainThread
      BY <2>1 DEF Mutate, Allocate, Construct, Load, Forget, Protect, Unprotect,
           ListAppend, AddRoot, DropRoot, Store, Erase, Reprotect, DropLists,
           MutatorKeeps
    <2>2. ASSUME NEW t \in Threads, LockHeap(t) \/ UnlockHeap(t) \/ ExitThread(t)
          PROVE  mainThread' = mainThread
      BY <2>2 DEF LockHeap, UnlockHeap, ExitThread, heapVars
    <2>3. ASSUME NEW t \in Threads, BeginCollect(t)
          PROVE  mainThread' = mainThread
      BY <2>3 DEF BeginCollect, CollectorKeeps
    <2>4. CASE Collect
      BY <2>4 DEF Collect, MarkSelf, MarkOther, MarkedStacks, MarkHandles,
           CollectorKeeps, Sweep
    <2> QED
      BY <2>1, <2>2, <2>3, <2>4 DEF Next, vars
  <1>1. \A c \in Live : refs[c] \subseteq Live
    BY <1>0 DEF NoDangling
  <1>2. CASE UNCHANGED <<cell, refs>>
    BY <1>1, <1>2 DEF NoDangling, Live
  <1>3. ASSUME NEW t \in Threads, LockHeap(t) \/ UnlockHeap(t) \/ ExitThread(t)
        PROVE  NoDangling'
    BY <1>2, <1>3 DEF LockHeap, UnlockHeap, ExitThread, heapVars, mutatorVars
  <1>4. ASSUME NEW t \in Threads, Mutate(t)
        PROVE  NoDangling'
    <2>1. ASSUME NEW c \in Cells, Allocate(t, c) \/ Construct(t, c)
          PROVE  NoDangling'
      <3>1. refs' = refs /\ refs[c] = {}
        <4>1. cell[c] # "live"
          BY <2>1 DEF Allocate, Construct, Raw, Unread
        <4>2. refs[c] = {} /\ refs \in [Cells -> SUBSET Cells]
          BY <4>1 DEF ShapeInv, TypeOK
        <4> QED
          BY <2>1, <4>2 DEF Allocate, Construct, mutatorVars
      <3>2. Live \subseteq Live' /\ Live' \subseteq Live \cup {c}
        <4>1. c \notin Live /\ \A d \in Cells \ {c} : cell'[d] = cell[d]
          BY <2>1 DEF Allocate, Construct, Live, Raw, Unread, TypeOK
        <4> QED
          BY <4>1 DEF Live
      <3> QED
        BY <1>1, <3>1, <3>2 DEF NoDangling
    <2>2. ASSUME NEW c \in Cells, NEW d \in Cells, Store(t, c, d) \/ Erase(t, c, d)
          PROVE  NoDangling'
      <3>1. Live' = Live
        BY <2>2 DEF Store, Erase, Live
      <3>2. \A e \in Cells : refs'[e] \subseteq refs[e] \cup Live
        BY <2>2 DEF Store, Erase, Held, TypeOK
      <3> QED
        BY <1>1, <3>1, <3>2 DEF NoDangling, Live
    <2> QED
      BY <1>2, <1>4, <2>1, <2>2 DEF Mutate, Load, Forget, Protect, Unprotect,
            ListAppend, AddRoot, DropRoot, Reprotect, DropLists, mutatorVars
  <1>5. CASE CollectorKeeps
    BY <1>2, <1>5 DEF CollectorKeeps, mutatorVars
  <1>6. CASE Sweep
    <2>1. Garbage = Live \ marked /\ phase = "sweep"
      BY <1>0, <1>6 DEF Garbage, OnCollectionThread, Sweep
    <2>2. Live' = Live \cap marked
      BY <1>6, <2>1 DEF Sweep, Live, Unread
    <2>3. \A c \in Live' : refs'[c] = refs[c]
      BY <1>6, <2>1, <2>2 DEF Sweep, Live
    <2> QED
      BY <1>1, <2>2, <2>3 DEF NoDangling, MarkInv, MarksClosed
  <1>7. CASE UNCHANGED vars
    BY <1>2, <1>7 DEF vars, mutatorVars
  <1> QED
    BY <1>3, <1>4, <1>5, <1>6, <1>7 DEF Next, Collect, BeginCollect, MarkSelf,
          MarkOther, MarkedStacks, MarkHandles

\* The exceptions of CallsConstructed.
MayMiscall ==
    \/ stack[holder] \cap Unread # {}
    \/ mainThread # NoThread /\ MaxStray > 0

\* What handles and pointers on stacks lead to is constructed.
LEMMA RootsLeadToCells ==
    ASSUME IInv, phase # "undefined", NEW S \in SUBSET (Roots \cap Live),
           NEW next, Mark(S, next)
    PROVE  phase' = next
  <1>1. Roots \subseteq Reachable /\ Closed(Reachable, refs)
    BY RootsReachable DEF IInv
  <1>2. Closed(Reachable \cap Live, refs)
    BY <1>1 DEF Closed, IInv, ShapeInv
  <1>3. Reachable \cap Live \in SUBSET Live /\ S \in SUBSET (Reachable \cap Live)
    BY <1>1
  <1> QED
    BY <1>2, <1>3, MarkStaysInside

\* Stray words lead to cells that are not constructed only when one of the
\* exceptions applies.
LEMMA StacksLeadToCells ==
    ASSUME IInv, NoDangling, phase # "undefined", ~ MayMiscall,
           NEW t \in Threads, NEW next, ScanStack(t, next)
    PROVE  phase' = next
  <1>1. PICK stray \in SUBSET Cells :
          /\ Cardinality(stray) <= MaxStray
          /\ Mark((stack[t] \cup stray) \cap (Live \cup Unread), next)
    BY DEF ScanStack
  <1> DEFINE S == (stack[t] \cup stray) \cap (Live \cup Unread)
  <1>2. Unread = {}
    BY DEF MayMiscall, IInv, RawInv, Raw
  <1>3. Mark(S, next) /\ S \subseteq Live
    BY <1>1, <1>2
  <1>4. CASE mainThread = NoThread
    <2>1. Closed(Live, refs)
      BY <1>4 DEF NoDangling, Closed
    <2> HIDE DEF S
    <2> QED
      BY <1>3, <2>1, MarkStaysInside
  <1>5. CASE MaxStray = 0
    <2>1. IsFiniteSet(stray)
      BY CellsAssumption, FS_Subset
    <2>2. stray = {}
      BY <1>1, <1>5, <2>1, FS_EmptySet, FS_CardinalityType
    <2>3. S \in SUBSET (Roots \cap Live)
      BY <1>3, <2>2 DEF Roots
    <2> HIDE DEF S
    <2> QED
      BY <1>3, <2>3, RootsLeadToCells
  <1> QED
    BY <1>4, <1>5, BoundsAssumption DEF MayMiscall

\* mark() and the destructor are called on constructed cells only, but for the
\* oversize cell whose constructor the collecting thread has yet to run, and
\* for what garbage with an unsafe destructor referred to
\* (Collector::collect, markStackObjectsConservatively, JSObject::mark).
THEOREM CallsMeetConstructedCells == Spec => CallsConstructed
  <1> DEFINE Meets == phase # "undefined" /\ phase' = "undefined" => MayMiscall
  <1>1. Init => NoDangling
    BY DEF Init, NoDangling, Live
  <1>2. IInv /\ NoDangling /\ [Next]_vars => NoDangling'
    BY NoDanglingStep
  <1>3. IInv /\ NoDangling /\ [Next]_vars => [Meets]_vars
    <2> SUFFICES ASSUME IInv, NoDangling, Next, ~ MayMiscall,
                        phase # "undefined", phase' = "undefined"
                 PROVE  FALSE
      OBVIOUS
    <2>1. ASSUME NEW t \in Threads, BeginCollect(t)
          PROVE  FALSE
      <3>1. (UNION {roots[i] : i \in Interpreters}) \in SUBSET (Roots \cap Live)
        BY DEF Roots, IInv, ShapeInv, Handles
      <3> QED
        BY <2>1, <3>1, RootsLeadToCells DEF BeginCollect
    <2>2. ASSUME NEW t \in Threads, MarkOther(t)
          PROVE  FALSE
      BY <2>2, StacksLeadToCells DEF MarkOther
    <2>3. CASE MarkSelf
      <3>1. holder \in Threads
        BY <2>3 DEF MarkSelf, IInv, LockInv, TypeOK, LockTypeOK
      <3> QED
        BY <2>3, <3>1, StacksLeadToCells DEF MarkSelf
    <2>4. CASE MarkHandles
      <3>1. Protected \cup (UNION {lists[t] : t \in Threads}) \in SUBSET (Roots \cap Live)
        BY DEF Roots, IInv, ShapeInv, Handles
      <3> QED
        BY <2>4, <3>1, RootsLeadToCells DEF MarkHandles
    <2>5. CASE Sweep
      <3>1. Unread # {}
        BY <2>5 DEF Sweep
      <3> QED
        BY <3>1 DEF MayMiscall, IInv, RawInv, Raw
    <2>6. CASE MarkedStacks
      BY <2>6 DEF MarkedStacks
    <2>7. ASSUME NEW t \in Threads,
                 LockHeap(t) \/ UnlockHeap(t) \/ ExitThread(t) \/ Mutate(t)
          PROVE  FALSE
      BY <2>7 DEF LockHeap, UnlockHeap, ExitThread, heapVars, collectVars, Mutate,
            Allocate, Construct, Load, Forget, Protect, Unprotect, ListAppend,
            AddRoot, DropRoot, Store, Erase, Reprotect, DropLists, MutatorKeeps
    <2> QED
      BY <2>1, <2>2, <2>3, <2>4, <2>5, <2>6, <2>7 DEF Next, Collect
  <1> QED
    BY <1>1, <1>2, <1>3, Invariance, PTL DEF Spec, CallsConstructed, MayMiscall
==============================================================================
