--------------------------- MODULE InterpreterLock ---------------------------
(***************************************************************************)
(* What kjs/JSLock.cpp promises to the rest of the interpreter: one        *)
(* recursive lock, and a registry that names every thread which has ever   *)
(* taken the lock and has not ended.  The collector scans the stacks of    *)
(* the registered threads, so both halves matter to it.  JSLock.tla shows  *)
(* how the code achieves this; Collector.tla is built on top of it.        *)
(***************************************************************************)
EXTENDS Naturals

CONSTANTS
    Threads,    \* the native threads of the program
    NoThread,   \* "nobody"; also the value 0 of a pthread_t
    MaxDepth    \* bound on the nesting of the recursive lock

ASSUME NoThreadAssumption == NoThread \notin Threads
ASSUME MaxDepthAssumption == MaxDepth \in Nat \ {0}

VARIABLES
    holder,      \* the thread inside the lock
    depth,       \* how often it has locked it
    registered   \* the threads whose stacks the collector will scan

lockVars == <<holder, depth, registered>>

LockTypeOK ==
    /\ holder \in Threads \cup {NoThread}
    /\ depth \in 0 .. MaxDepth
    /\ registered \subseteq Threads

LockInit ==
    /\ holder = NoThread
    /\ depth = 0
    /\ registered = {}

\* JSLock::lock: the first lock of a thread also registers it.
Lock(t) ==
    /\ holder \in {NoThread, t}
    /\ depth < MaxDepth
    /\ holder' = t
    /\ depth' = depth + 1
    /\ registered' = registered \cup {t}

\* JSLock::unlock: the last of the nested unlocks lets others in.
Unlock(t) ==
    /\ holder = t
    /\ depth' = depth - 1
    /\ holder' = IF depth = 1 THEN NoThread ELSE t
    /\ UNCHANGED registered

\* The thread ends: the destructor of its thread-specific datum takes it
\* off the registry, whoever holds the lock at that moment.
Exit(t) ==
    /\ holder # t
    /\ t \in registered
    /\ registered' = registered \ {t}
    /\ UNCHANGED <<holder, depth>>

LockNext == \E t \in Threads : Lock(t) \/ Unlock(t) \/ Exit(t)

LockSpec == LockInit /\ [][LockNext]_lockVars
==============================================================================
