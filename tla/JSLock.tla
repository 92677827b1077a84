------------------------------- MODULE JSLock --------------------------------
(***************************************************************************)
(* The interpreter lock of kjs/JSLock.cpp and the thread registry of       *)
(* kjs/collector.cpp, step by step.  The lock is a recursive pthread mutex *)
(* with a global counter beside it that anyone may read at any time; the   *)
(* first lock of a thread pushes a record on the linked list               *)
(* registeredThreads.  The record is unlinked by the destructor of the     *)
(* thread-specific datum, which pthreads runs when the thread ends and     *)
(* which takes no lock.                                                    *)
(***************************************************************************)
EXTENDS Naturals, Sequences, FiniteSets

CONSTANTS
    Threads,          \* the native threads; an ended one may be born again
    NoThread,         \* a null pointer, "no owner"
    MaxDepth,         \* bound on the nesting of locks
    MaxDrops,         \* bound on the nesting of DropAllLocks scopes
    ExitsSerialised   \* TRUE if the embedder ends its threads only while no
                      \* thread is in the lock and no other thread is ending

ASSUME ThreadsAssumption == IsFiniteSet(Threads)
ASSUME NoThreadAssumption == NoThread \notin Threads
ASSUME BoundsAssumption == MaxDepth \in Nat \ {0} /\ MaxDrops \in Nat
ASSUME ExitsSerialisedAssumption == ExitsSerialised \in BOOLEAN

VARIABLES
    mutexOwner, mutexCount,  \* interpreterLock, a recursive mutex
    lockCount,               \* interpreterLockCount
    pc,                      \* where each thread is
    todo,                    \* iterations left of its lock or unlock loop
    then,                    \* why it runs that loop, and what comes after
    saved,                   \* its DropAllLocks scopes, innermost first
    head, next,              \* registeredThreads and the records' next fields
    key,                     \* the threads whose thread-specific datum is set
    last                     \* the local "last" of destroyRegisteredThread

mutexVars == <<mutexOwner, mutexCount, lockCount>>
callVars  == <<todo, then, saved>>
listVars  == <<head, next, key, last>>
vars      == <<mutexVars, pc, callVars, listVars>>

Locking   == {"acquire", "count", "link", "publish"}
Unlocking == {"uncount", "release"}
Ending    == {"exitHead", "exitPop", "exitWalk", "exitFree"}

\* One DropAllLocks scope: the interface used, the number of locks it will
\* take again, and the depth the thread had when it was opened.
Scopes == [api : {"C++", "C"}, n : 0 .. MaxDepth, was : 0 .. MaxDepth]

TypeOK ==
    /\ mutexOwner \in Threads \cup {NoThread}
    /\ mutexCount \in 0 .. MaxDepth + 1
    /\ lockCount \in 0 .. MaxDepth + 1
    /\ pc \in [Threads -> {"idle", "dropAll", "recover"} \cup Locking
                              \cup Unlocking \cup Ending]
    /\ todo \in [Threads -> 0 .. MaxDepth + 1]
    /\ then \in [Threads -> {"return", "dropAll", "restore", "dropped"}]
    /\ \A t \in Threads : saved[t] \in Seq(Scopes) /\ Len(saved[t]) <= MaxDrops
    /\ head \in Threads \cup {NoThread}
    /\ next \in [Threads -> Threads \cup {NoThread}]
    /\ key \subseteq Threads
    /\ last \in [Threads -> Threads \cup {NoThread}]

Init ==
    /\ mutexOwner = NoThread /\ mutexCount = 0 /\ lockCount = 0
    /\ pc = [t \in Threads |-> "idle"]
    /\ todo = [t \in Threads |-> 0]
    /\ then = [t \in Threads |-> "return"]
    /\ saved = [t \in Threads |-> <<>>]
    /\ head = NoThread
    /\ next = [t \in Threads |-> NoThread]
    /\ key = {}
    /\ last = [t \in Threads |-> NoThread]

Goto(t, where) == pc' = [pc EXCEPT ![t] = where]

DepthOf(t) == IF mutexOwner = t THEN mutexCount ELSE 0

------------------------------------------------------------------------------
(* JSLock::lock, as one iteration of a loop that takes todo[t] locks.      *)

StartLocking(t, n, after) ==
    /\ todo' = [todo EXCEPT ![t] = n]
    /\ then' = [then EXCEPT ![t] = after]
    /\ Goto(t, "acquire")

CallLock(t) ==
    /\ pc[t] = "idle"
    /\ DepthOf(t) < MaxDepth
    /\ StartLocking(t, 1, "return")
    /\ UNCHANGED <<mutexVars, saved, listVars>>

\* pthread_mutex_lock.
AcquireMutex(t) ==
    /\ pc[t] = "acquire"
    /\ mutexOwner \in {NoThread, t}
    /\ ExitsSerialised => \A u \in Threads : pc[u] \notin Ending
    /\ mutexOwner' = t
    /\ mutexCount' = mutexCount + 1
    /\ Goto(t, "count")
    /\ UNCHANGED <<lockCount, callVars, listVars>>

\* The end of an iteration: the next lock, or what was to follow the last.
LockTaken(t) ==
    /\ todo' = [todo EXCEPT ![t] = @ - 1]
    /\ IF todo[t] > 1 THEN
           Goto(t, "acquire") /\ UNCHANGED <<then, saved>>
       ELSE
           /\ Goto(t, IF then[t] = "dropAll" THEN "dropAll" ELSE "idle")
           /\ then' = [then EXCEPT ![t] = "return"]
           /\ saved' = IF then[t] = "restore"
                       THEN [saved EXCEPT ![t] = Tail(@)] ELSE saved

\* interpreterLockCount++, and the test in Collector::registerThread.
CountLock(t) ==
    /\ pc[t] = "count"
    /\ lockCount' = lockCount + 1
    /\ IF t \in key THEN LockTaken(t)
                    ELSE Goto(t, "link") /\ UNCHANGED callVars
    /\ UNCHANGED <<mutexOwner, mutexCount, listVars>>

\* (Mutant: the new record is not linked to the others.)
LinkNothing(t) ==
    /\ pc[t] = "link"
    /\ Goto(t, "publish")
    /\ UNCHANGED <<mutexVars, callVars, listVars>>

\* thread->next = registeredThreads
LinkRecord(t) ==
    /\ pc[t] = "link"
    /\ next' = [next EXCEPT ![t] = head]
    /\ Goto(t, "publish")
    /\ UNCHANGED <<mutexVars, callVars, head, key, last>>

\* registeredThreads = thread; pthread_setspecific
PublishRecord(t) ==
    /\ pc[t] = "publish"
    /\ head' = t
    /\ key' = key \cup {t}
    /\ LockTaken(t)
    /\ UNCHANGED <<mutexVars, next, last>>

------------------------------------------------------------------------------
(* JSLock::unlock, likewise.                                               *)

StartUnlocking(t, n, after) ==
    /\ todo' = [todo EXCEPT ![t] = n]
    /\ then' = [then EXCEPT ![t] = after]
    /\ Goto(t, "uncount")

CallUnlock(t) ==
    /\ pc[t] = "idle"
    /\ mutexOwner = t
    /\ StartUnlocking(t, 1, "return")
    /\ UNCHANGED <<mutexVars, saved, listVars>>

\* (Mutant: only the outermost unlock counts.)
UncountOutermost(t) ==
    /\ pc[t] = "uncount"
    /\ lockCount' = IF mutexCount = 1 THEN 0 ELSE lockCount
    /\ Goto(t, "release")
    /\ UNCHANGED <<mutexOwner, mutexCount, callVars, listVars>>

\* interpreterLockCount--, still under the mutex.
UncountLock(t) ==
    /\ pc[t] = "uncount"
    /\ lockCount' = lockCount - 1
    /\ Goto(t, "release")
    /\ UNCHANGED <<mutexOwner, mutexCount, callVars, listVars>>

\* pthread_mutex_unlock.
ReleaseMutex(t) ==
    /\ pc[t] = "release"
    /\ mutexCount' = mutexCount - 1
    /\ mutexOwner' = IF mutexCount = 1 THEN NoThread ELSE t
    /\ todo' = [todo EXCEPT ![t] = @ - 1]
    /\ IF todo[t] > 1 THEN Goto(t, "uncount") /\ UNCHANGED then
       ELSE Goto(t, "idle") /\ then' = [then EXCEPT ![t] = "return"]
    /\ UNCHANGED <<lockCount, saved, listVars>>

------------------------------------------------------------------------------
(* DropAllLocks, in C++ by scope and in C by a pair of calls.              *)

OpenScope(t, s) == saved' = [saved EXCEPT ![t] = <<s>> \o @]

\* (Mutant: the loop runs once too often.)
DropAllLocksAndOne(t) ==
    /\ pc[t] = "idle"
    /\ mutexOwner = t
    /\ Len(saved[t]) < MaxDrops
    /\ OpenScope(t, [api |-> "C++", n |-> lockCount, was |-> mutexCount])
    /\ StartUnlocking(t, lockCount + 1, "dropped")
    /\ UNCHANGED <<mutexVars, listVars>>

\* JSLock::DropAllLocks::DropAllLocks, by a thread that is in the lock.
DropAllLocks(t) ==
    /\ pc[t] = "idle"
    /\ mutexOwner = t
    /\ Len(saved[t]) < MaxDrops
    /\ OpenScope(t, [api |-> "C++", n |-> lockCount, was |-> mutexCount])
    /\ StartUnlocking(t, lockCount, "dropped")
    /\ UNCHANGED <<mutexVars, listVars>>

\* JSLock::DropAllLocks::~DropAllLocks.
RestoreLocks(t) ==
    /\ pc[t] = "idle"
    /\ saved[t] # <<>> /\ Head(saved[t]).api = "C++"
    /\ mutexOwner # t
    /\ StartLocking(t, Head(saved[t]).n, "restore")
    /\ UNCHANGED <<mutexVars, saved, listVars>>

\* JSLockDropAllLocks takes one lock more before it reads the count.
CallDropAllLocks(t) ==
    /\ pc[t] = "idle"
    /\ Len(saved[t]) < MaxDrops
    /\ StartLocking(t, 1, "dropAll")
    /\ UNCHANGED <<mutexVars, saved, listVars>>

\* (Mutant: the lock it took itself is counted too.)
ReadWholeLockCount(t) ==
    /\ pc[t] = "dropAll"
    /\ OpenScope(t, [api |-> "C", n |-> lockCount, was |-> mutexCount - 1])
    /\ StartUnlocking(t, lockCount, "dropped")
    /\ UNCHANGED <<mutexVars, listVars>>

ReadLockCount(t) ==
    /\ pc[t] = "dropAll"
    /\ OpenScope(t, [api |-> "C", n |-> lockCount - 1, was |-> mutexCount - 1])
    /\ StartUnlocking(t, lockCount, "dropped")
    /\ UNCHANGED <<mutexVars, listVars>>

\* JSLockRecoverAllLocks: its ASSERT is evaluated at "recover".
CallRecoverAllLocks(t) ==
    /\ pc[t] = "idle"
    /\ saved[t] # <<>> /\ Head(saved[t]).api = "C"
    /\ mutexOwner # t
    /\ Goto(t, "recover")
    /\ UNCHANGED <<mutexVars, callVars, listVars>>

RecoverAllLocks(t) ==
    /\ pc[t] = "recover"
    /\ IF Head(saved[t]).n > 0 THEN
           StartLocking(t, Head(saved[t]).n, "restore") /\ UNCHANGED saved
       ELSE
           /\ saved' = [saved EXCEPT ![t] = Tail(@)]
           /\ Goto(t, "idle") /\ UNCHANGED <<todo, then>>
    /\ UNCHANGED <<mutexVars, listVars>>

------------------------------------------------------------------------------
(* destroyRegisteredThread, run by the ending thread without the lock.     *)

ThreadEnds(t) ==
    /\ pc[t] = "idle"
    /\ mutexOwner # t /\ saved[t] = <<>> /\ t \in key
    /\ ExitsSerialised => /\ mutexOwner = NoThread
                          /\ \A u \in Threads : pc[u] \notin Ending
    /\ Goto(t, "exitHead")
    /\ UNCHANGED <<mutexVars, callVars, listVars>>

\* if (registeredThreads == thread) ... else last = registeredThreads
ExitCompare(t) ==
    /\ pc[t] = "exitHead"
    /\ IF head = t THEN Goto(t, "exitPop") /\ UNCHANGED last
                   ELSE Goto(t, "exitWalk") /\ last' = [last EXCEPT ![t] = head]
    /\ UNCHANGED <<mutexVars, callVars, head, next, key>>

\* (Mutant: the list is emptied.)
ExitPopAll(t) ==
    /\ pc[t] = "exitPop"
    /\ head' = NoThread
    /\ Goto(t, "exitFree")
    /\ UNCHANGED <<mutexVars, callVars, next, key, last>>

\* registeredThreads = registeredThreads->next, reading the head again.
ExitPop(t) ==
    /\ pc[t] = "exitPop"
    /\ head # NoThread
    /\ head' = next[head]
    /\ Goto(t, "exitFree")
    /\ UNCHANGED <<mutexVars, callVars, next, key, last>>

\* One turn of the loop that looks for the record after last.
ExitWalk(t) ==
    /\ pc[t] = "exitWalk"
    /\ last[t] # NoThread
    /\ LET cur == next[last[t]] IN
        \/ /\ cur = t
           /\ next' = [next EXCEPT ![last[t]] = next[t]]
           /\ Goto(t, "exitFree") /\ UNCHANGED last
        \/ /\ cur = NoThread
           /\ Goto(t, "exitFree") /\ UNCHANGED <<next, last>>
        \/ /\ cur \notin {t, NoThread}
           /\ last' = [last EXCEPT ![t] = cur]
           /\ UNCHANGED <<pc, next>>
    /\ UNCHANGED <<mutexVars, callVars, head, key>>

\* delete thread; the datum is gone with the thread.
ExitFree(t) ==
    /\ pc[t] = "exitFree"
    /\ key' = key \ {t}
    /\ next' = [next EXCEPT ![t] = NoThread]
    /\ last' = [last EXCEPT ![t] = NoThread]
    /\ Goto(t, "idle")
    /\ UNCHANGED <<mutexVars, callVars, head>>

------------------------------------------------------------------------------
LockSteps(t) ==
    CallLock(t) \/ AcquireMutex(t) \/ CountLock(t) \/ LinkRecord(t)
        \/ PublishRecord(t)

UnlockSteps(t) == CallUnlock(t) \/ UncountLock(t) \/ ReleaseMutex(t)

DropSteps(t) ==
    DropAllLocks(t) \/ RestoreLocks(t) \/ CallDropAllLocks(t)
        \/ ReadLockCount(t) \/ CallRecoverAllLocks(t) \/ RecoverAllLocks(t)

ExitSteps(t) ==
    ThreadEnds(t) \/ ExitCompare(t) \/ ExitPop(t) \/ ExitWalk(t) \/ ExitFree(t)

Next ==
    \E t \in Threads :
        LockSteps(t) \/ UnlockSteps(t) \/ DropSteps(t) \/ ExitSteps(t)

Spec == Init /\ [][Next]_vars

------------------------------------------------------------------------------
(* Properties.                                                             *)

\* The records on the list: those that next leads to from head.
Chain[n \in 0 .. Cardinality(Threads)] ==
    IF n = 0 THEN {head} \ {NoThread}
    ELSE Chain[n - 1] \cup ({next[t] : t \in Chain[n - 1]} \ {NoThread})
Linked == Chain[Cardinality(Threads)]

InLock(t) == mutexOwner = t /\ pc[t] \in {"idle", "dropAll"} \cup Unlocking

\* The counter that anyone may read, and that DropAllLocks relies on, agrees
\* with the mutex but for the one step of its owner between the two: it is
\* never above the number of locks held, and it is 0 when nobody is inside.
LockCountExact ==
    lockCount = mutexCount - (IF \E t \in Threads :
                                    mutexOwner = t /\ pc[t] \in {"count", "release"}
                              THEN 1 ELSE 0)

\* The collector, called by the thread in the lock, finds on the list every
\* thread that has taken the lock and has not begun to end: none of their
\* stacks is left out by markStackObjectsConservatively.  JSLock.h:33-36 asks
\* for the lock to be held by whoever changes such shared state.
RegistryComplete ==
    (\E t \in Threads : InLock(t)) =>
        {t \in key : pc[t] \notin Ending} \subseteq Linked

\* DropAllLocks and what ends its scope are exact, in C++ and in C: the thread
\* leaves the lock altogether, and comes back exactly as deep as it was.
DropsAndRestores ==
    [][\A t \in Threads :
        /\ Len(saved'[t]) < Len(saved[t]) =>
               DepthOf(t)' = Head(saved[t]).was
        /\ then[t] = "dropped" /\ pc'[t] = "idle" => DepthOf(t)' = 0]_vars

\* JSLockRecoverAllLocks asserts that the lock count is 0 (JSLock.cpp:124).
RecoverAssert == \A t \in Threads : pc[t] = "recover" => lockCount = 0

\* Step by step, this is the lock and the registry of InterpreterLock.tla: a
\* lock counts from the moment the thread is registered too.
AbstractDepth ==
    mutexCount - (IF \E t \in Threads :
                        mutexOwner = t /\ pc[t] \in {"count", "link", "publish"}
                  THEN 1 ELSE 0)

Abstract == INSTANCE InterpreterLock WITH
    holder <- IF AbstractDepth = 0 THEN NoThread ELSE mutexOwner,
    depth <- AbstractDepth,
    registered <- Linked,
    MaxDepth <- MaxDepth + 1

ImplementsInterpreterLock == Abstract!LockSpec
==============================================================================
