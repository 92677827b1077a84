---------------------------- MODULE JSLockProofs -----------------------------
(***************************************************************************)
(* The counter beside the interpreter lock is exact, and dropping all locks *)
(* and taking them again is exact, for any set of threads and any nesting.  *)
(*                                                                          *)
(* The invariant says where each thread is: a thread in the middle of a     *)
(* loop of unlocks owns the mutex as often as the loop has turns left, and  *)
(* one in the middle of a loop of locks lacks as many to the depth it had   *)
(* when it opened its innermost scope.                                      *)
(***************************************************************************)
EXTENDS JSLock, InductionLemmas, SequenceTheorems, TLAPS

\* A scope that takes as many locks again as the thread had.  The loop of the
\* C++ destructor has at least one turn.
ExactScopes == {s \in Scopes : s.n = s.was /\ (s.api = "C++" => s.n > 0)}

Types ==
    /\ mutexOwner \in Threads \cup {NoThread}
    /\ mutexCount \in 0 .. MaxDepth + 1
    /\ lockCount \in 0 .. MaxDepth + 1
    /\ pc \in [Threads -> {"idle", "dropAll", "recover"} \cup Locking
                              \cup Unlocking \cup Ending]
    /\ todo \in [Threads -> 0 .. MaxDepth + 1]
    /\ then \in [Threads -> {"return", "dropAll", "restore", "dropped"}]
    /\ saved \in [Threads -> Seq(ExactScopes)]
    /\ \A t \in Threads : Len(saved[t]) <= MaxDrops

ListTypes ==
    /\ head \in Threads \cup {NoThread}
    /\ next \in [Threads -> Threads \cup {NoThread}]
    /\ key \subseteq Threads
    /\ last \in [Threads -> Threads \cup {NoThread}]

\* The mutex is counted, and lockCount is one behind while its owner is between
\* the two.
Between == mutexOwner # NoThread /\ pc[mutexOwner] \in {"count", "release"}

Counted ==
    /\ mutexOwner = NoThread <=> mutexCount = 0
    /\ ~Between => lockCount = mutexCount
    /\ Between => lockCount = mutexCount - 1

\* A thread between two calls, or at an ending or a recovery.
Resting(t) ==
    /\ pc[t] \in {"idle", "dropAll", "recover"} \cup Ending => then[t] = "return"
    /\ pc[t] = "idle" => (mutexOwner = t => mutexCount <= MaxDepth)
    /\ pc[t] = "dropAll" => mutexOwner = t /\ Len(saved[t]) < MaxDrops
    /\ pc[t] = "recover" => mutexOwner # t /\ saved[t] # <<>>
    /\ pc[t] \in Ending => mutexOwner # t

\* A thread that is about to take a lock.
Entering(t) ==
    pc[t] = "acquire" =>
        /\ todo[t] > 0
        /\ then[t] = "return" => todo[t] = 1 /\ DepthOf(t) < MaxDepth
        /\ then[t] = "dropAll" => todo[t] = 1 /\ DepthOf(t) <= MaxDepth /\ Len(saved[t]) < MaxDrops
        /\ then[t] = "restore" => saved[t] # <<>> /\ DepthOf(t) + todo[t] = Head(saved[t]).was
        /\ then[t] # "dropped"

\* A thread that has the mutex and is about to count it and register.
Entered(t) ==
    pc[t] \in {"count", "link", "publish"} =>
        /\ mutexOwner = t
        /\ todo[t] > 0
        /\ then[t] = "return" => todo[t] = 1 /\ mutexCount <= MaxDepth
        /\ then[t] = "dropAll" => todo[t] = 1 /\ Len(saved[t]) < MaxDrops
        /\ then[t] = "restore" => saved[t] # <<>> /\ mutexCount + todo[t] = Head(saved[t]).was + 1
        /\ then[t] # "dropped"

\* A thread that is about to release a lock.
Leaving(t) ==
    pc[t] \in Unlocking =>
        /\ mutexOwner = t
        /\ todo[t] > 0
        /\ then[t] \in {"return", "dropped"}
        /\ then[t] = "return" => todo[t] = 1 /\ mutexCount <= MaxDepth
        /\ then[t] = "dropped" => todo[t] = mutexCount

Control(t) == Resting(t) /\ Entering(t) /\ Entered(t) /\ Leaving(t)

IInv == Types /\ ListTypes /\ Counted /\ (\A t \in Threads : Control(t))

------------------------------------------------------------------------------
(* Facts that the steps share.                                             *)

\* Opening a scope puts it in front of the others.
LEMMA PushScope ==
    ASSUME NEW q \in Seq(ExactScopes), NEW s \in ExactScopes
    PROVE  /\ <<s>> \o q \in Seq(ExactScopes)
           /\ Len(<<s>> \o q) = Len(q) + 1
  <1>1. <<s>> \in Seq(ExactScopes) /\ Len(<<s>>) = 1
    OBVIOUS
  <1> QED
    BY <1>1, ConcatProperties

\* Closing one leaves the others.
LEMMA PopScope ==
    ASSUME NEW q \in Seq(ExactScopes), q # <<>>
    PROVE  /\ Tail(q) \in Seq(ExactScopes)
           /\ Len(Tail(q)) = Len(q) - 1
           /\ Head(q) \in ExactScopes
  BY HeadTailProperties

\* The only step of a thread that another one notices is taking or leaving the
\* mutex, and the other one has no part in that.
OnlyMoves(t) ==
    \A u \in Threads \ {t} :
        /\ pc'[u] = pc[u] /\ todo'[u] = todo[u] /\ then'[u] = then[u] /\ saved'[u] = saved[u]
        /\ mutexOwner' = u <=> mutexOwner = u
        /\ mutexOwner = u => mutexCount' = mutexCount

LEMMA OthersKeep ==
    ASSUME NEW t \in Threads, \A u \in Threads : Control(u), OnlyMoves(t), Control(t)'
    PROVE  (\A u \in Threads : Control(u))'
  <1> SUFFICES ASSUME NEW u \in Threads \ {t}
               PROVE  Control(u)'
    OBVIOUS
  <1>1. Control(u) /\ u \in Threads
    OBVIOUS
  <1>2. /\ pc'[u] = pc[u] /\ todo'[u] = todo[u] /\ then'[u] = then[u] /\ saved'[u] = saved[u]
        /\ mutexOwner' = u <=> mutexOwner = u
        /\ mutexOwner = u => mutexCount' = mutexCount
    BY DEF OnlyMoves
  <1> QED
    BY <1>1, <1>2 DEF Control, Resting, Entering, Entered, Leaving, DepthOf

\* What a step of t may assume about t.
LEMMA AtThread ==
    ASSUME IInv, NEW t \in Threads
    PROVE  Types /\ ListTypes /\ Counted /\ Control(t)
  BY DEF IInv

------------------------------------------------------------------------------
(* Taking locks.                                                           *)

LEMMA CallLockStep ==
    ASSUME IInv, NEW t \in Threads, CallLock(t)
    PROVE  IInv'
  <1> USE BoundsAssumption, NoThreadAssumption
  <1>1. Types' /\ ListTypes'
    <2>1. Types /\ ListTypes
      BY AtThread
    <2>2. /\ pc' = [pc EXCEPT ![t] = "acquire"] /\ todo' = [todo EXCEPT ![t] = 1]
          /\ then' = [then EXCEPT ![t] = "return"]
          /\ UNCHANGED <<mutexOwner, mutexCount, lockCount, saved, head, next, key, last>>
      BY DEF CallLock, StartLocking, Goto, mutexVars, listVars
    <2>3. todo' \in [Threads -> 0 .. MaxDepth + 1]
      BY <2>1, <2>2 DEF Types
    <2>4. ListTypes'
      BY <2>1, <2>2 DEF ListTypes
    <2> QED
      BY <2>1, <2>2, <2>3, <2>4 DEF Types, Locking
  <1>2. Counted'
    BY AtThread DEF CallLock, StartLocking, Goto, Types, mutexVars, Counted, Between
  <1>3. Control(t)'
    BY AtThread DEF CallLock, StartLocking, Goto, Types, mutexVars, DepthOf,
                    Control, Resting, Entering, Entered, Leaving, Unlocking, Ending
  <1>4. OnlyMoves(t)
    BY AtThread DEF CallLock, StartLocking, Goto, Types, mutexVars, OnlyMoves
  <1> QED
    BY <1>1, <1>2, <1>3, <1>4, OthersKeep DEF IInv

LEMMA AcquireMutexStep ==
    ASSUME IInv, NEW t \in Threads, AcquireMutex(t)
    PROVE  IInv'
  <1> USE BoundsAssumption, NoThreadAssumption
  <1>1. /\ pc[t] = "acquire" /\ pc'[t] = "count"
        /\ mutexOwner' = t /\ mutexCount' = mutexCount + 1
        /\ UNCHANGED <<lockCount, todo, then, saved>>
    BY AtThread DEF AcquireMutex, Goto, Types, callVars
  <1>2. lockCount = mutexCount /\ DepthOf(t) = mutexCount /\ mutexCount \in Nat
    <2>1. mutexOwner \in {NoThread, t} /\ t # NoThread
      BY DEF AcquireMutex
    <2>2. Counted /\ mutexCount \in 0 .. MaxDepth + 1
      BY AtThread DEF Types
    <2>3. ~Between
      BY <1>1, <2>1 DEF Between
    <2>4. lockCount = mutexCount /\ (mutexOwner = NoThread => mutexCount = 0)
      BY <2>2, <2>3 DEF Counted
    <2> QED
      BY <2>1, <2>2, <2>4 DEF DepthOf
  <1>3. mutexCount <= MaxDepth
    <2>1. CASE then[t] = "restore"
      <3>1. Head(saved[t]) \in ExactScopes
        BY <1>1, <2>1, AtThread, PopScope DEF Types, Control, Entering
      <3> QED
        BY <1>1, <1>2, <2>1, <3>1, AtThread DEF Types, Control, Entering, ExactScopes, Scopes
    <2>2. CASE then[t] # "restore"
      <3>1. then[t] \in {"return", "dropAll"}
        BY <1>1, <2>2, AtThread DEF Types, Control, Entering
      <3>2. DepthOf(t) <= MaxDepth
        BY <1>1, <1>2, <3>1, AtThread DEF Control, Entering
      <3> QED
        BY <1>2, <3>2
    <2> QED
      BY <2>1, <2>2
  <1>4. Types' /\ ListTypes'
    <2>1. Types /\ ListTypes
      BY AtThread
    <2>2. pc' = [pc EXCEPT ![t] = "count"] /\ UNCHANGED <<head, next, key, last>>
      BY DEF AcquireMutex, Goto, listVars
    <2>3. mutexCount' \in 0 .. MaxDepth + 1
      BY <1>1, <1>2, <1>3
    <2>4. ListTypes'
      BY <2>1, <2>2 DEF ListTypes
    <2> QED
      BY <1>1, <2>1, <2>2, <2>3, <2>4 DEF Types, Locking
  <1>5. Counted'
    BY <1>1, <1>2 DEF Counted, Between
  <1>6. Control(t)'
    BY <1>1, <1>2, AtThread DEF Types, DepthOf,
       Control, Resting, Entering, Entered, Leaving, Unlocking, Ending
  <1>7. OnlyMoves(t)
    BY AtThread DEF AcquireMutex, Goto, Types, callVars, OnlyMoves
  <1> QED
    BY <1>4, <1>5, <1>6, <1>7, OthersKeep, AtThread DEF IInv

\* The end of a turn of the loop, when lock and counter agree.
LEMMA LockTakenStep ==
    ASSUME IInv, NEW t \in Threads, pc[t] \in {"count", "publish"}, LockTaken(t),
           UNCHANGED <<mutexOwner, mutexCount>>, lockCount' = mutexCount, ListTypes'
    PROVE  IInv'
  <1> USE BoundsAssumption, NoThreadAssumption
  <1>1. /\ mutexOwner = t /\ todo[t] > 0
        /\ then[t] \in {"return", "dropAll", "restore"}
        /\ then[t] # "restore" => todo[t] = 1
        /\ then[t] = "return" => mutexCount <= MaxDepth
        /\ then[t] = "restore" => saved[t] # <<>> /\ mutexCount + todo[t] = Head(saved[t]).was + 1
        /\ todo[t] \in Nat /\ todo[t] <= MaxDepth + 1 /\ mutexCount \in Nat
    BY AtThread DEF Control, Entered, Types
  <1>2. then[t] = "restore" => /\ Tail(saved[t]) \in Seq(ExactScopes)
                               /\ Len(Tail(saved[t])) <= MaxDrops
                               /\ Head(saved[t]).was \in 0 .. MaxDepth
    <2>1. saved[t] \in Seq(ExactScopes) /\ Len(saved[t]) <= MaxDrops
      BY AtThread DEF Types
    <2>2. Len(saved[t]) \in Nat
      BY <2>1, LenProperties
    <2>3. then[t] = "restore" => saved[t] # <<>>
      BY <1>1
    <2>4. then[t] = "restore" => /\ Head(saved[t]) \in ExactScopes
                                 /\ Tail(saved[t]) \in Seq(ExactScopes)
                                 /\ Len(Tail(saved[t])) = Len(saved[t]) - 1
      BY <2>1, <2>3, PopScope
    <2>5. MaxDrops \in Nat
      OBVIOUS
    <2> QED
      BY <2>1, <2>2, <2>4, <2>5 DEF ExactScopes, Scopes
  <1>3. CASE todo[t] > 1
    <2>1. /\ pc' = [pc EXCEPT ![t] = "acquire"] /\ todo' = [todo EXCEPT ![t] = @ - 1]
          /\ UNCHANGED <<then, saved>>
      BY <1>3 DEF LockTaken, Goto
    <2>2. Types'
      BY <1>1, <2>1, AtThread DEF Types, Locking
    <2>3. Counted'
      BY <1>1, <2>1, AtThread DEF Types, Counted, Between
    <2>4. then[t] = "restore" /\ todo[t] - 1 > 0
      BY <1>1, <1>3
    <2>5. /\ pc'[t] = "acquire" /\ todo'[t] = todo[t] - 1 /\ then'[t] = "restore"
          /\ saved'[t] = saved[t] /\ DepthOf(t)' = mutexCount
      BY <1>1, <2>1, <2>4, AtThread DEF Types, DepthOf
    <2>6. mutexCount + todo'[t] = Head(saved'[t]).was
      <3>1. Head(saved[t]).was \in 0 .. MaxDepth
        BY <1>2, <2>4
      <3>2. mutexCount + (todo[t] - 1) = Head(saved[t]).was
        <4>1. /\ mutexCount + todo[t] = Head(saved[t]).was + 1
              /\ todo[t] \in Nat /\ mutexCount \in Nat
          BY <1>1, <2>4
        <4> QED
          BY <3>1, <4>1
      <3> QED
        BY <2>5, <3>2
    <2>7. Control(t)'
      BY <1>1, <2>4, <2>5, <2>6
      DEF Control, Resting, Entering, Entered, Leaving, Unlocking, Ending
    <2>8. OnlyMoves(t)
      BY <2>1, AtThread DEF Types, OnlyMoves
    <2> QED
      BY <2>2, <2>3, <2>7, <2>8, OthersKeep, AtThread DEF IInv
  <1>4. CASE ~(todo[t] > 1)
    <2>1. /\ pc' = [pc EXCEPT ![t] = IF then[t] = "dropAll" THEN "dropAll" ELSE "idle"]
          /\ todo' = [todo EXCEPT ![t] = @ - 1]
          /\ then' = [then EXCEPT ![t] = "return"]
          /\ saved' = IF then[t] = "restore" THEN [saved EXCEPT ![t] = Tail(@)] ELSE saved
      BY <1>4 DEF LockTaken, Goto
    <2>2. saved' \in [Threads -> Seq(ExactScopes)] /\ \A u \in Threads : Len(saved'[u]) <= MaxDrops
      BY <1>2, <2>1, AtThread DEF Types
    <2>3. Types'
      <3>1. Types
        BY AtThread
      <3>2. todo' \in [Threads -> 0 .. MaxDepth + 1]
        BY <1>1, <2>1, <3>1 DEF Types
      <3>3. mutexCount' = mutexCount /\ lockCount' = mutexCount
        OBVIOUS
      <3> QED
        BY <1>1, <2>1, <2>2, <3>1, <3>2, <3>3 DEF Types
    <2>4. Counted'
      BY <1>1, <2>1, AtThread DEF Types, Counted, Between
    <2>5. mutexCount <= MaxDepth \/ then[t] = "dropAll"
      <3>1. CASE then[t] = "restore"
        <4>1. todo[t] = 1
          BY <1>1, <1>4
        <4>2. mutexCount = Head(saved[t]).was /\ Head(saved[t]).was \in 0 .. MaxDepth
          BY <1>1, <1>2, <3>1, <4>1
        <4> QED
          BY <4>2
      <3> QED
        BY <1>1, <3>1
    <2>6. Control(t)'
      BY <1>1, <2>1, <2>5, AtThread DEF Types, Control, Resting, Entering, Entered, Leaving,
         Unlocking, Ending
    <2>7. OnlyMoves(t)
      BY <2>1, AtThread DEF Types, OnlyMoves
    <2> QED
      BY <2>3, <2>4, <2>6, <2>7, OthersKeep, AtThread DEF IInv
  <1> QED
    BY <1>3, <1>4

LEMMA CountLockStep ==
    ASSUME IInv, NEW t \in Threads, CountLock(t)
    PROVE  IInv'
  <1> USE BoundsAssumption, NoThreadAssumption
  <1>1. /\ pc[t] = "count" /\ UNCHANGED <<mutexOwner, mutexCount, head, next, key, last>>
        /\ lockCount' = lockCount + 1
    BY DEF CountLock, listVars
  <1>2. mutexOwner = t /\ lockCount' = mutexCount /\ mutexCount \in 0 .. MaxDepth + 1
    BY <1>1, AtThread DEF Control, Entered, Counted, Between, Types
  <1>3. ListTypes'
    BY <1>1, AtThread DEF ListTypes
  <1>4. CASE t \in key
    BY <1>1, <1>2, <1>3, <1>4, LockTakenStep DEF CountLock
  <1>5. CASE t \notin key
    <2>1. pc' = [pc EXCEPT ![t] = "link"] /\ UNCHANGED <<todo, then, saved>>
      BY <1>5 DEF CountLock, Goto, callVars
    <2>2. Types'
      BY <1>1, <1>2, <2>1, AtThread DEF Types, Locking
    <2>3. Counted'
      BY <1>1, <1>2, <2>1, AtThread DEF Types, Counted, Between
    <2>4. Control(t)'
      BY <1>1, <2>1, AtThread DEF Types, Control, Resting, Entering, Entered, Leaving,
         Unlocking, Ending
    <2>5. OnlyMoves(t)
      BY <1>1, <2>1, AtThread DEF Types, OnlyMoves
    <2> QED
      BY <1>3, <2>2, <2>3, <2>4, <2>5, OthersKeep, AtThread DEF IInv
  <1> QED
    BY <1>4, <1>5

LEMMA LinkRecordStep ==
    ASSUME IInv, NEW t \in Threads, LinkRecord(t)
    PROVE  IInv'
  <1> USE BoundsAssumption, NoThreadAssumption
  <1>1. /\ pc[t] = "link" /\ pc' = [pc EXCEPT ![t] = "publish"]
        /\ UNCHANGED <<mutexOwner, mutexCount, lockCount, todo, then, saved>>
    BY DEF LinkRecord, Goto, mutexVars, callVars
  <1>2. mutexOwner = t
    BY <1>1, AtThread DEF Control, Entered
  <1>3. Types' /\ ListTypes'
    BY <1>1, AtThread DEF LinkRecord, Types, ListTypes, Locking
  <1>4. Counted'
    BY <1>1, <1>2, AtThread DEF Types, Counted, Between
  <1>5. Control(t)'
    BY <1>1, AtThread DEF Types, Control, Resting, Entering, Entered, Leaving, Unlocking, Ending
  <1>6. OnlyMoves(t)
    BY <1>1, AtThread DEF Types, OnlyMoves
  <1> QED
    BY <1>3, <1>4, <1>5, <1>6, OthersKeep, AtThread DEF IInv

LEMMA PublishRecordStep ==
    ASSUME IInv, NEW t \in Threads, PublishRecord(t)
    PROVE  IInv'
  <1>1. /\ pc[t] = "publish" /\ LockTaken(t)
        /\ UNCHANGED <<mutexOwner, mutexCount, lockCount, next, last>>
        /\ head' = t /\ key' = key \cup {t}
    BY DEF PublishRecord, mutexVars
  <1>2. lockCount' = mutexCount
    BY <1>1, NoThreadAssumption, AtThread DEF Control, Entered, Counted, Between
  <1>3. ListTypes'
    BY <1>1, AtThread DEF ListTypes
  <1> QED
    BY <1>1, <1>2, <1>3, LockTakenStep

------------------------------------------------------------------------------
(* Releasing locks.                                                        *)

\* A thread in the lock that starts a loop of unlocks, with the scope it opens.
LEMMA StartUnlockingStep ==
    ASSUME IInv, NEW t \in Threads, pc[t] \in {"idle", "dropAll"}, mutexOwner = t,
           NEW n \in {1, mutexCount}, NEW after \in {"return", "dropped"},
           after = "return" => n = 1 /\ pc[t] = "idle",
           after = "dropped" => n = mutexCount,
           StartUnlocking(t, n, after), UNCHANGED <<mutexVars, listVars>>,
           saved' \in [Threads -> Seq(ExactScopes)],
           \A u \in Threads : Len(saved'[u]) <= MaxDrops,
           \A u \in Threads \ {t} : saved'[u] = saved[u]
    PROVE  IInv'
  <1> USE BoundsAssumption, NoThreadAssumption
  <1>1. /\ pc' = [pc EXCEPT ![t] = "uncount"] /\ todo' = [todo EXCEPT ![t] = n]
        /\ then' = [then EXCEPT ![t] = after]
        /\ UNCHANGED <<mutexOwner, mutexCount, lockCount, head, next, key, last>>
    BY DEF StartUnlocking, Goto, mutexVars, listVars
  <1>2. mutexCount \in 0 .. MaxDepth + 1 /\ mutexCount # 0 /\ lockCount = mutexCount
    BY AtThread DEF Types, Counted, Between
  <1>3. Types' /\ ListTypes'
    BY <1>1, <1>2, AtThread DEF Types, ListTypes, Unlocking
  <1>4. Counted'
    BY <1>1, <1>2, AtThread DEF Types, Counted, Between
  <1>5. Control(t)'
    BY <1>1, <1>2, AtThread DEF Types, Control, Resting, Entering, Entered, Leaving, Ending
  <1>6. OnlyMoves(t)
    BY <1>1, AtThread DEF Types, OnlyMoves
  <1> QED
    BY <1>3, <1>4, <1>5, <1>6, OthersKeep, AtThread DEF IInv

LEMMA CallUnlockStep ==
    ASSUME IInv, NEW t \in Threads, CallUnlock(t)
    PROVE  IInv'
  <1>1. /\ pc[t] = "idle" /\ mutexOwner = t /\ saved' = saved
        /\ StartUnlocking(t, 1, "return") /\ UNCHANGED <<mutexVars, listVars>>
    BY DEF CallUnlock
  <1>2. /\ saved' \in [Threads -> Seq(ExactScopes)]
        /\ \A u \in Threads : Len(saved'[u]) <= MaxDrops
    BY <1>1, AtThread DEF Types
  <1> QED
    BY <1>1, <1>2, StartUnlockingStep

LEMMA UncountLockStep ==
    ASSUME IInv, NEW t \in Threads, UncountLock(t)
    PROVE  IInv'
  <1> USE BoundsAssumption, NoThreadAssumption
  <1>1. /\ pc[t] = "uncount" /\ pc' = [pc EXCEPT ![t] = "release"]
        /\ lockCount' = lockCount - 1
        /\ UNCHANGED <<mutexOwner, mutexCount, todo, then, saved, head, next, key, last>>
    BY DEF UncountLock, Goto, callVars, listVars
  <1>2. mutexOwner = t /\ lockCount = mutexCount /\ mutexCount # 0 /\ mutexCount \in 0 .. MaxDepth + 1
    BY <1>1, AtThread DEF Control, Leaving, Unlocking, Counted, Between, Types
  <1>3. Types' /\ ListTypes'
    BY <1>1, <1>2, AtThread DEF Types, ListTypes, Unlocking
  <1>4. Counted'
    BY <1>1, <1>2, AtThread DEF Types, Counted, Between
  <1>5. Control(t)'
    BY <1>1, AtThread DEF Types, Control, Resting, Entering, Entered, Leaving, Unlocking, Ending
  <1>6. OnlyMoves(t)
    BY <1>1, AtThread DEF Types, OnlyMoves
  <1> QED
    BY <1>3, <1>4, <1>5, <1>6, OthersKeep, AtThread DEF IInv

LEMMA ReleaseMutexStep ==
    ASSUME IInv, NEW t \in Threads, ReleaseMutex(t)
    PROVE  IInv'
  <1> USE BoundsAssumption, NoThreadAssumption
  <1>1. /\ pc[t] = "release" /\ mutexCount' = mutexCount - 1
        /\ mutexOwner' = IF mutexCount = 1 THEN NoThread ELSE t
        /\ todo' = [todo EXCEPT ![t] = @ - 1]
        /\ UNCHANGED <<lockCount, saved, head, next, key, last>>
    BY DEF ReleaseMutex, listVars
  <1>2. /\ mutexOwner = t /\ lockCount = mutexCount - 1 /\ mutexCount # 0
        /\ mutexCount \in 0 .. MaxDepth + 1
        /\ todo[t] > 0 /\ todo[t] \in 0 .. MaxDepth + 1
        /\ then[t] \in {"return", "dropped"}
        /\ then[t] = "return" => todo[t] = 1 /\ mutexCount <= MaxDepth
        /\ then[t] = "dropped" => todo[t] = mutexCount
    BY <1>1, AtThread DEF Control, Leaving, Unlocking, Counted, Between, Types
  <1>3. ListTypes'
    BY <1>1, AtThread DEF ListTypes
  <1>4. OnlyMoves(t)
    <2>1. /\ \A u \in Threads \ {t} : pc'[u] = pc[u] /\ then'[u] = then[u]
      BY AtThread DEF ReleaseMutex, Goto, Types
    <2> QED
      BY <1>1, <1>2, <2>1, AtThread DEF Types, OnlyMoves
  <1>5. CASE todo[t] > 1
    <2>1. pc' = [pc EXCEPT ![t] = "uncount"] /\ then' = then
      BY <1>5 DEF ReleaseMutex, Goto
    <2>2. then[t] = "dropped" /\ mutexCount > 1 /\ mutexOwner' = t
      BY <1>1, <1>2, <1>5
    <2>3. Types'
      BY <1>1, <1>2, <2>1, <2>2, AtThread DEF Types, Unlocking
    <2>4. Counted'
      <3>1. pc'[t] = "uncount"
        BY <2>1, AtThread DEF Types
      <3>2. mutexOwner' = t /\ mutexCount' # 0 /\ lockCount' = mutexCount'
        BY <1>1, <1>2, <2>2
      <3> QED
        BY <3>1, <3>2 DEF Counted, Between
    <2>5. /\ pc'[t] = "uncount" /\ then'[t] = "dropped" /\ todo'[t] = todo[t] - 1
          /\ todo'[t] > 0 /\ todo'[t] = mutexCount'
      BY <1>1, <1>2, <1>5, <2>1, <2>2, AtThread DEF Types
    <2>6. Control(t)'
      BY <2>2, <2>5 DEF Control, Resting, Entering, Entered, Leaving, Unlocking, Ending
    <2> QED
      BY <1>3, <1>4, <2>3, <2>4, <2>6, OthersKeep, AtThread DEF IInv
  <1>6. CASE ~(todo[t] > 1)
    <2>1. pc' = [pc EXCEPT ![t] = "idle"] /\ then' = [then EXCEPT ![t] = "return"]
      BY <1>6 DEF ReleaseMutex, Goto
    <2>2. todo[t] = 1 /\ mutexCount - 1 <= MaxDepth
      BY <1>2, <1>6
    <2>3. Types'
      BY <1>1, <1>2, <2>1, <2>2, AtThread DEF Types
    <2>4. pc'[t] = "idle" /\ then'[t] = "return"
      BY <2>1, AtThread DEF Types
    <2>5. Counted'
      BY <1>1, <1>2, <2>4 DEF Counted, Between
    <2>6. Control(t)'
      BY <1>1, <2>2, <2>4 DEF Control, Resting, Entering, Entered, Leaving, Unlocking, Ending
    <2> QED
      BY <1>3, <1>4, <2>3, <2>5, <2>6, OthersKeep, AtThread DEF IInv
  <1> QED
    BY <1>5, <1>6

------------------------------------------------------------------------------
(* Dropping all locks and taking them again.                               *)

LEMMA DropAllLocksStep ==
    ASSUME IInv, NEW t \in Threads, DropAllLocks(t)
    PROVE  IInv'
  <1> USE BoundsAssumption, NoThreadAssumption
  <1> DEFINE s == [api |-> "C++", n |-> lockCount, was |-> mutexCount]
  <1>1. /\ pc[t] = "idle" /\ mutexOwner = t /\ Len(saved[t]) < MaxDrops
        /\ saved' = [saved EXCEPT ![t] = <<s>> \o @]
        /\ StartUnlocking(t, lockCount, "dropped") /\ UNCHANGED <<mutexVars, listVars>>
    BY DEF DropAllLocks, OpenScope
  <1>2. lockCount = mutexCount /\ mutexCount # 0 /\ mutexCount \in 0 .. MaxDepth
    <2>1. pc[t] = "idle" /\ mutexOwner = t
      BY <1>1
    <2>2. mutexCount <= MaxDepth /\ mutexCount \in 0 .. MaxDepth + 1
      BY <2>1, AtThread DEF Control, Resting, Types
    <2>3. lockCount = mutexCount /\ mutexCount # 0
      BY <2>1, AtThread DEF Counted, Between
    <2> QED
      BY <2>2, <2>3
  <1>3. s \in ExactScopes
    BY <1>2 DEF ExactScopes, Scopes
  <1>4. /\ saved[t] \in Seq(ExactScopes) /\ Len(saved[t]) \in Nat
    BY AtThread, LenProperties DEF Types
  <1>5. <<s>> \o saved[t] \in Seq(ExactScopes) /\ Len(<<s>> \o saved[t]) <= MaxDrops
    BY <1>1, <1>3, <1>4, PushScope
  <1>6. /\ saved' \in [Threads -> Seq(ExactScopes)]
        /\ \A u \in Threads : Len(saved'[u]) <= MaxDrops
        /\ \A u \in Threads \ {t} : saved'[u] = saved[u]
    <2> HIDE DEF s
    <2> QED
      BY <1>1, <1>5, AtThread DEF Types
  <1> QED
    BY <1>1, <1>2, <1>6, StartUnlockingStep

LEMMA ReadLockCountStep ==
    ASSUME IInv, NEW t \in Threads, ReadLockCount(t)
    PROVE  IInv'
  <1> USE BoundsAssumption, NoThreadAssumption
  <1> DEFINE s == [api |-> "C", n |-> lockCount - 1, was |-> mutexCount - 1]
  <1>1. /\ pc[t] = "dropAll" /\ mutexOwner = t /\ Len(saved[t]) < MaxDrops
        /\ saved' = [saved EXCEPT ![t] = <<s>> \o @]
        /\ StartUnlocking(t, lockCount, "dropped") /\ UNCHANGED <<mutexVars, listVars>>
    BY AtThread DEF ReadLockCount, OpenScope, Control, Resting
  <1>2. lockCount = mutexCount /\ mutexCount # 0 /\ mutexCount \in 0 .. MaxDepth + 1
    BY <1>1, AtThread DEF Counted, Between, Types
  <1>3. s \in ExactScopes
    BY <1>2 DEF ExactScopes, Scopes
  <1>4. /\ saved[t] \in Seq(ExactScopes) /\ Len(saved[t]) \in Nat
    BY AtThread, LenProperties DEF Types
  <1>5. <<s>> \o saved[t] \in Seq(ExactScopes) /\ Len(<<s>> \o saved[t]) <= MaxDrops
    BY <1>1, <1>3, <1>4, PushScope
  <1>6. /\ saved' \in [Threads -> Seq(ExactScopes)]
        /\ \A u \in Threads : Len(saved'[u]) <= MaxDrops
        /\ \A u \in Threads \ {t} : saved'[u] = saved[u]
    <2> HIDE DEF s
    <2> QED
      BY <1>1, <1>5, AtThread DEF Types
  <1> QED
    BY <1>1, <1>2, <1>6, StartUnlockingStep

\* A thread outside the lock that starts to take its innermost scope's again.
LEMMA StartRestoringStep ==
    ASSUME IInv, NEW t \in Threads, pc[t] \in {"idle", "recover"}, mutexOwner # t,
           saved[t] # <<>>, Head(saved[t]).n > 0,
           StartLocking(t, Head(saved[t]).n, "restore"),
           UNCHANGED <<mutexVars, saved, listVars>>
    PROVE  IInv'
  <1> USE BoundsAssumption, NoThreadAssumption
  <1>1. /\ pc' = [pc EXCEPT ![t] = "acquire"]
        /\ todo' = [todo EXCEPT ![t] = Head(saved[t]).n]
        /\ then' = [then EXCEPT ![t] = "restore"]
        /\ UNCHANGED <<mutexOwner, mutexCount, lockCount, saved, head, next, key, last>>
    BY DEF StartLocking, Goto, mutexVars, listVars
  <1>2. Head(saved[t]) \in ExactScopes
    BY PopScope, AtThread DEF Types
  <1>3. /\ Head(saved[t]).n \in 0 .. MaxDepth
        /\ Head(saved[t]).was = Head(saved[t]).n
    BY <1>2 DEF ExactScopes, Scopes
  <1>4. Types' /\ ListTypes'
    <2>1. Types /\ ListTypes
      BY AtThread
    <2>2. ListTypes'
      BY <1>1, <2>1 DEF ListTypes
    <2>3. todo' \in [Threads -> 0 .. MaxDepth + 1]
      BY <1>1, <1>3, <2>1 DEF Types
    <2> QED
      BY <1>1, <2>1, <2>2, <2>3 DEF Types, Locking
  <1>5. Counted'
    BY <1>1, AtThread DEF Types, Counted, Between
  <1>6. /\ pc'[t] = "acquire" /\ todo'[t] = Head(saved[t]).n /\ then'[t] = "restore"
        /\ saved'[t] = saved[t] /\ DepthOf(t)' = 0
    BY <1>1, AtThread DEF Types, DepthOf
  <1>7. Control(t)'
    BY <1>3, <1>6 DEF Control, Resting, Entering, Entered, Leaving, Unlocking, Ending
  <1>8. OnlyMoves(t)
    BY <1>1, AtThread DEF Types, OnlyMoves
  <1> QED
    BY <1>4, <1>5, <1>7, <1>8, OthersKeep, AtThread DEF IInv

LEMMA RestoreLocksStep ==
    ASSUME IInv, NEW t \in Threads, RestoreLocks(t)
    PROVE  IInv'
  <1>1. Head(saved[t]) \in ExactScopes /\ Head(saved[t]).api = "C++"
    BY PopScope, AtThread DEF RestoreLocks, Types
  <1> QED
    BY <1>1, StartRestoringStep DEF RestoreLocks, ExactScopes

LEMMA CallDropAllLocksStep ==
    ASSUME IInv, NEW t \in Threads, CallDropAllLocks(t)
    PROVE  IInv'
  <1> USE BoundsAssumption, NoThreadAssumption
  <1>1. /\ pc[t] = "idle" /\ Len(saved[t]) < MaxDrops
        /\ pc' = [pc EXCEPT ![t] = "acquire"] /\ todo' = [todo EXCEPT ![t] = 1]
        /\ then' = [then EXCEPT ![t] = "dropAll"]
        /\ UNCHANGED <<mutexOwner, mutexCount, lockCount, saved, head, next, key, last>>
    BY DEF CallDropAllLocks, StartLocking, Goto, mutexVars, listVars
  <1>2. Types' /\ ListTypes'
    BY <1>1, AtThread DEF Types, ListTypes, Locking
  <1>3. Counted'
    BY <1>1, AtThread DEF Types, Counted, Between
  <1>4. /\ pc'[t] = "acquire" /\ todo'[t] = 1 /\ then'[t] = "dropAll"
        /\ saved'[t] = saved[t] /\ DepthOf(t)' <= MaxDepth
    BY <1>1, AtThread DEF Types, DepthOf, Control, Resting
  <1>5. Control(t)'
    BY <1>1, <1>4 DEF Control, Resting, Entering, Entered, Leaving, Unlocking, Ending
  <1>6. OnlyMoves(t)
    BY <1>1, AtThread DEF Types, OnlyMoves
  <1> QED
    BY <1>2, <1>3, <1>5, <1>6, OthersKeep, AtThread DEF IInv

LEMMA CallRecoverAllLocksStep ==
    ASSUME IInv, NEW t \in Threads, CallRecoverAllLocks(t)
    PROVE  IInv'
  <1> USE BoundsAssumption, NoThreadAssumption
  <1>1. /\ pc[t] = "idle" /\ mutexOwner # t /\ saved[t] # <<>>
        /\ pc' = [pc EXCEPT ![t] = "recover"]
        /\ UNCHANGED <<mutexOwner, mutexCount, lockCount, todo, then, saved, head, next, key, last>>
    BY DEF CallRecoverAllLocks, Goto, mutexVars, callVars, listVars
  <1>2. Types' /\ ListTypes'
    BY <1>1, AtThread DEF Types, ListTypes
  <1>3. Counted'
    BY <1>1, AtThread DEF Types, Counted, Between
  <1>4. Control(t)'
    BY <1>1, AtThread DEF Types, Control, Resting, Entering, Entered, Leaving, Unlocking, Ending
  <1>5. OnlyMoves(t)
    BY <1>1, AtThread DEF Types, OnlyMoves
  <1> QED
    BY <1>2, <1>3, <1>4, <1>5, OthersKeep, AtThread DEF IInv

LEMMA RecoverAllLocksStep ==
    ASSUME IInv, NEW t \in Threads, RecoverAllLocks(t)
    PROVE  IInv'
  <1> USE BoundsAssumption, NoThreadAssumption
  <1>1. pc[t] = "recover" /\ mutexOwner # t /\ saved[t] # <<>> /\ then[t] = "return"
    BY AtThread DEF RecoverAllLocks, Control, Resting
  <1>2. CASE Head(saved[t]).n > 0
    BY <1>1, <1>2, StartRestoringStep DEF RecoverAllLocks
  <1>3. CASE ~(Head(saved[t]).n > 0)
    <2>1. /\ saved' = [saved EXCEPT ![t] = Tail(@)] /\ pc' = [pc EXCEPT ![t] = "idle"]
          /\ UNCHANGED <<mutexOwner, mutexCount, lockCount, todo, then, head, next, key, last>>
      BY <1>3 DEF RecoverAllLocks, Goto, mutexVars, listVars
    <2>2. Tail(saved[t]) \in Seq(ExactScopes) /\ Len(Tail(saved[t])) <= MaxDrops
      <3>1. /\ saved[t] \in Seq(ExactScopes) /\ Len(saved[t]) \in Nat
            /\ Len(saved[t]) <= MaxDrops
        BY AtThread, LenProperties DEF Types
      <3> QED
        BY <1>1, <3>1, PopScope
    <2>3. Types' /\ ListTypes'
      BY <2>1, <2>2, AtThread DEF Types, ListTypes
    <2>4. Counted'
      BY <1>1, <2>1, AtThread DEF Types, Counted, Between
    <2>5. pc'[t] = "idle" /\ then'[t] = "return" /\ mutexOwner' # t
      BY <1>1, <2>1, AtThread DEF Types
    <2>6. Control(t)'
      BY <2>5 DEF Control, Resting, Entering, Entered, Leaving, Unlocking, Ending
    <2>7. OnlyMoves(t)
      BY <2>1, AtThread DEF Types, OnlyMoves
    <2> QED
      BY <2>3, <2>4, <2>6, <2>7, OthersKeep, AtThread DEF IInv
  <1> QED
    BY <1>2, <1>3

------------------------------------------------------------------------------
(* The end of a thread: only the list and the thread's own place change.   *)

LEMMA ExitStep ==
    ASSUME IInv, NEW t \in Threads,
           pc[t] \in {"idle"} \cup Ending, mutexOwner # t,
           NEW where \in {"idle"} \cup Ending, pc' = [pc EXCEPT ![t] = where],
           UNCHANGED <<mutexVars, callVars>>, ListTypes'
    PROVE  IInv'
  <1> USE BoundsAssumption, NoThreadAssumption
  <1>1. UNCHANGED <<mutexOwner, mutexCount, lockCount, todo, then, saved>>
    BY DEF mutexVars, callVars
  <1>2. Types'
    BY <1>1, AtThread DEF Types, Ending
  <1>3. Counted'
    BY <1>1, AtThread DEF Types, Counted, Between, Ending
  <1>4. pc'[t] = where /\ then'[t] = "return" /\ mutexOwner' # t
    BY <1>1, AtThread DEF Types, Control, Resting
  <1>5. Control(t)'
    BY <1>4 DEF Control, Resting, Entering, Entered, Leaving, Unlocking, Ending
  <1>6. OnlyMoves(t)
    BY <1>1, AtThread DEF Types, OnlyMoves
  <1> QED
    BY <1>2, <1>3, <1>5, <1>6, OthersKeep, AtThread DEF IInv

LEMMA ExitStepsStep ==
    ASSUME IInv, NEW t \in Threads, ExitSteps(t)
    PROVE  IInv'
  <1> USE NoThreadAssumption
  <1>1. pc[t] \in Ending => mutexOwner # t
    BY AtThread DEF Control, Resting
  <1>2. CASE ThreadEnds(t)
    <2>1. ListTypes'
      BY <1>2, AtThread DEF ThreadEnds, listVars, ListTypes
    <2> QED
      BY <1>2, <2>1, ExitStep DEF ThreadEnds, Goto, Ending
  <1>3. CASE ExitCompare(t)
    <2>1. ListTypes'
      BY <1>3, AtThread DEF ExitCompare, ListTypes
    <2>2. pc[t] \in Ending /\ \E where \in Ending : pc' = [pc EXCEPT ![t] = where]
      BY <1>3 DEF ExitCompare, Goto, Ending
    <2> QED
      BY <1>1, <1>3, <2>1, <2>2, ExitStep DEF ExitCompare
  <1>4. CASE ExitPop(t)
    <2>1. ListTypes'
      BY <1>4, AtThread DEF ExitPop, ListTypes
    <2> QED
      BY <1>1, <1>4, <2>1, ExitStep DEF ExitPop, Goto, Ending
  <1>5. CASE ExitWalk(t)
    <2>1. next[t] \in Threads \cup {NoThread} /\ next[last[t]] \in Threads \cup {NoThread}
      BY <1>5, AtThread DEF ExitWalk, ListTypes
    <2>2. ListTypes'
      BY <1>5, <2>1, AtThread DEF ExitWalk, ListTypes
    <2>3. pc[t] = "exitWalk" /\ \E where \in Ending : pc' = [pc EXCEPT ![t] = where]
      BY <1>5, AtThread DEF ExitWalk, Goto, Ending, Types
    <2> QED
      BY <1>1, <1>5, <2>2, <2>3, ExitStep DEF ExitWalk, Ending
  <1>6. CASE ExitFree(t)
    <2>1. ListTypes'
      BY <1>6, AtThread DEF ExitFree, ListTypes
    <2> QED
      BY <1>1, <1>6, <2>1, ExitStep DEF ExitFree, Goto, Ending
  <1> QED
    BY <1>2, <1>3, <1>4, <1>5, <1>6 DEF ExitSteps

------------------------------------------------------------------------------
(* The theorems.                                                           *)

LEMMA InitIInv == Init => IInv
  <1> SUFFICES ASSUME Init PROVE IInv
    OBVIOUS
  <1> USE BoundsAssumption, NoThreadAssumption DEF Init
  <1>1. Types
    <2>1. <<>> \in Seq(ExactScopes) /\ Len(<<>>) = 0
      BY EmptySeq
    <2>2. /\ saved \in [Threads -> Seq(ExactScopes)]
          /\ \A t \in Threads : Len(saved[t]) <= MaxDrops
      BY <2>1
    <2> QED
      BY <2>2 DEF Types
  <1>2. ListTypes
    BY DEF ListTypes
  <1>3. Counted
    BY DEF Counted, Between
  <1>4. \A t \in Threads : Control(t)
    BY DEF Control, Resting, Entering, Entered, Leaving, Unlocking, Ending
  <1> QED
    BY <1>1, <1>2, <1>3, <1>4 DEF IInv

LEMMA StepIInv == IInv /\ [Next]_vars => IInv'
  <1> SUFFICES ASSUME IInv, [Next]_vars
               PROVE  IInv'
    OBVIOUS
  <1>1. CASE UNCHANGED vars
    BY <1>1 DEF vars, mutexVars, callVars, listVars, IInv, Types, ListTypes, Counted, Between,
                Control, Resting, Entering, Entered, Leaving, DepthOf
  <1>2. CASE Next
    <2>1. PICK t \in Threads : LockSteps(t) \/ UnlockSteps(t) \/ DropSteps(t) \/ ExitSteps(t)
      BY <1>2 DEF Next
    <2>2. CASE LockSteps(t)
      BY <2>2, CallLockStep, AcquireMutexStep, CountLockStep, LinkRecordStep,
         PublishRecordStep DEF LockSteps
    <2>3. CASE UnlockSteps(t)
      BY <2>3, CallUnlockStep, UncountLockStep, ReleaseMutexStep DEF UnlockSteps
    <2>4. CASE DropSteps(t)
      BY <2>4, DropAllLocksStep, RestoreLocksStep, CallDropAllLocksStep, ReadLockCountStep,
         CallRecoverAllLocksStep, RecoverAllLocksStep DEF DropSteps
    <2>5. CASE ExitSteps(t)
      BY <2>5, ExitStepsStep
    <2> QED
      BY <2>1, <2>2, <2>3, <2>4, <2>5
  <1> QED
    BY <1>1, <1>2

\* The invariant above holds whatever the threads do, even if they end while
\* others are in the lock: the registry may suffer then, the lock does not.
THEOREM LockInvariance == Spec => []IInv
  BY InitIInv, StepIInv, PTL DEF Spec

\* The state of the lock, of the threads' calls and of the registry is typed:
\* no count goes below 0 (JSLock.cpp:56-72) or above the nesting of the calls.
THEOREM LockTypes == Spec => []TypeOK
  <1>1. IInv => TypeOK
    <2> SUFFICES ASSUME IInv PROVE TypeOK
      OBVIOUS
    <2>1. \A t \in Threads : saved[t] \in Seq(Scopes) /\ Len(saved[t]) <= MaxDrops
      <3>1. Seq(ExactScopes) \subseteq Seq(Scopes)
        BY SeqMonotonic DEF ExactScopes
      <3> QED
        BY <3>1 DEF IInv, Types
    <2> QED
      BY <2>1 DEF IInv, Types, ListTypes, TypeOK
  <1> QED
    BY <1>1, LockInvariance, PTL

\* The counter that DropAllLocks reads is the number of times the mutex is
\* held, but for the one step of its owner between the two.
THEOREM LockCountIsExact == Spec => []LockCountExact
  <1>1. IInv => LockCountExact
    <2> SUFFICES ASSUME IInv PROVE LockCountExact
      OBVIOUS
    <2>1. (\E t \in Threads : mutexOwner = t /\ pc[t] \in {"count", "release"}) <=> Between
      BY NoThreadAssumption DEF Between, IInv, Types
    <2> QED
      BY <2>1 DEF LockCountExact, IInv, Types, Counted
  <1> QED
    BY <1>1, LockInvariance, PTL

\* What DropsAndRestores says of one thread and one step.
ExactStep(t) ==
    /\ Len(saved'[t]) < Len(saved[t]) => DepthOf(t)' = Head(saved[t]).was
    /\ then[t] = "dropped" /\ pc'[t] = "idle" => DepthOf(t)' = 0

\* A step that neither closes a scope nor ends a loop of unlocks is exact.
LEMMA QuietIsExact ==
    ASSUME IInv, NEW t \in Threads, saved'[t] = saved[t],
           pc[t] \notin Unlocking \/ pc'[t] # "idle"
    PROVE  ExactStep(t)
  <1>1. Len(saved[t]) \in Nat
    BY AtThread, LenProperties DEF Types
  <1>2. then[t] = "dropped" => pc[t] \in Unlocking
    BY AtThread DEF Types, Control, Resting, Entering, Entered, Locking
  <1> QED
    BY <1>1, <1>2 DEF ExactStep

\* Opening a scope closes none, and starts a loop of unlocks.
LEMMA OpeningIsExact ==
    ASSUME IInv, NEW t \in Threads, NEW s, OpenScope(t, s), pc'[t] = "uncount"
    PROVE  ExactStep(t)
  <1>1. saved'[t] = <<s>> \o saved[t] /\ saved[t] \in Seq(ExactScopes)
    BY AtThread DEF OpenScope, Types
  <1>2. Len(saved'[t]) = Len(saved[t]) + 1 /\ Len(saved[t]) \in Nat
    BY <1>1
  <1> QED
    BY <1>2 DEF ExactStep

\* The last turn of a loop of locks that restores a scope reaches its depth.
LEMMA LockTakenIsExact ==
    ASSUME IInv, NEW t \in Threads, pc[t] \in {"count", "publish"}, LockTaken(t),
           UNCHANGED <<mutexOwner, mutexCount>>
    PROVE  ExactStep(t)
  <1>1. /\ mutexOwner = t /\ todo[t] > 0 /\ todo[t] \in Nat /\ mutexCount \in Nat
        /\ then[t] = "restore" => saved[t] # <<>> /\ mutexCount + todo[t] = Head(saved[t]).was + 1
    BY AtThread DEF Control, Entered, Types
  <1>2. CASE then[t] = "restore" /\ ~(todo[t] > 1)
    <2>1. todo[t] = 1 /\ Head(saved[t]).was \in Nat
      <3>1. Head(saved[t]) \in ExactScopes
        BY <1>1, <1>2, PopScope, AtThread DEF Types
      <3>2. Head(saved[t]).was \in Nat
        BY <3>1, BoundsAssumption DEF ExactScopes, Scopes
      <3> QED
        BY <1>1, <1>2, <3>2
    <2>2. DepthOf(t)' = Head(saved[t]).was
      BY <1>1, <1>2, <2>1 DEF DepthOf
    <2> QED
      BY <1>2, <2>2 DEF ExactStep
  <1>3. CASE ~(then[t] = "restore" /\ ~(todo[t] > 1))
    <2>1. saved'[t] = saved[t]
      BY <1>3, AtThread DEF LockTaken, Types
    <2> QED
      BY <2>1, QuietIsExact DEF Unlocking
  <1> QED
    BY <1>2, <1>3

LEMMA LockStepsAreExact ==
    ASSUME IInv, NEW t \in Threads, LockSteps(t)
    PROVE  ExactStep(t)
  <1>1. CASE CallLock(t)
    BY <1>1, QuietIsExact DEF CallLock, Unlocking
  <1>2. CASE AcquireMutex(t)
    BY <1>2, QuietIsExact DEF AcquireMutex, callVars, Unlocking
  <1>3. CASE CountLock(t)
    BY <1>3, LockTakenIsExact, QuietIsExact DEF CountLock, callVars, Unlocking
  <1>4. CASE LinkRecord(t)
    BY <1>4, QuietIsExact DEF LinkRecord, callVars, Unlocking
  <1>5. CASE PublishRecord(t)
    BY <1>5, LockTakenIsExact DEF PublishRecord, mutexVars
  <1> QED
    BY <1>1, <1>2, <1>3, <1>4, <1>5 DEF LockSteps

LEMMA UnlockStepsAreExact ==
    ASSUME IInv, NEW t \in Threads, UnlockSteps(t)
    PROVE  ExactStep(t)
  <1>1. CASE CallUnlock(t)
    BY <1>1, QuietIsExact DEF CallUnlock, Unlocking
  <1>2. CASE UncountLock(t)
    <2>1. pc'[t] # "idle"
      BY <1>2, AtThread DEF UncountLock, Goto, Types
    <2> QED
      BY <1>2, <2>1, QuietIsExact DEF UncountLock, callVars
  <1>3. CASE ReleaseMutex(t)
    <2>1. CASE todo[t] > 1
      <3>1. pc'[t] # "idle"
        BY <1>3, <2>1, AtThread DEF ReleaseMutex, Goto, Types
      <3> QED
        BY <1>3, <3>1, QuietIsExact DEF ReleaseMutex
    <2>2. CASE ~(todo[t] > 1)
      <3>1. /\ todo[t] > 0 /\ todo[t] \in Nat
            /\ then[t] = "dropped" => todo[t] = mutexCount
        BY <1>3, AtThread DEF ReleaseMutex, Control, Leaving, Unlocking, Types
      <3>2. then[t] = "dropped" => mutexOwner' = NoThread
        BY <1>3, <2>2, <3>1 DEF ReleaseMutex
      <3>3. then[t] = "dropped" => DepthOf(t)' = 0
        BY <3>2, NoThreadAssumption DEF DepthOf
      <3>4. saved' = saved /\ Len(saved[t]) \in Nat
        BY <1>3, AtThread, LenProperties DEF ReleaseMutex, Types
      <3> QED
        BY <3>3, <3>4 DEF ExactStep
    <2> QED
      BY <2>1, <2>2
  <1> QED
    BY <1>1, <1>2, <1>3 DEF UnlockSteps

LEMMA DropStepsAreExact ==
    ASSUME IInv, NEW t \in Threads, DropSteps(t)
    PROVE  ExactStep(t)
  <1>1. CASE DropAllLocks(t)
    <2>1. pc'[t] = "uncount"
      BY <1>1, AtThread DEF DropAllLocks, StartUnlocking, Goto, Types
    <2> QED
      BY <1>1, <2>1, OpeningIsExact DEF DropAllLocks
  <1>2. CASE ReadLockCount(t)
    <2>1. pc'[t] = "uncount"
      BY <1>2, AtThread DEF ReadLockCount, StartUnlocking, Goto, Types
    <2> QED
      BY <1>2, <2>1, OpeningIsExact DEF ReadLockCount
  <1>3. CASE RestoreLocks(t) \/ CallDropAllLocks(t)
    BY <1>3, QuietIsExact DEF RestoreLocks, CallDropAllLocks, Unlocking
  <1>4. CASE CallRecoverAllLocks(t)
    BY <1>4, QuietIsExact DEF CallRecoverAllLocks, callVars, Unlocking
  <1>5. CASE RecoverAllLocks(t)
    <2>1. pc[t] = "recover" /\ mutexOwner # t /\ saved[t] # <<>> /\ then[t] = "return"
      BY <1>5, AtThread DEF RecoverAllLocks, Control, Resting
    <2>2. CASE Head(saved[t]).n > 0
      BY <1>5, <2>1, <2>2, QuietIsExact DEF RecoverAllLocks, Unlocking
    <2>3. CASE ~(Head(saved[t]).n > 0)
      <3>1. Head(saved[t]).was = 0
        <4>1. Head(saved[t]) \in ExactScopes
          BY <2>1, PopScope, AtThread DEF Types
        <4> QED
          BY <2>3, <4>1 DEF ExactScopes, Scopes
      <3>2. DepthOf(t)' = 0
        BY <1>5, <2>1 DEF RecoverAllLocks, mutexVars, DepthOf
      <3> QED
        BY <2>1, <3>1, <3>2 DEF ExactStep
    <2> QED
      BY <2>2, <2>3
  <1> QED
    BY <1>1, <1>2, <1>3, <1>4, <1>5 DEF DropSteps

LEMMA ExitStepsAreExact ==
    ASSUME IInv, NEW t \in Threads, ExitSteps(t)
    PROVE  ExactStep(t)
  <1>1. saved' = saved /\ pc[t] \notin Unlocking
    BY DEF ExitSteps, ThreadEnds, ExitCompare, ExitPop, ExitWalk, ExitFree, callVars, Unlocking
  <1> QED
    BY <1>1, QuietIsExact

\* A step of one thread leaves the others where they are.
LEMMA OthersWait ==
    ASSUME IInv, NEW t \in Threads, NEW u \in Threads \ {t},
           LockSteps(t) \/ UnlockSteps(t) \/ DropSteps(t) \/ ExitSteps(t)
    PROVE  pc'[u] = pc[u] /\ saved'[u] = saved[u]
  <1>1. CASE LockSteps(t)
    BY <1>1, AtThread DEF LockSteps, CallLock, AcquireMutex, CountLock, LinkRecord, PublishRecord,
       LockTaken, StartLocking, Goto, callVars, Types
  <1>2. CASE UnlockSteps(t)
    BY <1>2, AtThread DEF UnlockSteps, CallUnlock, UncountLock, ReleaseMutex, StartUnlocking, Goto,
       callVars, Types
  <1>3. CASE DropSteps(t)
    BY <1>3, AtThread DEF DropSteps, DropAllLocks, RestoreLocks, CallDropAllLocks, ReadLockCount,
       CallRecoverAllLocks, RecoverAllLocks, StartLocking, StartUnlocking, OpenScope, Goto,
       callVars, Types
  <1>4. CASE ExitSteps(t)
    BY <1>4, AtThread DEF ExitSteps, ThreadEnds, ExitCompare, ExitPop, ExitWalk, ExitFree, Goto,
       callVars, Types
  <1> QED
    BY <1>1, <1>2, <1>3, <1>4

\* Dropping all locks leaves the lock altogether, and closing the scope comes
\* back to exactly the depth it was opened at, in C++ and in C (JSLock.cpp:77-128).
THEOREM DropsAreExact == Spec => DropsAndRestores
  <1> DEFINE Exact == \A t \in Threads :
        /\ Len(saved'[t]) < Len(saved[t]) => DepthOf(t)' = Head(saved[t]).was
        /\ then[t] = "dropped" /\ pc'[t] = "idle" => DepthOf(t)' = 0
  <1>1. IInv /\ [Next]_vars => [Exact]_vars
    <2> SUFFICES ASSUME IInv, Next, NEW u \in Threads
                 PROVE  ExactStep(u)
      BY DEF ExactStep
    <2>1. PICK t \in Threads : LockSteps(t) \/ UnlockSteps(t) \/ DropSteps(t) \/ ExitSteps(t)
      BY DEF Next
    <2>2. CASE u = t
      BY <2>1, <2>2, LockStepsAreExact, UnlockStepsAreExact, DropStepsAreExact, ExitStepsAreExact
    <2>3. CASE u # t
      <3>1. pc'[u] = pc[u] /\ saved'[u] = saved[u]
        BY <2>1, <2>3, OthersWait
      <3> QED
        BY <3>1, QuietIsExact DEF Unlocking
    <2> QED
      BY <2>2, <2>3
  <1> QED
    BY <1>1, LockInvariance, PTL DEF Spec, DropsAndRestores

------------------------------------------------------------------------------
(* The list registeredThreads is complete, and lock and list together are  *)
(* the lock of InterpreterLock.tla, if no thread ends while one is in the  *)
(* lock or ending (collector.cpp takes no lock around its changes of the   *)
(* list, and run lock_exit shows what is lost otherwise).  The invariant   *)
(* is the order of the records on the list.                                *)

\* The threads with a record on the list.
Filed == {t \in key : pc[t] # "exitFree"}

\* A thread that is about to file its record.
Filing(t) ==
    /\ pc[t] \in {"link", "publish"} => t \notin key
    /\ pc[t] = "publish" => next[t] = head

\* A thread that is ending has the list to itself.
Parting(t) ==
    /\ pc[t] \in Ending => /\ t \in key /\ mutexOwner = NoThread
                           /\ \A u \in Threads : pc[u] \in Ending => u = t
    /\ pc[t] = "exitPop" => head = t

\* last has not passed the record that the thread looks for.
Walking(t, n, s) ==
    pc[t] = "exitWalk" => \E i, j \in 1 .. n : i < j /\ s[i] = last[t] /\ s[j] = t

Ordered(n, s) ==
    /\ OnList(n, s, Filed, head, next, NoThread)
    /\ \A t \in Threads : Walking(t, n, s)

RInv ==
    /\ \A t \in Threads : Filing(t) /\ Parting(t)
    /\ \E n, s : Ordered(n, s)

------------------------------------------------------------------------------
(* Facts about lists.                                                      *)

\* The turns of Chain are well defined.
LEMMA ChainExists ==
    ASSUME ListTypes
    PROVE  /\ Cardinality(Threads) \in Nat
           /\ Chain[0] = {head} \ {NoThread}
           /\ \A m \in 1 .. Cardinality(Threads) :
                Chain[m] = Chain[m - 1] \cup ({next[t] : t \in Chain[m - 1]} \ {NoThread})
  <1> DEFINE N == Cardinality(Threads)
             A == SUBSET Threads
             base == {head} \ {NoThread}
             Turn(X) == X \cup ({next[t] : t \in X} \ {NoThread})
             step == [m \in 1 .. N |-> [X \in A |-> Turn(X)]]
             Walk(f) == f = [m \in 0 .. N |-> IF m = 0 THEN base
                                              ELSE f[m - 1] \cup ({next[t] : t \in f[m - 1]} \ {NoThread})]
  <1>1. N \in Nat
    BY ThreadsAssumption, FS_CardinalityType
  <1>2. base \in A /\ \A X \in A : Turn(X) \in A
    BY NoThreadAssumption DEF ListTypes
  <1>3. step \in [1 .. N -> [A -> A]]
    BY <1>2
  <1> HIDE DEF N
  <1>4. PICK f : Run(N, A, base, step, f)
    <2> HIDE DEF step, A, base, Turn
    <2> QED
      BY <1>1, <1>2, <1>3, Recursion
  <1>5. \A m \in 1 .. N : f[m] = Turn(f[m - 1])
    <2> SUFFICES ASSUME NEW m \in 1 .. N PROVE f[m] = Turn(f[m - 1])
      OBVIOUS
    <2>1. m - 1 \in 0 .. N
      BY <1>1
    <2>2. f[m - 1] \in A /\ f[m] = step[m][f[m - 1]]
      BY <1>4, <2>1 DEF Run
    <2> QED
      BY <2>2
  <1>6. Walk(f)
    <2>1. ASSUME NEW m \in 0 .. N
          PROVE  f[m] = IF m = 0 THEN base ELSE Turn(f[m - 1])
      <3> HIDE DEF Turn, base
      <3>1. m = 0 \/ m \in 1 .. N
        BY <1>1
      <3> QED
        BY <1>4, <1>5, <3>1 DEF Run
    <2>2. f = [m \in 0 .. N |-> f[m]]
      BY <1>4 DEF Run
    <2> QED
      BY <2>1, <2>2
  <1>7. Chain = CHOOSE g : Walk(g)
    BY DEF Chain, N
  <1>8. Walk(Chain)
    <2> HIDE DEF Walk
    <2> QED
      BY <1>6, <1>7
  <1>9. \A m \in 0 .. N : Chain[m] = IF m = 0 THEN base ELSE Turn(Chain[m - 1])
    <2> DEFINE g == Chain
    <2>1. Walk(g)
      BY <1>8
    <2> HIDE DEF g
    <2>2. \A m \in 0 .. N : g[m] = IF m = 0 THEN base ELSE Turn(g[m - 1])
      BY <2>1
    <2> QED
      BY <2>2 DEF g
  <1>10. 0 \in 0 .. N /\ \A m \in 1 .. N : m \in 0 .. N /\ m # 0
    BY <1>1
  <1> QED
    BY <1>1, <1>9, <1>10 DEF N

\* The records on a list are those that Chain collects.
LEMMA ChainOfList ==
    ASSUME ListTypes, NEW n \in Nat, NEW s \in [1 .. n -> Threads],
           NEW F, OnList(n, s, F, head, next, NoThread)
    PROVE  Linked = F
  <1> DEFINE N == Cardinality(Threads)
             First(m) == {s[i] : i \in {j \in 1 .. n : j <= m + 1}}
             S == {m \in 0 .. N : Chain[m] = First(m)}
  <1>1. /\ N \in Nat
        /\ Chain[0] = {head} \ {NoThread}
        /\ \A m \in 1 .. N : Chain[m] = Chain[m - 1] \cup ({next[t] : t \in Chain[m - 1]} \ {NoThread})
    BY ChainExists
  <1>2. /\ F = {s[i] : i \in 1 .. n}
        /\ head = IF n = 0 THEN NoThread ELSE s[1]
        /\ \A i \in 1 .. n : next[s[i]] = IF i = n THEN NoThread ELSE s[i + 1]
        /\ \A i \in 1 .. n : s[i] # NoThread
    BY NoThreadAssumption DEF OnList
  <1> HIDE DEF N
  <1>3. n <= N
    <2>1. s \in Injection(1 .. n, Threads)
      BY DEF OnList, Injection, IsInjective
    <2>2. Cardinality(1 .. n) <= N
      BY <2>1, ThreadsAssumption, FS_Injection DEF N
    <2>3. Cardinality(1 .. n) = n
      BY FS_Interval
    <2> QED
      BY <2>2, <2>3
  <1>4. 0 \in S
    <2>1. First(0) = {head} \ {NoThread}
      <3>1. CASE n = 0
        BY <1>2, <3>1
      <3>2. CASE n # 0
        <4>1. {j \in 1 .. n : j <= 0 + 1} = {1}
          BY <3>2
        <4> QED
          BY <1>2, <3>2, <4>1
      <3> QED
        BY <3>1, <3>2
    <2> QED
      BY <1>1, <2>1
  <1>5. ASSUME NEW m \in 0 .. N - 1, m \in S PROVE m + 1 \in S
    <2>1. /\ m \in Nat /\ m + 1 \in 1 .. N /\ m + 1 \in 0 .. N /\ m + 1 - 1 = m
          /\ Chain[m] = First(m)
      BY <1>1, <1>5
    <2>2. Chain[m + 1] = First(m) \cup ({next[t] : t \in First(m)} \ {NoThread})
      BY <1>1, <2>1
    <2>3. ASSUME NEW t \in First(m) PROVE t \in First(m + 1) /\ next[t] \in First(m + 1) \cup {NoThread}
      <3>1. PICK i \in 1 .. n : i <= m + 1 /\ t = s[i]
        BY <2>3
      <3>2. i <= m + 1 + 1 /\ (i # n => i + 1 \in 1 .. n /\ i + 1 <= m + 1 + 1)
        BY <2>1, <3>1
      <3> QED
        BY <1>2, <3>1, <3>2
    <2>4. ASSUME NEW t \in First(m + 1)
          PROVE  t \in First(m) \/ \E u \in First(m) : t = next[u] /\ t # NoThread
      <3>1. PICK i \in 1 .. n : i <= m + 1 + 1 /\ t = s[i]
        BY <2>4
      <3>2. CASE i <= m + 1
        BY <3>1, <3>2
      <3>3. CASE ~(i <= m + 1)
        <4>1. i - 1 \in 1 .. n /\ i - 1 <= m + 1 /\ i - 1 # n /\ i - 1 + 1 = i
          BY <2>1, <3>1, <3>3
        <4>2. s[i - 1] \in First(m) /\ next[s[i - 1]] = s[i]
          BY <1>2, <4>1
        <4> QED
          BY <1>2, <3>1, <4>2
      <3> QED
        BY <3>2, <3>3
    <2>5. Chain[m + 1] = First(m + 1)
      <3> HIDE DEF First
      <3> QED
        BY <2>2, <2>3, <2>4
    <2> HIDE DEF First
    <2> QED
      BY <2>1, <2>5
  <1>6. Chain[N] = First(N)
    <2> HIDE DEF S
    <2>1. 0 .. N \subseteq S
      BY <1>1, <1>4, <1>5, IntervalInduction
    <2>2. N \in S
      BY <1>1, <2>1
    <2> QED
      BY <2>2 DEF S
  <1>7. First(N) = F
    <2>1. \A j \in 1 .. n : j <= N + 1
      BY <1>1, <1>3
    <2> QED
      BY <1>2, <2>1
  <1> QED
    BY <1>6, <1>7 DEF Linked, N

------------------------------------------------------------------------------
(* The steps.                                                              *)

\* While a thread is in the lock, none is ending and no other is filing.
LEMMA OwnerIsAlone ==
    ASSUME IInv, RInv, NEW t \in Threads, mutexOwner = t
    PROVE  /\ \A u \in Threads : pc[u] \notin Ending
           /\ \A u \in Threads \ {t} : pc[u] \notin {"link", "publish"}
  <1>1. ASSUME NEW u \in Threads PROVE pc[u] \notin Ending
    <2>1. Parting(u)
      BY DEF RInv
    <2> QED
      BY <2>1, NoThreadAssumption DEF Parting
  <1>2. ASSUME NEW u \in Threads \ {t} PROVE pc[u] \notin {"link", "publish"}
    <2>1. Entered(u)
      BY AtThread DEF Control
    <2> QED
      BY <2>1 DEF Entered
  <1> QED
    BY <1>1, <1>2

\* While nobody is in the lock, none is filing.
LEMMA NobodyFiles ==
    ASSUME IInv, mutexOwner = NoThread
    PROVE  \A u \in Threads : pc[u] \notin {"link", "publish"}
  <1> SUFFICES ASSUME NEW u \in Threads PROVE pc[u] \notin {"link", "publish"}
    OBVIOUS
  <1>1. Entered(u)
    BY AtThread DEF Control
  <1> QED
    BY <1>1, NoThreadAssumption DEF Entered

\* The order of the list, typed.
LEMMA ListThere ==
    ASSUME IInv, RInv
    PROVE  \E n, s : Ordered(n, s) /\ n \in Nat /\ s \in [1 .. n -> Threads]
  <1>1. PICK n, s : Ordered(n, s)
    BY DEF RInv
  <1>2. Filed \subseteq Threads
    BY AtThread DEF Filed, IInv, ListTypes
  <1>3. n \in Nat /\ s \in [1 .. n -> Filed]
    BY <1>1 DEF Ordered, OnList
  <1>4. s \in [1 .. n -> Threads]
    BY <1>2, <1>3
  <1> QED
    BY <1>1, <1>3, <1>4

\* A step that leaves the list, the filing and the ending of records alone.
LEMMA QuietKeepsOrder ==
    ASSUME IInv, RInv, NEW t \in Threads, NEW w, pc' = [pc EXCEPT ![t] = w],
           UNCHANGED <<head, next, key, last>>,
           pc[t] \notin Ending, w \notin Ending, w # "publish", w = "link" => t \notin key,
           mutexOwner' \in {mutexOwner, NoThread} \/ \A u \in Threads : pc[u] \notin Ending
    PROVE  RInv' /\ Filed' = Filed
  <1>1. pc'[t] = w /\ \A u \in Threads \ {t} : pc'[u] = pc[u]
    BY AtThread DEF Types
  <1>2. \A u \in Threads : pc'[u] \in Ending <=> pc[u] \in Ending
    BY <1>1
  <1>3. \A u \in Threads : pc'[u] \in Ending => pc'[u] = pc[u]
    BY <1>1
  <1>4. ASSUME NEW u \in Threads PROVE Filing(u)' /\ Parting(u)'
    <2>1. Filing(u) /\ Parting(u)
      BY DEF RInv
    <2>2. Filing(u)'
      BY <1>1, <2>1 DEF Filing
    <2>3. Parting(u)'
      <3>1. pc'[u] \in Ending => mutexOwner' = NoThread
        BY <1>2, <2>1 DEF Parting
      <3>2. pc'[u] = "exitPop" => pc[u] = "exitPop"
        BY <1>3 DEF Ending
      <3> QED
        BY <1>2, <2>1, <3>1, <3>2 DEF Parting
    <2> QED
      BY <2>2, <2>3
  <1>5. Filed' = Filed
    <2>1. \A u \in Threads : pc'[u] = "exitFree" <=> pc[u] = "exitFree"
      BY <1>1 DEF Ending
    <2>2. key \subseteq Threads
      BY AtThread DEF ListTypes
    <2> QED
      BY <2>1, <2>2 DEF Filed
  <1>6. \A u \in Threads : pc'[u] = "exitWalk" => pc[u] = "exitWalk"
    BY <1>3 DEF Ending
  <1>7. PICK n, s : Ordered(n, s) /\ n \in Nat /\ s \in [1 .. n -> Threads]
    BY ListThere
  <1>8. Ordered(n, s)'
    BY <1>5, <1>6, <1>7 DEF Ordered, Walking
  <1> QED
    BY <1>4, <1>5, <1>8 DEF RInv

LEMMA LinkRecordOrder ==
    ASSUME IInv, RInv, NEW t \in Threads, LinkRecord(t)
    PROVE  RInv' /\ Filed' = Filed
  <1>1. /\ pc[t] = "link" /\ pc' = [pc EXCEPT ![t] = "publish"]
        /\ next' = [next EXCEPT ![t] = head]
        /\ UNCHANGED <<mutexOwner, head, key, last>>
    BY DEF LinkRecord, Goto, mutexVars
  <1>2. /\ pc'[t] = "publish" /\ next'[t] = head
        /\ \A u \in Threads \ {t} : pc'[u] = pc[u] /\ next'[u] = next[u]
    BY <1>1, AtThread DEF Types, ListTypes
  <1>3. mutexOwner = t /\ t \notin key
    BY <1>1, AtThread DEF Control, Entered, RInv, Filing
  <1>4. /\ \A u \in Threads : pc[u] \notin Ending
        /\ \A u \in Threads \ {t} : pc[u] \notin {"link", "publish"}
    BY <1>3, OwnerIsAlone
  <1>5. \A u \in Threads : pc'[u] \notin Ending
    BY <1>2, <1>4 DEF Ending
  <1>6. \A u \in Threads : Filing(u)' /\ Parting(u)'
    BY <1>1, <1>2, <1>3, <1>4, <1>5 DEF Filing, Parting, Ending
  <1>7. key \subseteq Threads
    BY AtThread DEF ListTypes
  <1>8. Filed' = key /\ Filed = key
    BY <1>1, <1>4, <1>5, <1>7 DEF Filed, Ending
  <1>9. PICK n, s : Ordered(n, s) /\ n \in Nat /\ s \in [1 .. n -> Threads]
    BY ListThere
  <1>10. OnList(n, s, Filed, head, next, NoThread)'
    <2>1. \A u \in Filed : next'[u] = next[u]
      BY <1>2, <1>3, <1>7, <1>8
    <2>2. OnList(n, s, Filed, head, next', NoThread)
      BY <1>9, <2>1, OnListKeeps DEF Ordered
    <2> QED
      BY <1>1, <1>8, <2>2
  <1>11. \A u \in Threads : Walking(u, n, s)'
    BY <1>5 DEF Walking, Ending
  <1>12. Ordered(n, s)'
    BY <1>10, <1>11 DEF Ordered
  <1> QED
    BY <1>1, <1>6, <1>8, <1>12 DEF RInv

LEMMA PublishRecordOrder ==
    ASSUME IInv, RInv, NEW t \in Threads, PublishRecord(t)
    PROVE  RInv' /\ Filed' = Filed \cup {t}
  <1>1. /\ pc[t] = "publish" /\ head' = t /\ key' = key \cup {t}
        /\ UNCHANGED <<mutexOwner, next, last>>
        /\ \E w \in {"acquire", "dropAll", "idle"} : pc' = [pc EXCEPT ![t] = w]
    BY DEF PublishRecord, LockTaken, Goto, mutexVars
  <1>2. /\ pc'[t] \in {"acquire", "dropAll", "idle"}
        /\ \A u \in Threads \ {t} : pc'[u] = pc[u]
    BY <1>1, AtThread DEF Types
  <1>3. mutexOwner = t /\ t \notin key /\ next[t] = head
    BY <1>1, AtThread DEF Control, Entered, RInv, Filing
  <1>4. /\ \A u \in Threads : pc[u] \notin Ending
        /\ \A u \in Threads \ {t} : pc[u] \notin {"link", "publish"}
    BY <1>3, OwnerIsAlone
  <1>5. /\ \A u \in Threads : pc'[u] \notin Ending
        /\ \A u \in Threads : pc'[u] \notin {"link", "publish"}
    BY <1>2, <1>4 DEF Ending
  <1>6. \A u \in Threads : Filing(u)' /\ Parting(u)'
    BY <1>5 DEF Filing, Parting, Ending
  <1>7. key \subseteq Threads
    BY AtThread DEF ListTypes
  <1>8. Filed' = Filed \cup {t} /\ t \notin Filed
    BY <1>1, <1>3, <1>4, <1>5, <1>7 DEF Filed, Ending
  <1>9. PICK n, s : Ordered(n, s) /\ n \in Nat /\ s \in [1 .. n -> Threads]
    BY ListThere
  <1>10. OnList(n + 1, InFront(n, s, t), Filed \cup {t}, t, next, NoThread)
    BY <1>3, <1>8, <1>9, OnListPush DEF Ordered
  <1>11. OnList(n + 1, InFront(n, s, t), Filed, head, next, NoThread)'
    BY <1>1, <1>8, <1>10
  <1>12. Ordered(n + 1, InFront(n, s, t))'
    BY <1>5, <1>11 DEF Ordered, Walking, Ending
  <1> QED
    BY <1>6, <1>8, <1>12 DEF RInv

LEMMA ThreadEndsOrder ==
    ASSUME ExitsSerialised, IInv, RInv, NEW t \in Threads, ThreadEnds(t)
    PROVE  RInv' /\ Filed' = Filed
  <1>1. /\ pc[t] = "idle" /\ t \in key /\ mutexOwner = NoThread
        /\ \A u \in Threads : pc[u] \notin Ending
        /\ pc' = [pc EXCEPT ![t] = "exitHead"]
        /\ UNCHANGED <<mutexOwner, head, next, key, last>>
    BY DEF ThreadEnds, Goto, mutexVars, listVars
  <1>2. pc'[t] = "exitHead" /\ \A u \in Threads \ {t} : pc'[u] = pc[u]
    BY <1>1, AtThread DEF Types
  <1>3. \A u \in Threads : pc'[u] \notin {"link", "publish"} /\ (pc'[u] \in Ending => u = t)
    BY <1>1, <1>2, NobodyFiles
  <1>4. \A u \in Threads : Filing(u)' /\ Parting(u)'
    <2>1. \A u \in Threads : pc'[u] # "exitPop"
      BY <1>1, <1>2 DEF Ending
    <2> QED
      BY <1>1, <1>3, <2>1 DEF Filing, Parting
  <1>5. key \subseteq Threads
    BY AtThread DEF ListTypes
  <1>6. Filed' = Filed
    BY <1>1, <1>2, <1>5 DEF Filed, Ending
  <1>7. PICK n, s : Ordered(n, s) /\ n \in Nat /\ s \in [1 .. n -> Threads]
    BY ListThere
  <1>8. \A u \in Threads : pc'[u] # "exitWalk"
    BY <1>1, <1>2 DEF Ending
  <1>9. Ordered(n, s)'
    BY <1>1, <1>6, <1>7, <1>8 DEF Ordered, Walking
  <1> QED
    BY <1>4, <1>6, <1>9 DEF RInv

\* What a thread that is ending may assume, and leaves to the others.
LEMMA EndingIsAlone ==
    ASSUME IInv, RInv, NEW t \in Threads, pc[t] \in Ending
    PROVE  /\ t \in key /\ mutexOwner = NoThread /\ key \subseteq Threads
           /\ \A u \in Threads \ {t} : pc[u] \notin Ending \cup {"link", "publish"}
  <1>1. Parting(t)
    BY DEF RInv
  <1>2. mutexOwner = NoThread
    BY <1>1 DEF Parting
  <1>3. \A u \in Threads : pc[u] \notin {"link", "publish"}
    BY <1>2, NobodyFiles
  <1>4. key \subseteq Threads
    BY AtThread DEF ListTypes
  <1> QED
    BY <1>1, <1>2, <1>3, <1>4 DEF Parting

LEMMA EndingKeeps ==
    ASSUME IInv, RInv, NEW t \in Threads, pc[t] \in Ending,
           NEW w \in Ending \cup {"idle"}, pc' = [pc EXCEPT ![t] = w],
           mutexOwner' = mutexOwner, w # "idle" => key' = key,
           w = "exitPop" => head' = t
    PROVE  /\ \A u \in Threads : Filing(u)' /\ Parting(u)'
           /\ \A u \in Threads : u # t => pc'[u] = pc[u] /\ pc'[u] # "exitWalk" /\ pc'[u] # "exitFree"
           /\ pc'[t] = w
  <1>1. /\ t \in key /\ mutexOwner = NoThread
        /\ \A u \in Threads \ {t} : pc[u] \notin Ending \cup {"link", "publish"}
    BY EndingIsAlone
  <1>2. pc'[t] = w /\ \A u \in Threads \ {t} : pc'[u] = pc[u]
    BY AtThread DEF Types
  <1>3. \A u \in Threads : pc'[u] \notin {"link", "publish"} /\ (pc'[u] \in Ending => u = t)
    BY <1>1, <1>2 DEF Ending
  <1>4. ASSUME NEW u \in Threads PROVE Filing(u)' /\ Parting(u)'
    <2>1. "idle" \notin Ending
      BY DEF Ending
    <2>2. Filing(u)'
      BY <1>3 DEF Filing
    <2>3. pc'[u] \in Ending => u = t /\ w # "idle"
      BY <1>2, <1>3, <2>1
    <2>4. pc'[u] = "exitPop" => pc'[u] \in Ending
      BY DEF Ending
    <2> QED
      BY <1>1, <1>2, <1>3, <2>2, <2>3, <2>4 DEF Parting
  <1> QED
    BY <1>1, <1>2, <1>4 DEF Ending

LEMMA ExitCompareOrder ==
    ASSUME IInv, RInv, NEW t \in Threads, ExitCompare(t)
    PROVE  RInv' /\ Filed' = Filed
  <1>1. /\ pc[t] = "exitHead" /\ pc[t] \in Ending
        /\ UNCHANGED <<mutexOwner, head, next, key>>
        /\ \/ head = t /\ pc' = [pc EXCEPT ![t] = "exitPop"]
           \/ /\ head # t /\ pc' = [pc EXCEPT ![t] = "exitWalk"]
              /\ last' = [last EXCEPT ![t] = head]
    BY DEF ExitCompare, Goto, mutexVars, Ending
  <1>2. /\ \A u \in Threads : Filing(u)' /\ Parting(u)'
        /\ \A u \in Threads : u # t => pc'[u] = pc[u] /\ pc'[u] # "exitWalk" /\ pc'[u] # "exitFree"
        /\ pc'[t] = IF head = t THEN "exitPop" ELSE "exitWalk"
    <2>1. CASE head = t
      BY <1>1, <2>1, EndingKeeps DEF Ending
    <2>2. CASE head # t
      BY <1>1, <2>2, EndingKeeps DEF Ending
    <2> QED
      BY <2>1, <2>2
  <1>3. t \in key /\ key \subseteq Threads
    BY <1>1, EndingIsAlone
  <1>4. Filed' = Filed /\ t \in Filed
    BY <1>1, <1>2, <1>3 DEF Filed
  <1>5. PICK n, s : Ordered(n, s) /\ n \in Nat /\ s \in [1 .. n -> Threads]
    BY ListThere
  <1>6. ASSUME pc'[t] = "exitWalk"
        PROVE  \E i, j \in 1 .. n : i < j /\ s[i] = last'[t] /\ s[j] = t
    <2>1. head # t /\ last'[t] = head
      BY <1>1, <1>2, <1>6, AtThread DEF ListTypes
    <2>2. PICK j \in 1 .. n : s[j] = t
      BY <1>4, <1>5 DEF Ordered, OnList
    <2>3. head = s[1]
      BY <1>5, <2>2 DEF Ordered, OnList
    <2>4. 1 \in 1 .. n /\ 1 < j
      BY <1>5, <2>1, <2>2, <2>3
    <2> QED
      BY <2>1, <2>2, <2>3, <2>4
  <1>7. Ordered(n, s)'
    BY <1>1, <1>2, <1>4, <1>5, <1>6 DEF Ordered, Walking
  <1> QED
    BY <1>2, <1>4, <1>7 DEF RInv

LEMMA ExitPopOrder ==
    ASSUME IInv, RInv, NEW t \in Threads, ExitPop(t)
    PROVE  RInv' /\ t \in Filed /\ Filed' = Filed \ {t}
  <1>1. /\ pc[t] = "exitPop" /\ pc[t] \in Ending /\ head' = next[head]
        /\ pc' = [pc EXCEPT ![t] = "exitFree"]
        /\ UNCHANGED <<mutexOwner, next, key, last>>
    BY DEF ExitPop, Goto, mutexVars, Ending
  <1>2. /\ \A u \in Threads : Filing(u)' /\ Parting(u)'
        /\ \A u \in Threads : u # t => pc'[u] = pc[u] /\ pc'[u] # "exitWalk" /\ pc'[u] # "exitFree"
        /\ pc'[t] = "exitFree"
    BY <1>1, EndingKeeps DEF Ending
  <1>3. t \in key /\ key \subseteq Threads
    BY <1>1, EndingIsAlone
  <1>4. Filed' = Filed \ {t} /\ t \in Filed
    BY <1>1, <1>2, <1>3 DEF Filed
  <1>5. head = t
    BY <1>1 DEF RInv, Parting
  <1>6. PICK n, s : Ordered(n, s) /\ n \in Nat /\ s \in [1 .. n -> Threads]
    BY ListThere
  <1>7. 1 \in 1 .. n /\ s[1] = t /\ OnList(n, s, Filed, head, next, NoThread)
    BY <1>5, <1>6, NoThreadAssumption DEF Ordered, OnList
  <1>8. OnList(n - 1, Past(n, s, 1), Filed \ {s[1]}, next[head], next, NoThread)
    <2>1. \A i \in 1 .. n : next[s[i]] = IF i + 1 = 1 THEN next[s[1]] ELSE next[s[i]]
      OBVIOUS
    <2>2. next[head] = IF 1 = 1 THEN next[s[1]] ELSE head
      BY <1>5, <1>7
    <2>3. Skips(n, s, 1, head, next, next[head], next)
      BY <2>1, <2>2 DEF Skips
    <2> QED
      BY <1>7, <2>3, OnListUnlink
  <1>9. OnList(n - 1, Past(n, s, 1), Filed, head, next, NoThread)'
    BY <1>1, <1>4, <1>7, <1>8
  <1>10. Ordered(n - 1, Past(n, s, 1))'
    BY <1>2, <1>9 DEF Ordered, Walking
  <1>11. n - 1 \in Nat
    BY <1>6, <1>7
  <1> QED
    BY <1>2, <1>4, <1>8, <1>10, <1>11 DEF RInv

\* The loop finds the record; it never runs off the list.
LEMMA ExitWalkOrder ==
    ASSUME IInv, RInv, NEW t \in Threads, ExitWalk(t)
    PROVE  /\ RInv' /\ t \in Filed
           /\ Filed' = IF pc'[t] = "exitFree" THEN Filed \ {t} ELSE Filed
  <1> DEFINE cur == next[last[t]]
  <1>1. pc[t] = "exitWalk" /\ pc[t] \in Ending /\ UNCHANGED <<mutexOwner, head, key>>
    BY DEF ExitWalk, mutexVars, Ending
  <1>2. PICK n, s : Ordered(n, s) /\ n \in Nat /\ s \in [1 .. n -> Threads]
    BY ListThere
  <1>3. PICK i \in 1 .. n, j \in 1 .. n : i < j /\ s[i] = last[t] /\ s[j] = t
    BY <1>1, <1>2 DEF Ordered, Walking
  <1>4. /\ OnList(n, s, Filed, head, next, NoThread)
        /\ \A a, b \in 1 .. n : s[a] = s[b] => a = b
        /\ \A a \in 1 .. n : next[s[a]] = IF a = n THEN NoThread ELSE s[a + 1]
    BY <1>2 DEF Ordered, OnList
  <1>5. i + 1 \in 1 .. n /\ cur = s[i + 1] /\ cur # NoThread
    <2>1. i + 1 \in 1 .. n /\ i # n
      BY <1>2, <1>3
    <2>2. s[i + 1] \in Threads
      BY <1>2, <2>1
    <2> QED
      BY <1>3, <1>4, <2>1, <2>2, NoThreadAssumption
  <1>6. t \in key /\ key \subseteq Threads
    BY <1>1, EndingIsAlone
  <1>7. t \in Filed
    BY <1>1, <1>6 DEF Filed
  <1> HIDE DEF cur
  <1>8. CASE cur = t
    <2>1. /\ next' = [next EXCEPT ![last[t]] = next[t]]
          /\ pc' = [pc EXCEPT ![t] = "exitFree"] /\ last' = last
      BY <1>5, <1>8 DEF ExitWalk, Goto, cur
    <2>2. /\ \A u \in Threads : Filing(u)' /\ Parting(u)'
          /\ \A u \in Threads : u # t => pc'[u] = pc[u] /\ pc'[u] # "exitWalk" /\ pc'[u] # "exitFree"
          /\ pc'[t] = "exitFree"
      BY <1>1, <2>1, EndingKeeps DEF Ending
    <2>3. Filed' = Filed \ {t}
      BY <1>1, <1>6, <2>2 DEF Filed
    <2>4. j = i + 1
      <3>1. s[j] = s[i + 1]
        BY <1>3, <1>5, <1>8
      <3> QED
        BY <1>4, <1>5, <3>1
    <2>5. \A a \in 1 .. n : next'[s[a]] = IF a + 1 = j THEN next[s[j]] ELSE next[s[a]]
      <3>1. next \in [Threads -> Threads \cup {NoThread}]
        BY AtThread DEF ListTypes
      <3>2. \A a \in 1 .. n : next'[s[a]] = IF s[a] = s[i] THEN next[t] ELSE next[s[a]]
        BY <1>2, <1>3, <2>1, <3>1
      <3>3. \A a \in 1 .. n : a + 1 = j <=> a = i
        BY <2>4
      <3> QED
        <4> SUFFICES ASSUME NEW a \in 1 .. n
                     PROVE  next'[s[a]] = IF a + 1 = j THEN next[s[j]] ELSE next[s[a]]
          OBVIOUS
        <4>1. s[a] = s[i] <=> a = i
          BY <1>4
        <4> QED
          BY <1>3, <3>2, <3>3, <4>1
    <2>6. head = IF j = 1 THEN next[s[1]] ELSE head
      BY <1>3
    <2>7. OnList(n - 1, Past(n, s, j), Filed \ {s[j]}, head, next', NoThread)
      <3>1. Skips(n, s, j, head, next, head, next')
        BY <2>5, <2>6 DEF Skips
      <3> QED
        BY <1>4, <3>1, OnListUnlink
    <2>8. OnList(n - 1, Past(n, s, j), Filed, head, next, NoThread)'
      <3>1. Filed' = Filed \ {s[j]} /\ head' = head
        BY <1>1, <1>3, <2>3
      <3> QED
        BY ONLY <2>7, <3>1
    <2>9. Ordered(n - 1, Past(n, s, j))'
      BY <2>2, <2>8 DEF Ordered, Walking
    <2>10. n - 1 \in Nat
      BY <1>2, <1>3
    <2> QED
      BY <1>7, <2>2, <2>3, <2>7, <2>9, <2>10 DEF RInv
  <1>9. CASE cur # t
    <2>1. last' = [last EXCEPT ![t] = cur] /\ UNCHANGED <<pc, next>>
      BY <1>5, <1>9 DEF ExitWalk, cur
    <2>2. last'[t] = s[i + 1] /\ \A u \in Threads \ {t} : last'[u] = last[u]
      BY <1>5, <2>1, AtThread DEF ListTypes
    <2>3. Filed' = Filed
      BY <1>1, <2>1 DEF Filed
    <2>4. \A u \in Threads : Filing(u)' /\ Parting(u)'
      BY <1>1, <2>1 DEF RInv, Filing, Parting
    <2>5. i + 1 < j
      <3>1. i + 1 # j
        BY <1>3, <1>5, <1>9
      <3> QED
        BY <1>3, <3>1
    <2>6. \A u \in Threads : Walking(u, n, s)'
      BY <1>2, <1>3, <1>5, <2>1, <2>2, <2>5 DEF Ordered, Walking
    <2>7. Ordered(n, s)'
      BY <1>1, <1>4, <2>1, <2>3, <2>6 DEF Ordered
    <2>8. pc'[t] # "exitFree"
      BY <1>1, <2>1
    <2> QED
      BY <1>2, <1>7, <2>3, <2>4, <2>7, <2>8 DEF RInv
  <1> QED
    BY <1>8, <1>9

LEMMA ExitFreeOrder ==
    ASSUME IInv, RInv, NEW t \in Threads, ExitFree(t)
    PROVE  RInv' /\ Filed' = Filed
  <1>1. /\ pc[t] = "exitFree" /\ pc[t] \in Ending /\ key' = key \ {t}
        /\ next' = [next EXCEPT ![t] = NoThread] /\ last' = [last EXCEPT ![t] = NoThread]
        /\ pc' = [pc EXCEPT ![t] = "idle"] /\ UNCHANGED <<mutexOwner, head>>
    BY DEF ExitFree, Goto, mutexVars, Ending
  <1>2. /\ \A u \in Threads : Filing(u)' /\ Parting(u)'
        /\ \A u \in Threads : u # t => pc'[u] = pc[u] /\ pc'[u] # "exitWalk" /\ pc'[u] # "exitFree"
        /\ pc'[t] = "idle"
    BY <1>1, EndingKeeps
  <1>3. key \subseteq Threads
    BY AtThread DEF ListTypes
  <1>4. Filed' = Filed
    BY <1>1, <1>2, <1>3 DEF Filed
  <1>5. PICK n, s : Ordered(n, s) /\ n \in Nat /\ s \in [1 .. n -> Threads]
    BY ListThere
  <1>6. \A u \in Filed : next'[u] = next[u]
    BY <1>1, <1>3, AtThread DEF Filed, ListTypes
  <1>7. OnList(n, s, Filed, head, next', NoThread)
    BY <1>5, <1>6, OnListKeeps DEF Ordered
  <1>8. OnList(n, s, Filed, head, next, NoThread)'
    BY <1>1, <1>4, <1>7
  <1>9. \A u \in Threads : pc'[u] # "exitWalk"
    BY <1>2
  <1>10. Ordered(n, s)'
    BY <1>8, <1>9 DEF Ordered, Walking
  <1> QED
    BY <1>2, <1>4, <1>5, <1>10 DEF RInv

------------------------------------------------------------------------------
(* The theorems.                                                           *)

\* The steps that do not concern the list.
LEMMA QuietSteps ==
    ASSUME ExitsSerialised, IInv, RInv, NEW t \in Threads,
           \/ CallLock(t) \/ AcquireMutex(t) \/ CountLock(t)
           \/ UnlockSteps(t) \/ DropSteps(t)
    PROVE  RInv' /\ Filed' = Filed
  <1> DEFINE Calm == {"acquire", "count", "dropAll", "idle", "recover", "release", "uncount"}
  <1>1. UNCHANGED <<head, next, key, last>>
    BY DEF CallLock, AcquireMutex, CountLock, UnlockSteps, CallUnlock, UncountLock, ReleaseMutex,
           DropSteps, DropAllLocks, RestoreLocks, CallDropAllLocks, ReadLockCount,
           CallRecoverAllLocks, RecoverAllLocks, listVars
  <1>2. pc[t] \in Calm
    BY DEF CallLock, AcquireMutex, CountLock, UnlockSteps, CallUnlock, UncountLock, ReleaseMutex,
           DropSteps, DropAllLocks, RestoreLocks, CallDropAllLocks, ReadLockCount,
           CallRecoverAllLocks, RecoverAllLocks
  <1>3. PICK w \in Calm \cup {"link"} : pc' = [pc EXCEPT ![t] = w] /\ (w = "link" => t \notin key)
    <2>1. CASE CountLock(t)
      BY <2>1 DEF CountLock, LockTaken, Goto
    <2>2. CASE CallLock(t) \/ AcquireMutex(t)
      BY <2>2 DEF CallLock, AcquireMutex, StartLocking, Goto
    <2>3. CASE UnlockSteps(t)
      BY <2>3 DEF UnlockSteps, CallUnlock, UncountLock, ReleaseMutex, StartUnlocking, Goto
    <2>4. CASE DropSteps(t)
      BY <2>4 DEF DropSteps, DropAllLocks, RestoreLocks, CallDropAllLocks, ReadLockCount,
                  CallRecoverAllLocks, RecoverAllLocks, StartLocking, StartUnlocking, Goto
    <2> QED
      BY <2>1, <2>2, <2>3, <2>4
  <1>4. mutexOwner' \in {mutexOwner, NoThread} \/ \A u \in Threads : pc[u] \notin Ending
    <2>1. CASE AcquireMutex(t)
      BY <2>1 DEF AcquireMutex
    <2>2. CASE CallLock(t) \/ CountLock(t)
      BY <2>2 DEF CallLock, CountLock, mutexVars
    <2>3. CASE UnlockSteps(t)
      <3>1. CASE ReleaseMutex(t)
        <4>1. mutexOwner = t
          BY <3>1, AtThread DEF ReleaseMutex, Control, Leaving, Unlocking
        <4> QED
          BY <3>1, <4>1 DEF ReleaseMutex
      <3> QED
        BY <2>3, <3>1 DEF UnlockSteps, CallUnlock, UncountLock, mutexVars
    <2>4. CASE DropSteps(t)
      BY <2>4 DEF DropSteps, DropAllLocks, RestoreLocks, CallDropAllLocks, ReadLockCount,
                  CallRecoverAllLocks, RecoverAllLocks, mutexVars
    <2> QED
      BY <2>1, <2>2, <2>3, <2>4
  <1>5. pc[t] \notin Ending /\ w \notin Ending /\ w # "publish"
    BY <1>2, <1>3 DEF Ending
  <1> QED
    BY <1>1, <1>3, <1>4, <1>5, QuietKeepsOrder

LEMMA InitRInv == Init => RInv
  <1> SUFFICES ASSUME Init PROVE RInv
    OBVIOUS
  <1>1. \A t \in Threads : pc[t] = "idle"
    BY DEF Init
  <1>2. \A t \in Threads : Filing(t) /\ Parting(t)
    BY <1>1 DEF Filing, Parting, Ending
  <1> DEFINE s == [i \in 1 .. 0 |-> head]
  <1>3. OnList(0, s, Filed, head, next, NoThread)
    BY DEF Init, OnList, Filed
  <1>4. Ordered(0, s)
    <2> HIDE DEF s
    <2> QED
      BY <1>1, <1>3 DEF Ordered, Walking
  <1> QED
    BY <1>2, <1>4 DEF RInv

LEMMA StepRInv ==
    ASSUME ExitsSerialised, IInv, RInv, [Next]_vars
    PROVE  RInv'
  <1>1. CASE UNCHANGED vars
    BY <1>1 DEF vars, mutexVars, callVars, listVars, RInv, Filing, Parting, Ordered, Walking, Filed
  <1>2. CASE Next
    <2>1. PICK t \in Threads : LockSteps(t) \/ UnlockSteps(t) \/ DropSteps(t) \/ ExitSteps(t)
      BY <1>2 DEF Next
    <2>2. CASE LockSteps(t)
      BY <2>2, QuietSteps, LinkRecordOrder, PublishRecordOrder DEF LockSteps
    <2>3. CASE UnlockSteps(t) \/ DropSteps(t)
      BY <2>3, QuietSteps
    <2>4. CASE ExitSteps(t)
      BY <2>4, ThreadEndsOrder, ExitCompareOrder, ExitPopOrder, ExitWalkOrder, ExitFreeOrder
      DEF ExitSteps
    <2> QED
      BY <2>1, <2>2, <2>3, <2>4
  <1> QED
    BY <1>1, <1>2

\* The list keeps its order if the threads end one by one and outside the lock.
THEOREM ListInvariance ==
    ASSUME ExitsSerialised
    PROVE  Spec => []RInv
  <1>1. IInv /\ RInv /\ [Next]_vars => RInv'
    BY StepRInv
  <1> QED
    BY <1>1, InitRInv, LockInvariance, PTL DEF Spec

LEMMA LinkedIsFiled == IInv /\ RInv => Linked = Filed
  <1> SUFFICES ASSUME IInv, RInv PROVE Linked = Filed
    OBVIOUS
  <1>1. PICK n, s : Ordered(n, s) /\ n \in Nat /\ s \in [1 .. n -> Threads]
    BY ListThere
  <1>2. OnList(n, s, Filed, head, next, NoThread) /\ ListTypes
    BY <1>1 DEF Ordered, IInv
  <1> QED
    BY <1>1, <1>2, ChainOfList

\* The collector finds the record of every thread that has taken the lock and
\* is not ending (collector.cpp:210-247), if the threads end one by one and
\* outside the lock; without that, run lock_exit loses one.
THEOREM RegistryIsComplete ==
    ASSUME ExitsSerialised
    PROVE  Spec => []RegistryComplete
  <1>1. IInv /\ RInv => RegistryComplete
    <2> SUFFICES ASSUME IInv, RInv PROVE RegistryComplete
      OBVIOUS
    <2>1. {t \in key : pc[t] \notin Ending} \subseteq Filed
      BY DEF Filed, Ending
    <2> QED
      BY <2>1, LinkedIsFiled DEF RegistryComplete
  <1> QED
    BY <1>1, ListInvariance, LockInvariance, PTL

------------------------------------------------------------------------------
(* Lock and list implement InterpreterLock.                                *)

\* The thread in the lock, as InterpreterLock sees it.
Holder == IF AbstractDepth = 0 THEN NoThread ELSE mutexOwner

\* A thread that has the mutex and has not entered the lock yet.
Arriving == mutexOwner # NoThread /\ pc[mutexOwner] \in {"count", "link", "publish"}

LEMMA DepthFacts ==
    ASSUME IInv
    PROVE  /\ AbstractDepth = IF Arriving THEN mutexCount - 1 ELSE mutexCount
           /\ mutexOwner \in Threads \cup {NoThread} /\ mutexCount \in Nat
           /\ mutexCount <= MaxDepth + 1
           /\ mutexOwner = NoThread <=> mutexCount = 0
  <1>1. /\ mutexOwner \in Threads \cup {NoThread} /\ mutexCount \in Nat
        /\ mutexCount <= MaxDepth + 1
        /\ mutexOwner = NoThread <=> mutexCount = 0
    BY BoundsAssumption DEF IInv, Types, Counted
  <1>2. (\E t \in Threads : mutexOwner = t /\ pc[t] \in {"count", "link", "publish"}) <=> Arriving
    BY <1>1, NoThreadAssumption DEF Arriving
  <1> QED
    BY <1>1, <1>2 DEF AbstractDepth

\* The same of the next state.
LEMMA DepthFactsNext ==
    ASSUME IInv'
    PROVE  /\ AbstractDepth' = IF Arriving' THEN mutexCount' - 1 ELSE mutexCount'
           /\ mutexOwner' = NoThread <=> mutexCount' = 0
  <1>1. /\ mutexOwner' \in Threads \cup {NoThread} /\ mutexCount' \in Nat
        /\ mutexOwner' = NoThread <=> mutexCount' = 0
    BY BoundsAssumption DEF IInv, Types, Counted
  <1>2. (\E t \in Threads : mutexOwner' = t /\ pc'[t] \in {"count", "link", "publish"}) <=> Arriving'
    BY <1>1, NoThreadAssumption DEF Arriving
  <1>3. AbstractDepth' = mutexCount' - (IF Arriving' THEN 1 ELSE 0)
    <2>1. AbstractDepth' = mutexCount' -
            (IF \E t \in Threads : mutexOwner' = t /\ pc'[t] \in {"count", "link", "publish"}
             THEN 1 ELSE 0)
      BY DEF AbstractDepth
    <2> HIDE DEF Arriving
    <2> QED
      BY ONLY <1>2, <2>1
  <1>4. CASE Arriving'
    BY <1>1, <1>3, <1>4
  <1>5. CASE ~Arriving'
    <2>1. AbstractDepth' = mutexCount' - 0
      BY <1>3, <1>5
    <2>2. mutexCount' - 0 = mutexCount'
      <3>1. \A m \in Nat : m - 0 = m
        OBVIOUS
      <3> QED
        BY <1>1, <3>1
    <2> QED
      BY <1>1, <1>5, <2>1, <2>2
  <1> QED
    BY <1>4, <1>5

\* What the steps do to the lock that InterpreterLock sees.
Still == Holder' = Holder /\ AbstractDepth' = AbstractDepth
Enters(t) ==
    /\ Holder \in {NoThread, t} /\ AbstractDepth < MaxDepth + 1
    /\ Holder' = t /\ AbstractDepth' = AbstractDepth + 1
Leaves(t) ==
    /\ Holder = t /\ AbstractDepth' = AbstractDepth - 1
    /\ Holder' = IF AbstractDepth = 1 THEN NoThread ELSE t

\* A step that neither takes nor leaves the mutex, nor ends an arrival.
LEMMA StillWhenOwnerRests ==
    ASSUME IInv, IInv', UNCHANGED <<mutexOwner, mutexCount>>, Arriving' <=> Arriving
    PROVE  Still
  BY DepthFacts, DepthFactsNext DEF Still, Holder

\* The last step of an arrival is the step into the lock.
LEMMA EntersWhenTaken ==
    ASSUME IInv, IInv', NEW t \in Threads, pc[t] \in {"count", "publish"},
           UNCHANGED <<mutexOwner, mutexCount>>, pc'[t] \notin {"count", "link", "publish"}
    PROVE  Enters(t)
  <1>1. mutexOwner = t /\ t # NoThread
    BY AtThread, NoThreadAssumption DEF Control, Entered
  <1>2. Arriving /\ ~Arriving'
    BY <1>1 DEF Arriving
  <1>3. AbstractDepth = mutexCount - 1 /\ AbstractDepth' = mutexCount /\ mutexCount # 0
    BY <1>1, <1>2, DepthFacts, DepthFactsNext
  <1>4. mutexCount \in Nat /\ mutexCount <= MaxDepth + 1
    BY DepthFacts
  <1>5. MaxDepth \in Nat
    BY BoundsAssumption
  <1>6. AbstractDepth < MaxDepth + 1 /\ AbstractDepth' = AbstractDepth + 1 /\ AbstractDepth' # 0
    BY <1>3, <1>4, <1>5
  <1> QED
    BY <1>1, <1>3, <1>6 DEF Enters, Holder

LEMMA AcquireIsStill ==
    ASSUME IInv, IInv', NEW t \in Threads, AcquireMutex(t)
    PROVE  Still
  <1>1. /\ pc[t] = "acquire" /\ mutexOwner \in {NoThread, t} /\ t # NoThread
        /\ mutexOwner' = t /\ mutexCount' = mutexCount + 1 /\ pc'[t] = "count"
    BY AtThread, NoThreadAssumption DEF AcquireMutex, Goto, Types
  <1>2. ~Arriving /\ Arriving'
    BY <1>1 DEF Arriving
  <1>3. AbstractDepth = mutexCount /\ AbstractDepth' = mutexCount
    BY <1>1, <1>2, DepthFacts, DepthFactsNext
  <1>4. mutexOwner = NoThread <=> mutexCount = 0
    BY DepthFacts
  <1> QED
    BY <1>1, <1>3, <1>4 DEF Still, Holder

LEMMA ReleaseLeaves ==
    ASSUME IInv, IInv', NEW t \in Threads, ReleaseMutex(t)
    PROVE  Leaves(t)
  <1>1. /\ pc[t] = "release" /\ mutexOwner = t /\ t # NoThread
        /\ mutexCount' = mutexCount - 1
        /\ mutexOwner' = IF mutexCount = 1 THEN NoThread ELSE t
        /\ pc'[t] \in {"uncount", "idle"}
    BY AtThread, NoThreadAssumption DEF ReleaseMutex, Goto, Types, Control, Leaving, Unlocking
  <1>2. ~Arriving /\ ~Arriving'
    BY <1>1 DEF Arriving
  <1>3. AbstractDepth = mutexCount /\ AbstractDepth' = mutexCount - 1 /\ mutexCount # 0
    BY <1>1, <1>2, DepthFacts, DepthFactsNext
  <1>4. mutexCount \in Nat
    BY DepthFacts
  <1>5. mutexCount - 1 = 0 <=> mutexCount = 1
    BY <1>4
  <1> QED
    BY <1>1, <1>3, <1>5 DEF Leaves, Holder

\* A step of a thread that arrives neither before nor after it.
LEMMA StillWhenCalm ==
    ASSUME IInv, IInv', NEW t \in Threads, NEW w, pc' = [pc EXCEPT ![t] = w],
           pc[t] \in {"count", "link", "publish"} <=> w \in {"count", "link", "publish"},
           UNCHANGED <<mutexOwner, mutexCount>>
    PROVE  Still
  <1>1. \A u \in Threads : pc'[u] \in {"count", "link", "publish"}
                            <=> pc[u] \in {"count", "link", "publish"}
    BY AtThread DEF Types
  <1>2. mutexOwner \in Threads \cup {NoThread}
    BY DepthFacts
  <1>3. Arriving' <=> Arriving
    BY <1>1, <1>2 DEF Arriving
  <1> QED
    BY <1>3, StillWhenOwnerRests

\* The three kinds of step, and what they do to the list.
LEMMA StepsRefine ==
    ASSUME ExitsSerialised, IInv, RInv, IInv', NEW t \in Threads,
           LockSteps(t) \/ UnlockSteps(t) \/ DropSteps(t) \/ ExitSteps(t)
    PROVE  \/ Still /\ Filed' = Filed
           \/ Enters(t) /\ Filed' = Filed \cup {t}
           \/ Leaves(t) /\ Filed' = Filed
           \/ Still /\ Holder # t /\ t \in Filed /\ Filed' = Filed \ {t}
  <1>1. CASE CallLock(t)
    <2>1. Filed' = Filed
      BY <1>1, QuietSteps
    <2>2. Still
      BY <1>1, StillWhenCalm DEF CallLock, StartLocking, Goto, mutexVars
    <2> QED
      BY <2>1, <2>2
  <1>2. CASE AcquireMutex(t)
    BY <1>2, QuietSteps, AcquireIsStill
  <1>3. CASE CountLock(t)
    <2>1. Filed' = Filed /\ pc[t] = "count" /\ UNCHANGED <<mutexOwner, mutexCount>>
      BY <1>3, QuietSteps DEF CountLock
    <2>2. CASE t \in key
      <3>1. PICK w \in {"acquire", "dropAll", "idle"} : pc' = [pc EXCEPT ![t] = w]
        BY <1>3, <2>2 DEF CountLock, LockTaken, Goto
      <3>2. Enters(t)
        BY <2>1, <3>1, EntersWhenTaken, AtThread DEF Types
      <3>3. t \in Filed
        BY <2>1, <2>2 DEF Filed
      <3> QED
        BY <2>1, <3>2, <3>3
    <2>3. CASE t \notin key
      <3>1. pc' = [pc EXCEPT ![t] = "link"]
        BY <1>3, <2>3 DEF CountLock, Goto
      <3> QED
        BY <2>1, <3>1, StillWhenCalm
    <2> QED
      BY <2>2, <2>3
  <1>4. CASE LinkRecord(t)
    <2>1. Filed' = Filed
      BY <1>4, LinkRecordOrder
    <2>2. Still
      BY <1>4, StillWhenCalm DEF LinkRecord, Goto, mutexVars
    <2> QED
      BY <2>1, <2>2
  <1>5. CASE PublishRecord(t)
    <2>1. Filed' = Filed \cup {t}
      BY <1>5, PublishRecordOrder
    <2>2. PICK w \in {"acquire", "dropAll", "idle"} : pc' = [pc EXCEPT ![t] = w]
      BY <1>5 DEF PublishRecord, LockTaken, Goto
    <2>3. Enters(t)
      BY <1>5, <2>2, EntersWhenTaken, AtThread DEF Types, PublishRecord, mutexVars
    <2> QED
      BY <2>1, <2>3
  <1>6. CASE UnlockSteps(t)
    <2>1. Filed' = Filed
      BY <1>6, QuietSteps
    <2>2. CASE ReleaseMutex(t)
      BY <2>1, <2>2, ReleaseLeaves
    <2>3. CASE CallUnlock(t)
      BY <2>1, <2>3, StillWhenCalm DEF CallUnlock, StartUnlocking, Goto, mutexVars
    <2>4. CASE UncountLock(t)
      BY <2>1, <2>4, StillWhenCalm DEF UncountLock, Goto
    <2> QED
      BY <1>6, <2>2, <2>3, <2>4 DEF UnlockSteps
  <1>7. CASE DropSteps(t)
    <2>1. Filed' = Filed
      BY <1>7, QuietSteps
    <2>2. /\ pc[t] \in {"idle", "dropAll", "recover"}
          /\ \E w \in {"acquire", "uncount", "recover", "idle"} : pc' = [pc EXCEPT ![t] = w]
      BY <1>7 DEF DropSteps, DropAllLocks, RestoreLocks, CallDropAllLocks, ReadLockCount,
                  CallRecoverAllLocks, RecoverAllLocks, StartLocking, StartUnlocking, Goto
    <2>3. UNCHANGED <<mutexOwner, mutexCount>>
      BY <1>7 DEF DropSteps, DropAllLocks, RestoreLocks, CallDropAllLocks, ReadLockCount,
                  CallRecoverAllLocks, RecoverAllLocks, mutexVars
    <2> QED
      BY <2>1, <2>2, <2>3, StillWhenCalm
  <1>8. CASE ExitSteps(t)
    <2>1. /\ pc[t] \in {"idle"} \cup Ending /\ UNCHANGED <<mutexOwner, mutexCount>>
          /\ mutexOwner = NoThread
      <3>1. pc[t] \in Ending => mutexOwner = NoThread
        BY EndingIsAlone
      <3> QED
        BY <1>8, <3>1 DEF ExitSteps, ThreadEnds, ExitCompare, ExitPop, ExitWalk, ExitFree,
                          mutexVars, Ending
    <2>2. Still /\ Holder = NoThread
      <3>1. ~Arriving /\ ~Arriving'
        BY <2>1 DEF Arriving
      <3> QED
        BY <2>1, <3>1, StillWhenOwnerRests DEF Holder
    <2>3. Holder # t
      BY <2>2, NoThreadAssumption
    <2>4. \/ Filed' = Filed
          \/ t \in Filed /\ Filed' = Filed \ {t}
      BY <1>8, ThreadEndsOrder, ExitCompareOrder, ExitPopOrder, ExitWalkOrder, ExitFreeOrder
      DEF ExitSteps
    <2> QED
      BY <2>2, <2>3, <2>4
  <1> QED
    BY <1>1, <1>2, <1>3, <1>4, <1>5, <1>6, <1>7, <1>8 DEF LockSteps

\* Step by step, the mutex, the counter and the list are the recursive lock
\* with a registry of InterpreterLock (JSLock.cpp:45-72, collector.cpp:210-247).
THEOREM LockRefines ==
    ASSUME ExitsSerialised
    PROVE  Spec => ImplementsInterpreterLock
  <1>1. Init => Abstract!LockInit
    <2> SUFFICES ASSUME Init PROVE Abstract!LockInit
      OBVIOUS
    <2>1. IInv /\ RInv
      BY InitIInv, InitRInv
    <2>2. Linked = {}
      BY <2>1, LinkedIsFiled DEF Init, Filed
    <2>3. AbstractDepth = 0
      BY <2>1, DepthFacts, NoThreadAssumption DEF Init, Arriving
    <2> QED
      BY <2>2, <2>3 DEF Abstract!LockInit
  <1>2. ASSUME IInv, RInv, IInv', Linked = Filed, Linked' = Filed', [Next]_vars
        PROVE  [Abstract!LockNext]_(Abstract!lockVars)
    <2>1. CASE UNCHANGED vars
      <3>1. Holder' = Holder /\ AbstractDepth' = AbstractDepth
        BY <2>1 DEF vars, mutexVars, Holder, AbstractDepth
      <3>2. Linked' = Linked
        BY <1>2, <2>1 DEF vars, listVars, Filed
      <3> QED
        BY <3>1, <3>2 DEF Abstract!lockVars, Holder
    <2>2. CASE Next
      <3>1. PICK t \in Threads : LockSteps(t) \/ UnlockSteps(t) \/ DropSteps(t) \/ ExitSteps(t)
        BY <2>2 DEF Next
      <3>2. \/ Still /\ Linked' = Linked
            \/ Enters(t) /\ Linked' = Linked \cup {t}
            \/ Leaves(t) /\ Linked' = Linked
            \/ Still /\ Holder # t /\ t \in Linked /\ Linked' = Linked \ {t}
        BY <1>2, <3>1, StepsRefine
      <3>3. CASE Still /\ Linked' = Linked
        BY <3>3 DEF Still, Holder, Abstract!lockVars
      <3>4. CASE Enters(t) /\ Linked' = Linked \cup {t}
        BY <3>4 DEF Enters, Holder, Abstract!LockNext, Abstract!Lock
      <3>5. CASE Leaves(t) /\ Linked' = Linked
        BY <3>5 DEF Leaves, Holder, Abstract!LockNext, Abstract!Unlock
      <3>6. CASE Still /\ Holder # t /\ t \in Linked /\ Linked' = Linked \ {t}
        BY <3>6 DEF Still, Holder, Abstract!LockNext, Abstract!Exit
      <3> QED
        BY <3>2, <3>3, <3>4, <3>5, <3>6
    <2> QED
      BY <1>2, <2>1, <2>2
  <1>3. IInv /\ RInv /\ (IInv /\ RInv)' /\ [Next]_vars => [Abstract!LockNext]_(Abstract!lockVars)
    <2>1. IInv /\ RInv => Linked = Filed
      BY LinkedIsFiled
    <2>2. (IInv /\ RInv)' => (Linked = Filed)'
      BY LinkedIsFiled, PTL
    <2> QED
      BY <1>2, <2>1, <2>2
  <1> QED
    BY <1>1, <1>3, ListInvariance, LockInvariance, PTL
    DEF Spec, ImplementsInterpreterLock, Abstract!LockSpec
==============================================================================
