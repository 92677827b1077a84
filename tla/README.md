# JSCLite in TLA+

A verification development for JSCLite, a small JavaScript interpreter: TLA+ modules
translated from the C++ sources, TLC configurations that check them on small instances,
and TLAPS proofs about the interpreter lock, the collector, the lists of values, the strings, the property maps and the arrays for instances of any size. Sources are cited by
their path in the repository; `PROJECT.json` maps every definition to its lines.

## The system

| Part | State | Operations | Talks to | What is hard | What makes it correct |
|---|---|---|---|---|---|
| Interpreter lock, `kjs/JSLock.*` | a recursive mutex, a global counter | lock, unlock, drop all locks and take them again (C++ scope, C calls) | registers threads with the collector | the counter is read without the lock | the counter is the depth of the owner; a drop releases everything and comes back as deep |
| Thread registry, `kjs/collector.cpp:197-247` | a linked list, a thread-specific datum | register at the first lock, unlink at thread exit | walked by the collector | the exit takes no lock | every live thread that ever took the lock is on the list |
| Collector, marking | marks, protect counts, the ring of interpreters, thread stacks | allocate, protect, unprotect, collect | calls `mark()` of every cell, `List`, `Interpreter` | other threads run during the scans; stray words; unconstructed cells; a thread reserved for unsafe destructors | nothing reachable is reclaimed; `mark()` and destructors are called on constructed cells only |
| Collector, heap | blocks, free lists, oversize array, counters | allocate, sweep | used by `operator new` of cells | loops that stop by counting, arrays compacted while they are walked, a search shortcut | free lists exact; the sweep destroys just what it should; counters exact |
| Property map, `kjs/property_map.*` | one entry in place or an open-addressed table with sentinels | get, put, remove, clear, enumerate, save, restore, mark | owned by `JSObject` | sentinels, rehashing, order of insertion | a dictionary in order of insertion; probes end |
| Objects, slots, lookup, `kjs/object.*` | prototype, property map, internal value | get, put, delete, call | property map, functions | getters and setters on the prototype chain, the flag that announces them | ECMA-262 8.6.2 |
| Arrays, `kjs/array_object.cpp` | dense storage, length; sparse elements in the property map | get, put, delete, setLength, sort | property map, JavaScript callbacks | two representations, callbacks that change the array while it is sorted | ECMA-262 15.4 |
| Strings, identifiers, `kjs/ustring.*`, `kjs/identifier.*` | shared buffers with spare room at both ends, substrings, a table of identifiers | append, substr, assign, intern | keys of every property map | append in place on shared buffers, cached hashes | a string never changes under another owner |
| Lists, scope chains, `kjs/list.*`, `kjs/scope_chain.*` | a pool of headers, its free list, a heap list, two reference counts | allocate, append, copy, release, mark | collector | the pool's free list runs on into unused entries | each header has one owner; protected lists are marked |
| Interpreter, contexts, `kjs/interpreter.cpp`, `kjs/Context.cpp` | the ring, chain of contexts, recursion depth, timeout counters | evaluate, start, stop, pause, resume, save and restore builtins | parser, nodes, debugger | re-entry, timeouts set while running | balanced counts, context restored |
| Syntax tree, `kjs/Parser.cpp`, `kjs/nodes.*` | static program node, new nodes, extra reference counts, cycles | parse, ref, deref, release of what a parse left | lexer, functions that hold bodies | failed parses, cycles, nodes replaced by others | each node freed once, none lost; held trees stay whole |
| Statements, `kjs/nodes.cpp` | the C++ stack, Context, pending exception, timeout counter | execute of each statement, calls | expressions, interpreter | completions through finally, labels, switch; interruption | ECMA-262 12; contexts balanced; a timed script ends if nothing swallows its interruption |
| Functions and arguments, `kjs/function.cpp` | activation, index-to-name map | call, get, put, delete of arguments | objects | aliasing of arguments and variables | ECMA-262 10.1.8 |
| Debugger, C API, bindings | lists of attachments, reference counts and dictionaries | attach, retain, release | interpreter, collector | order of teardown | balanced protection |
| Built-ins, numbers, PCRE, FastMalloc, WTF | | | | | see "Not modelled" |

The parts meet in three places. Every entry to the interpreter takes the lock, and the first
one registers the thread. Every allocation may collect, and a collection walks the registry,
the stacks of all registered threads, the protect counts, the Lists and the interpreters. Every
object owns a property map, whose `mark()` and destructor the collector runs.

The models are of the build with `USE(MULTIPLE_THREADS)`, which `wtf/Platform.h:249-251` defines on
the Mac only, and with `USE_SINGLE_ENTRY`. Without threads the lock is empty and `lockCount()` is the constant 1; then
the assertion of `JSLockRecoverAllLocks` fails on every call.

## The modules

`InterpreterLock` is the abstract lock and registry: `holder`, `depth`, `registered`; `Lock`,
`Unlock`, `Exit`. It is used twice, as what `JSLock` implements and as what `Collector` builds on.

`JSLock` is the code of both, one action per access to shared memory. `mutexOwner` and
`mutexCount` are the pthread mutex, `lockCount` is `interpreterLockCount`, `head`, `next` and
`key` are `registeredThreads`, the `next` fields and the thread-specific datum. `AcquireMutex`,
`CountLock`, `LinkRecord` and `PublishRecord` are `JSLock::lock` with `Collector::registerThread`
inlined; `UncountLock` and `ReleaseMutex` are `JSLock::unlock`; the loops of `DropAllLocks`,
`JSLockDropAllLocks` and their ends are runs of these with `todo` iterations left; `ExitCompare`
to `ExitFree` are `destroyRegisteredThread`. A thread that calls `DropAllLocks` is inside the lock:
the constructor releases as many locks as the global counter says, so calling it from outside
would release locks of another thread. Nothing in the repository calls it. `lockCount` is an
`int` in the code, read without synchronisation; it is modelled as a single word.

`Collector` is the collector seen by the threads. A cell is free, live, or allocated and not yet
constructed: "raw" in a block, where its first word is 0, or "unread", an oversize cell, whose memory
`fastMalloc` (`kjs/collector.cpp:139`) leaves as it was. `refs` are the cells its `mark()` visits; `stack[t]` the cells that thread
`t`'s stack and registers point to, with or without the lock; `lists`, `protectCount` and `roots`
the other handles. `BeginCollect` is the walk of the ring of interpreters, `MarkSelf`, `MarkOther`
and `MarkedStacks` the stack scans, `MarkHandles` the two scans that follow, `Sweep` the sweep as
one step, since no other thread can touch the heap meanwhile. Between these steps the other
threads drop stack pointers (`Forget`) and end (`ExitThread`). `Mark` is one call of the recursive
`mark()`: it visits what is reachable through unmarked cells. `ScanStack` adds up to `MaxStray`
words that only look like pointers. What the collector reads from an unread cell is open: the stack scan may pass over
it, take it for marked, or call its `mark()` (lines 286-295); the sweep, which tests the first word in the loop over
the blocks only, may spare it or run its destructor and free it ("lost", lines 567-576). A method called on such memory, or on
a cell freed before, has no defined effect: the model then stops, in the phase "undefined", which is why the run does
not look for deadlocks. A thread that sleeps on the lock keeps the pointers on its
stack, but cannot follow them.

`CollectorHeap` is the memory under it, one turn of each sweep loop per action. Offsets are
cell numbers; a free cell of a fresh block links to the next one as the offset 0 does. Which cells
are destroyed is given to it as a set, because `Collector` decides that; an oversize cell that is not
constructed may be in the set, since its mark is read from uninitialised memory.

`PropertyMap` is the table as functions of the source's names (`put`, `remove`, `rehash`, ...) from
map to map, with one action per call of the class. Identifiers are compared by pointer in the code,
so they are model values with a hash. An attribute set stays with a name (`Attributes`), to
keep the number of states down. `OrderedMap` is the dictionary it implements.

`ArrayInstance` is a JavaScript array as one record: `length`, `storage` (its domain is the capacity),
`storageLength`, and `sparse`, the properties whose names are indices. `put`, `deleteProperty`,
`resizeStorage`, `setLength`, `pushUndefinedObjectsToEnd` and the functions of `Array.prototype` are
functions of the record; a loop is a recursive function of the number of passes, in the order of the code. `EcmaArray` is the array of
ECMA-262: a sequence in which `Undefined` stands in the place of absent elements, as `get` shows it
when the prototype has no elements. A comparison function is consistent and changes nothing; a sort
is one step. The arguments of `slice` and `splice` are integers already in range, and lengths stay
below the bound, so that nothing wraps.

`Statements` is the interpreter's walk over a syntax tree. The C++ stack is the sequence `stack`, a frame
being an `execute()` under way; `ret` is the completion just returned; `ctx` the chain of contexts with
the depths of loops, switches and scopes, the labels and the pending exception of its `ExecState`. An
expression is a name that yields true or false, or throws: with an exception value as its result
("throw"), or with undefined and the exception pending ("quiet"). The evaluations are kept in `hist`, so
that a program and the answers of its expressions determine a run. `EcmaStatements` is chapter 12 of
ECMA-262 as a function: what a program evaluates next and how it ends, given the answers. `checkTimeout` is
part of the loops' actions; `ClockPasses` is the time that goes by. When time is up, or `shouldStopExecution` cancels
the script, the embedder is asked (`shouldInterruptScript`, `kjs/interpreter.cpp:780-788`): `lenient` says whether it is one that
may let the script go on.

`UString` has the Reps with their buffers, counts and cached hashes, and `identifierTable` as a function from
keys to the hash each was filed under. The functions `Concatenated`, `Extended`, `Substring`,
`AssignedChars`, `Interned` ... take the heap and give back the heap and the Rep of the result, as the code does with
counted pointers; an action stores it in a variable and releases the old one. `StringValues`, which it
implements, has independent values. Characters that no Rep covers any more are forgotten.

`Lists` has the pool of `ListImp`s, the free list with its link 0, the heap list in both directions, the two
counts and the inline and overflow values. `append` enlarges the array beside the inline values by doubling, and
`copyFrom` is one append after the other (`AppendedAll`). `PoolWalk` follows the free list of the pool and `Nth` the
heap list as the allocator and the marking loop do. `SharedLists`, which it implements, has lists and references to
them.

`SyntaxTree` has the nodes with their children and list links, `newNodes` (the field `fresh`),
`nodeExtraRefCounts` (`extra`), `nodeCycles` and the parser's stack. `MakeNode`, `ReplaceNode`,
`StartList`, `AppendToList` and `CloseLists` are the five shapes that reductions have as far as ownership goes;
`CloseLists` takes one list or more and other children with them, as `CaseBlockNode` takes the clauses on both
sides of the default clause (`kjs/nodes.cpp:2108-2126`).
`Recover` and `Abort` are bison's answer to errors; `Hold` and `Drop` are functions that take and release
bodies between parses. In a parse no program runs.

`JSLockProofs`, `CollectorProofs`, `CollectorHeapProofs`, `ListsProofs`, `UStringProofs`, `PropertyMapProofs` and `ArrayProofs` hold the proofs;
`InductionLemmas` has what several of them need of induction over numbers and of linked lists. The `MC` modules
give the small instances. A definition marked
"Mutant" is a wrong variant of the one after it; it is not used by the specification and
serves to confirm that the properties notice such a slip.

## What is checked

The properties are invariants, action properties, five refinements and one liveness property.

Only `statements` assumes fairness: the thread that runs the script is not stopped (`WF` of `Step`), and
the clock goes on (`WF` of `ClockPasses`). That is what the code relies on: the loop is ordinary C++ on a thread
of the host, and `gettimeofday` advances. From it follows `ScriptEnds`: an interruptible script under a timeout check comes to
its end, if the embedder is not lenient. `Interruptible` leaves out the scripts in which a loop may go round again after what
swallowed an interruption inside of it: a call of a function with an endless loop, or a try statement with such a loop and a finally block
that may jump or throw. Three of the 119 programs are like that, one for each way; they are run and checked for everything else.
No fairness is assumed of the answers of expressions: they may be true for ever. In the other
modules, that the sweep ends is shown by a measure that each of its steps lowers (`SweepAdvances`), and that
probing ends by the empty slots left (`WalksEnd`).

| Run | Instance | Shows |
|---|---|---|
| `lock` | 3 threads, depth 2, one DropAllLocks scope per thread; threads end one at a time and while nobody is in the lock | counter exact, registry complete, drops restored exactly, implements `InterpreterLock`, no deadlock |
| `lock_exit` | threads may end at any time | a live thread's record is lost from the registry |
| `collector` | 2 threads, 3 cells, 1 interpreter, protect counts to 1, 2 references, 1 handle, 1 stray word per scan | nothing reachable reclaimed; methods called on constructed cells only, but in the two cases that `CallsConstructed` names |
| `heap` | 3 blocks of 2 cells, 2 oversize cells, 1 spare block, arrays from 1 entry | free lists and search shortcut, arrays and counters; the sweep is complete, spares the rest and ends |
| `properties` | 4 colliding names, tables of 4, 8 and 16, order numbers to 5 | the class's own consistency, probes end and counting loops reach all (`WalksEnd`), enumeration, implements `OrderedMap` |
| `arrays` | arrays of up to 4 elements from 2 values and undefined, cutoff 2, up to 2 arguments; sorts of at most 2 elements, no cut right at a property | the two stores never overlap or hide anything, the functions are exact, implements `EcmaArray` |
| `arrays_sort` | sorts of any array | elements beyond the cutoff are lost |
| `arrays_length` | cuts anywhere | the property at the new length survives |
| `statements` | 119 programs, each kind of statement with each kind of jump out of it; up to 8 evaluations, 2 names in a for-in; a check every 2 rounds of a counter with 4 values | the order of evaluation and the completion are those of ECMA-262, contexts are balanced, a timed script ends if it is interruptible |
| `strings` | one string, one identifier, 3 Reps, 2 characters, strings to length 3, buffers to 4 | reference counts, unique identifiers, implements `StringValues` |
| `lists` | 4 Lists, a pool of 2 and 2 on the heap, 1 inline value, 2 values; Lists and values 5 in all | free list and heap list, marking, implements `SharedLists` |
| `nodes` | 5 nodes, up to 3 values on the parser's stack, 1 reference from outside to a node | nodes counted, none freed twice or lost, held trees whole |

Why these bounds. Unlinking from the middle of a list takes three records. A lost cell takes a
chain of two references from a handle of one kind and a second thread that drops or keeps a
pointer; three cells are such a chain. A block that is full, one that is partly used and one that is
empty are three blocks, and compaction swaps the last with an earlier one. Four names fill a table of
4 beyond one half twice, so the map expands twice, rehashes in place in each table, and reuses
sentinels behind collisions. The code's tunables (16 slots, 1000 allocations, 14 entries) are
parameters, and only their order matters.

Two elements in the vector and two properties behind the cutoff are enough to mix the two
stores in every way the loops distinguish: elements cross the cutoff in both directions, a hole is
moved over an element, the vector has spare room, and the vector made from a list reaches beyond the
cutoff. Two arguments make unshift and splice open a gap wider than one. The cutoff is 10000 in the
code; only comparisons with it matter.

A program of `statements` is at most one loop within another, or one guarded block or switch within a
loop (and, where an interruption is swallowed, an endless loop within that), because a completion is handled by one enclosing statement at a time: what decides is the
kind of the statement, whether the label is its own, and which statement is around it. Eight
evaluations let each loop go round twice. The counter starts anywhere in its range, as the code
leaves it uninitialised, and wraps. One string and one identifier are three references with a
temporary: an append in place needs one, a shared append two, a window whose owner is gone three. A pool of
two is emptied, refilled in another order and exceeded. Four Lists over that pool put two headers on the heap list at
once, and release either first; that `ListsExact` notices a link left behind there is confirmed by a mutant of its own.
Five nodes hold two rings that one node closes. They also hold a ring of two under a closed list with a function on the side, or a half-built ring next to a
replaced node. `MaxLen` is too small for the code's rule that appending to a string under a quarter of the
other's length is not worth it; the rule chooses between sharing and copying, which the refinement hides.

The three runs that fail on purpose:

- `destroyRegisteredThread` (`kjs/collector.cpp:210-228`) changes the registry without the lock that
  `kjs/JSLock.h:28-31` asks for. If another thread registers between the comparison and the
  assignment of the head, that thread's record is taken off instead, the ended thread's deleted
  record stays, and the next collection misses a live stack. `lock` and `collector` therefore
  assume that the embedder ends its threads while no thread is in the lock (`ExitsSerialised`) and
  that the registry is exact, respectively.
- `pushUndefinedObjectsToEnd` (`kjs/array_object.cpp:348-384`) grows the vector before it fetches the
  sparse elements with `get`, which looks for those that are now below `storageLength` in the vector.
  It finds nothing there, stores undefined, and deletes the property: sorting an array of 10001
  elements loses the element at 10000. Sorting is right as long as there are no more elements than
  the cutoff (`MaxSorted`), which is what `arrays` assumes.
- `setLength` (`kjs/array_object.cpp:238-261`) deletes the sparse properties with an index above the new
  length, but not the one at it. `ArrayProtoFunc::Pop` cuts just there. The element is hidden until the
  length grows again. `arrays` leaves such cuts out (`CutsAtElement = FALSE`).

Known divergences that are not among the runs; each is a change of a constant in a configuration:

- `JSLockRecoverAllLocks` (`kjs/JSLock.cpp:124`) asserts that the lock count is 0. The count is the
  process's, not the thread's: while thread A has dropped its locks, B takes the lock, and A's call
  asserts. `INVARIANT RecoverAssert` in `MCJSLock.cfg` shows it. The locks are nevertheless restored
  correctly (`DropsAndRestores`).
- `PropertyMap::clear` (`kjs/property_map.cpp:135-160`) zeroes `sentinelCount` and leaves the sentinels.
  With `ClearAnyTime = TRUE` the class's consistency check (line 752), `Consistent`, fails. In the long run
  uncounted sentinels can use up the empty slots that end a probe. `JSObject::clearProperties` is the only
  caller and is left to embedders.
- A string appended to in place (`kjs/ustring.cpp:669`) may be the key of the identifier table, if an identifier
  was made of it and its variable is the last to refer to it. The key then has other characters than those it is
  filed under. `join` (`kjs/array_object.cpp:461-497`) can do so when the collector takes the string it started from.
  With `Careful = FALSE`, `NamesUnique` fails.
- `UString::operator=(const char*)` (`kjs/ustring.cpp:816-831`) keeps the old length when it uses the buffer
  again. With `Careful = FALSE`, `ImplementsStringValues` fails. Every caller in the repository assigns to
  an empty string.
- With `Programs <- CornerPrograms`, and "quiet" among the `Outcomes`, `MeetsEcma` fails in three ways: a
  clause in front of the default clause that runs to its end is followed by a search of the clauses behind
  it (`kjs/nodes.cpp:2163-2174`), where ECMA-262 12.11 runs on into the default clause and them; of two labels on a
  loop the inner one only is known to it (`kjs/grammar.y:791`), so that `continue` to the outer one ends the
  loop's label statement; and a for-in over an expression that throws and yields undefined ends
  normally, the exception being noticed by a later statement (`kjs/nodes.cpp:1879`).
- Without `program \in Interruptible`, `ScriptEnds` fails for each program of `Swallowing` in a loop. An interrupted
  function returns undefined to its caller (`kjs/function.cpp:135-142`), whose loop goes on and calls it again. A finally block that
  ends in a jump or an exception replaces an interruption as it does any other completion (`kjs/nodes.cpp:2297-2301`): in
  `while (w) try { while (v) {} } finally { continue; }` the outer loop goes on, and so it does when the exception is caught within
  it. Without `~lenient` it fails because the embedder may answer that the script should not be interrupted.
- The comment at `kjs/collector.cpp:504-505` and the tests at 292 and 506 take care of cells that are allocated and not
  constructed. They do so for the cells of blocks only. An oversize cell comes from `fastMalloc`; what the scan of the stack and the
  sweep (567-576) read from it is left over from its last use. With `[][phase' # "undefined"]_vars` for a
  property of `collector`, TLC shows the collection in a constructor's arguments that calls `mark()` of such a cell, or destroys it.

## What is proved

`CollectorProofs`, for any set of threads, any finite set of cells, any set of interpreters and any
bounds:

- `Invariance`: `Spec => []IInv`, the inductive invariant;
- `TypeCorrectness`, `NoReachableCellIsLost`: `TypeOK` and `ReachableAllocated` follow from it;
- `CallsMeetConstructedCells`: the action property `CallsConstructed`, from a second induction on top of the first.

`ReachableAllocated` is not inductive: in the middle of a collection it says nothing about what is
still to be marked. The invariant adds that the marked cells have no unmarked referents (`MarksClosed`: each `Mark`
closes what it marks); that after each scan the words it met are marked as far as they
are constructed; that a thread that is not registered has an empty stack and no Lists (`RegistryInv`), so that the
registry covers every stack; that what is reachable refers to live cells only (`ShapeInv`); and that only the lock's holder has
pointers to cells that are not constructed (`RawInv`). During a
collection the graph, the handles and the registered set only shrink or stay, so what was marked
stays marked; at the sweep everything reachable is marked or not constructed, and of the latter only oversize cells can be
lost. The lemmas about `Reach` (it contains its roots, is closed, and is the least such set) carry the argument;
`Reach` is defined as an intersection of closed sets, so that no induction over paths is needed.

`CallsConstructed` is about every call of a collection. A scan that starts in constructed cells stays among them
(`MarkStaysInside`) if these refer to none but constructed cells. What the roots lead to does so always; garbage does so
as long as no collection thread is set (`NoDangling`), since then it is reclaimed with what it refers to. So the collector goes astray
only by a stray word that revives garbage kept for that thread, or by an unread cell. Only the thread that
collects can be between the allocation and the construction of one, because no thread leaves the lock there.

`JSLockProofs`, for any set of threads, any nesting of locks and scopes, and either value of
`ExitsSerialised` (threads may end while others are in the lock; the registry may suffer then, the lock
does not):

- `LockInvariance`: `Spec => []IInv`, the inductive invariant;
- `LockTypes` and `LockCountIsExact`: `TypeOK` and `LockCountExact` follow from it;
- `DropsAreExact`: the action property `DropsAndRestores`, action by action.

`LockCountExact` is nearly inductive; what it lacks is that the thread at a step between mutex and counter
is the mutex's owner. `DropsAndRestores` needs more: a thread in the middle of a loop of unlocks owns the
mutex as often as the loop has turns left, one in the middle of a loop of locks lacks as many to the depth of
its innermost scope (`Entering`, `Entered`, `Leaving`), and every scope on its stack takes as many locks again
as it dropped (`ExactScopes`). The last is where the C interface is delicate: it takes a lock of its own
before it reads the counter and must leave that one out. Another thread notices of a step no more than
that the mutex was taken or left (`OthersKeep`).

`CollectorHeapProofs`, for any finite sets of addresses, any number of cells in a block, and all factors and
limits that the assumptions admit:

- `HeapInvariance`: `Spec => []IInv`, the inductive invariant;
- `HeapArraysAreExact` and `SweepsAreComplete`: `ArraysExact` and `SweepComplete` follow from it;
- `SweepsSpareTheRest` and `SweepsAdvance`: the action properties `SweepSpares` and `SweepAdvances`.

`SweepComplete` speaks of the end of a sweep only; the invariant says where the sweep's work is while it runs:
every doomed cell is constructed and lies in an entry of the array not yet looked at, which the swap of the last
entry into the place of a freed one preserves because the index stays (`Ahead`), and the empty blocks already
passed are no more than were counted (`Spares`). The early end of the loop over a block that is not full is right
because the block's counter is the number of its cells (`Slab`, `FreedFacts`): before a constructed cell there are
fewer constructed ones than that. It is also why a block is given back only when all its cells are destroyed. A
free list is described without recursion: some ranking of the free cells makes its head the highest and each
link the next lower one (`ChainOf`); taking the head (`TakeChain`) and putting the destroyed cells in front
(`PutChain`) keep such a ranking.

- `HeapTypes`: `TypeOK`. The bounds of the capacities are not inductive without the relation of each array's
  capacity to what it held when it was enlarged, nor those of the counters without the sizes of the sets they count.
- `FreeListsAreExact`: `FreeListsExact`, whose walk of a free list is a recursive function; it follows the ranking
  downwards, by induction over the steps of the walk.

The second part of `JSLockProofs`, for any set of threads, under the hypothesis `ExitsSerialised` (threads end one by one and
while nobody is in the lock); without it `lock_exit` shows `RegistryComplete` violated:

- `ListInvariance`: the records that the head leads to can be numbered in the order of the list, each once, at
  every step of a registration and of an exit (`Ordered`, `OrderInv`);
- `RegistryIsComplete`: `RegistryComplete`, because the walk of the list meets what is numbered;
- `LockRefines`: `ImplementsInterpreterLock`. Each step of `JSLock` is a step of `InterpreterLock` or a stutter: the lock
  is taken when the mutex, the counter and the record are all in place, and left when the counter is.

`ListsProofs`, for any pool, any finite sets of headers on the heap and of Lists, any number of inline values and any
values:

- `Invariance`: `Spec => []IInv`, the inductive invariant;
- `ListsTypes`, `ListsAreExact`, `ValuesAreMarked`: `TypeOK`, `ListsExact` and `ValuesMarked` follow from it;
- `ListsRefine`: the refinement `ImplementsSharedLists`.

The invariant says of each header that its array has the room its capacity promises and its values are where
`ValueAt` looks (`SoundImp`); of the pool, that its unused entries can be numbered so that each leads to
the next and the last to the place after the pool, links of 0 read as the entry that follows (`PoolExact`); of the heap list, that
it can be numbered in both directions (`BothWays`); and that the counts of each header are the numbers
of Lists that refer to it, with and without an owner (`Counted`). An operation is a sequence of changes to the record
`Heap`, some of which break the counts until the handle is changed: so the lemmas are about a heap and the
counts it ought to have, `Good(H, r, m)`. `RefGood`, `DerefGood` and the lemmas of allocation say how each part
moves them, and `Counts` that the handle moves with them. Growing an array, appending, and copying by repeated appending
are shown on one header; `AppendedAll` is by induction over what is appended.

`UStringProofs`, for any characters, any finite sets of variables, identifiers and Reps, any room and lengths:

- `Invariance`: `Spec => []IInv`, the inductive invariant, for either value of `Careful`;
- `TypeCorrect` and `RefCountsAreExact`: `TypeOK` and `RefCountsExact` follow from it, whatever callers change in place;
- `NamesAreUnique` and `StringsAreValues`: `NamesUnique` and the refinement `ImplementsStringValues`, under the hypothesis
  `Careful` (no caller changes in place a string that is a key, or assigns to one that is not empty); with
  `Careful = FALSE` TLC finds both violated, as said above.

The operations are functions of the heap, and an operation such as `Extended` chains several of them with
the counts out of balance in between. So the invariant is stated of a heap and the counts that it ought to have,
`Good(H, c)`: each Rep is a window on the used part of a buffer whose Rep is itself no window (`Sound`), each count is
`c` plus the number of windows (`Counted`), and, if `Careful`, each key is filed under its characters
(`Named`). A function that gives a new reference is shown to `Yield` a heap that is good for one more count of the result
and the same content for every Rep alive; one that replaces the string it is called on has a `Result`, good for the counts
moved from the old Rep to the new. The heart is the lemmas on buffers: growing at either end keeps what is at each place
(`Extends`), and what an append writes lies outside of every other window, because its own window is the one that
ends where the used part ends. `TypeOK` alone is not inductive, since a release needs the counts, and the refinement
needs them too: a string may be altered in place only where its one reference is the variable's.

`PropertyMapProofs`, for any identifiers, values and hash values, any power of 2 from 4 as the first size, and any bounds, under
the hypothesis `~ ClearAnyTime` (`clear()` meets no sentinels); without it the run's own invariant fails, as said above:

- `Invariance`: `Spec => []IInv`, the inductive invariant;
- `TypeCorrect`, `TableIsConsistent`, `LoopsEnd`, `EnumerationIsExact`: `TypeOK`, `Consistent`, `WalksEnd` and
  `EnumerationExact` follow from it;
- `MapIsOrdered`: the refinement `ImplementsOrderedMap`.

`Consistent` is not inductive: it does not say that a new key finds an empty slot, that indices differ or that a sentinel is
not shown. The invariant says of a table that each key is where probing reaches it (`Located`), that no two entries
share a key or an index (`Distinct`), that the counts are right and leave empty slots, and that no index is above the last
one (`Good`). A probe ends because the step is odd and the size a power of 2, so that the probes meet every slot
(`ProbesCover`); the code's `1 | (h % sizeMask)` is there for that. A write keeps the path to every other key
(`FilledLocated`, `KeptLocated`): it fills an empty slot or a sentinel with a key that is not in the table, or
replaces a key by a sentinel, which a probe goes past. Rehashing is by induction over the slots (`MovesKeep`).

For the refinement the slots are forgotten. A map is the set of its entries (`View`), and `Puts`, `Without` and `Plain` say what
put, remove and save do to that set. `Shows` relates a set of entries to an order and a content: the one list of its entries by
rising index (`Enumerates`, unique by `EnumeratesOnce`, and found by counting as `Ranked` does). Each operation of the
dictionary is matched to a change of the set (`ShowsMore`, `ShowsOther`, `ShowsUnder`, `ShowsNone`). Restoring is by induction
over the entries saved (`LoadedAll`), which gives them new indices in the same order, in a table no larger than the old one
(`PowersApart`).

`ArrayProofs`, for any values, any cutoff from 1, and any lengths and arguments, under the hypothesis `~ CutsAtElement` (no length is
set to the index of an element that is a property; `arrays_length` shows what happens then):

- `Invariance`: `Spec => []IInv`, the inductive invariant: the array is one of the `Layouts`;
- `ArrayTypes`, `ArrayStorage`, `ArrayMethods`: `TypeOK`, `StorageLayout` and `MethodsExact` follow from it;
- `ArraysImplementEcma` and `SortsPermute`: the refinement `ImplementsEcmaArray` and the property `SortPermutes`, under the further
  hypothesis `MaxSorted <= Cutoff`: a sort has no more elements than the vector has room for. `arrays_sort` shows
  `SortPermutes` violated without it, so the two results draw the line between the sorts that are right and those that are not.

The invariant is little more than `StorageLayout`; the work is in what the functions do to the elements. An array is
looked at as the function `get` makes of it (`View`), and each operation is shown to keep the layout and to
change the view in one way only: `PutIs`, `DeleteIs`, `CopyIs`, `SetLengthIs`. To prove that a view is right, `Stores` says what the four
fields have to be. A loop is a function from the number of passes to arrays, which exists by `Recursion`
(`CopiesRun`, `SwapsRun`, `FetchesRun` and so on), and its invariant says which elements have been moved
(`MovedDown`, `MovedUp`, `FilledIn`, `ReversedIn`): this is where the direction of the loops of `shift`, `unshift` and `splice` matters,
since an element must not be overwritten before it is copied. `InsertionIs` joins the parts of a splice.

The sorts are about how often each value occurs (`Count`), since elements may be equal. `qsort` is taken to put in place i a
value that at most i others are less than and more than i do not exceed. Such a value exists (`RankExists`), and these values are in
order and each as frequent as before (`SortedIs`). Before that, `Compacted` and `TakeSparse` move the elements to the front of
the vector (`CompactedIs`, `TakeSparseIs`, `PackedIs`); the hypothesis on the cutoff is needed for the properties, which are fetched after
the vector has grown. The sort by selection exchanges two elements in each pass (`SwapCounts`, `MinSortIs`).

The proofs use the assumptions named in the modules: that null is not a thread, that cells, addresses, Reps and handles
are finite sets, that `LOW_WATER_FACTOR` is not below `GROWTH_FACTOR`, which is at least 2, and that neither a null
nor a deleted key is an identifier or a value, and that null, undefined and the numbers of an array differ. `TLC` evaluates them in
every run. The bounds (`MaxEdges`, `MaxAnchors`, `MaxStray`, `MaxLoad`)
only restrict guards; the proofs do not depend on their values.

Induction over numbers is done with the well-foundedness of the numbers (`LeastNumber`), from which follow an
induction principle whose parameter is a set instead of a predicate (`SetInduction`, `IntervalInduction`) and the existence of
functions defined by recursion (`Recursion`). That is how the recursive functions of `ListsExact`, `FreeListsExact` and
`RegistryComplete` and the loops of `rehash`, `restore` and the array functions are treated.

Only model-checked: the properties of `Statements` and `SyntaxTree` with their refinements, and the liveness property `ScriptEnds`. `EcmaStatements` and `SyntaxTree` declare recursive operators, so
`Statements` and `SyntaxTree` stay with TLC; so do liveness and enabledness, which the provers do not treat.

## Plan

1. `PropertyAccess`: get, put and delete along the prototype chain, getters and setters and the flag that
   announces them, with `OrderedMap` for the property maps.
2. `Timeouts`: start, stop, pause and resume of the timeout check with the embedder's calls.
3. `RootObjects` or `FastMalloc` if room is left.
4. Proofs: `Statements` and `SyntaxTree`, once their recursive operators are written as functions.

Runs are one per module plus one per disagreement that changes what an operation may be used for; bounds
follow the pattern above: the fewest actors, and one more value than the code's special cases.

## Not modelled

Of arrays: comparison functions with side effects, `push` at length 2^32 - 1 and the property named
4294967295, `join`, `indexOf` and the functions that only call back.

Of strings: conversions between strings and numbers, encodings, searching. Of lists: the iterator, and scope
chains. Of statements: declarations, break points of the debugger, the values of normal completions, running
out of memory (`Collector::isOutOfMemory`), a clock that was started, paused or resumed in the middle of
a script. Of the parser: the grammar, the lexer, and a parse within a parse, which the code does not
have.

Builtin functions on dates, strings, numbers and regular expressions (sequential code over domains
TLC cannot enumerate); number conversions; the lexer, the grammar and expression evaluation; PCRE and
ICU (third-party); test shells; FastMalloc (vendored). The platform code that finds stack bounds and suspends threads is
taken to do what its name says. Failure of allocation is not modelled: `fastMalloc` aborts. The order
of stores seen by other processors is not modelled either: each access to shared memory is one step.
