---------------------------- MODULE CollectorHeap ----------------------------
(***************************************************************************)
(* The memory of the collector (struct CollectorHeap in kjs/collector.cpp):*)
(* an array of blocks of equal cells, each block with its own free list, a *)
(* second array of oversize cells, and the counters that decide when to    *)
(* collect.  Which cells a collection destroys is Collector.tla's affair:  *)
(* here a collection is given the set of doomed cells, and sweeps.         *)
(* Everything runs inside the interpreter lock, so one thread suffices.    *)
(***************************************************************************)
EXTENDS Naturals, Sequences, FiniteSets, FiniteSetsExt

CONSTANTS
    Blocks,         \* addresses the C allocator can give to a block
    Oversize,       \* addresses it can give to an oversize cell
    CellsPerBlock,  \* CELLS_PER_BLOCK
    Spare,          \* SPARE_EMPTY_BLOCKS
    MinArray,       \* MIN_ARRAY_SIZE
    Growth,         \* GROWTH_FACTOR
    LowWater,       \* LOW_WATER_FACTOR
    Threshold,      \* ALLOCATIONS_PER_COLLECTION
    MemLimit        \* KJS_MEM_LIMIT

ASSUME AddressAssumption == IsFiniteSet(Blocks) /\ IsFiniteSet(Oversize)
ASSUME TunableAssumption ==
    /\ CellsPerBlock \in Nat \ {0} /\ Spare \in Nat /\ MinArray \in Nat \ {0}
    /\ Threshold \in Nat \ {0} /\ MemLimit \in Nat
    /\ Growth \in Nat \ {0, 1} /\ LowWater \in Nat /\ LowWater >= Growth

VARIABLES
    blocks, numBlocks,      \* heap.blocks up to usedBlocks, and its capacity
    firstSpace,             \* heap.firstBlockWithPossibleSpace, from 1
    cell,                   \* each block's cells: "free", "raw" or "live"
    freeList, nextFree,     \* each block's free list, by cell index
    usedCells,              \* each block's counter
    oversize, numOversize,  \* heap.oversizeCells likewise
    overCell,               \* "free" (not malloced), "raw" or "live"
    numLive, liveAtLast,    \* heap.numLiveObjects, numLiveObjectsAtLastCollect
    memoryFull,             \* Collector::memoryFull
    phase, index, empty,    \* the sweep: which loop, its variable, emptyBlocks
    sweptLive,              \* its local numLiveObjects
    doomed                  \* cells still to be destroyed by this sweep

blockVars == <<cell, freeList, nextFree, usedCells>>
arrayVars == <<blocks, numBlocks, firstSpace>>
overVars  == <<oversize, numOversize, overCell>>
countVars == <<numLive, liveAtLast, memoryFull>>
sweepVars == <<phase, index, empty, sweptLive, doomed>>
vars      == <<blockVars, arrayVars, overVars, countVars, sweepVars>>

Cells == 1 .. CellsPerBlock
NoCell == CellsPerBlock + 1    \* the free list of a full block points past it
SlabCells == Blocks \X Cells
MaxCells == Cardinality(SlabCells) + Cardinality(Oversize)
ArrayBound == MinArray + Growth * MaxCells

CellStates == {"free", "raw", "live"}

TypeOK ==
    /\ cell \in [Blocks -> [Cells -> CellStates]]
    /\ freeList \in [Blocks -> 1 .. NoCell]
    /\ nextFree \in [Blocks -> [Cells -> 0 .. NoCell]]
    /\ usedCells \in [Blocks -> 0 .. CellsPerBlock]
    /\ blocks \in Seq(Blocks) /\ numBlocks \in 0 .. ArrayBound
    /\ firstSpace \in 1 .. Cardinality(Blocks) + 1
    /\ oversize \in Seq(Oversize) /\ numOversize \in 0 .. ArrayBound
    /\ overCell \in [Oversize -> CellStates]
    /\ numLive \in 0 .. MaxCells /\ liveAtLast \in 0 .. MaxCells
    /\ sweptLive \in 0 .. MaxCells
    /\ memoryFull \in BOOLEAN
    /\ phase \in {"idle", "blocks", "oversize"}
    /\ index \in 0 .. MaxCells + 1 /\ empty \in 0 .. Cardinality(Blocks)
    /\ doomed \subseteq SlabCells \cup Oversize

\* A zeroed block: offset 0 in a free cell means that the next cell follows.
ZeroCells == [i \in Cells |-> "free"]
ZeroLinks == [i \in Cells |-> i + 1]

Init ==
    /\ cell = [b \in Blocks |-> ZeroCells]
    /\ freeList = [b \in Blocks |-> 1]
    /\ nextFree = [b \in Blocks |-> ZeroLinks]
    /\ usedCells = [b \in Blocks |-> 0]
    /\ blocks = <<>> /\ numBlocks = 0 /\ firstSpace = 1
    /\ oversize = <<>> /\ numOversize = 0
    /\ overCell = [o \in Oversize |-> "free"]
    /\ numLive = 0 /\ liveAtLast = 0 /\ memoryFull = FALSE
    /\ phase = "idle" /\ index = 0 /\ empty = 0 /\ sweptLive = 0
    /\ doomed = {}

InArray(s) == {s[i] : i \in DOMAIN s}

\* Room for one more entry in an array of capacity n that holds used.
Grown(n, used) ==
    IF used # n THEN n ELSE IF n * Growth > MinArray THEN n * Growth ELSE MinArray

\* The capacity after an entry was removed and used are left.
Shrunk(n, used) ==
    IF n > MinArray /\ used < n \div LowWater THEN n \div Growth ELSE n

\* (Mutant: the last entry is not moved.)
CutOff(s, i) == SubSeq(s, 1, Len(s) - 1)

\* heap.blocks[i] = heap.blocks[--heap.usedBlocks]
SwapOut(s, i) == SubSeq([s EXCEPT ![i] = s[Len(s)]], 1, Len(s) - 1)

------------------------------------------------------------------------------
(* Collector::allocate.                                                    *)

CanAllocate == phase = "idle" /\ numLive - liveAtLast < Threshold

\* The cell at the head of b's free list is detached from it.
TakeCell(b) ==
    LET i == freeList[b] IN
        /\ cell' = [cell EXCEPT ![b][i] = "raw"]
        /\ freeList' = [freeList EXCEPT ![b] = nextFree[b][i]]
        /\ nextFree' = [nextFree EXCEPT ![b][i] = 0]
        /\ usedCells' = [usedCells EXCEPT ![b] = @ + 1]
        /\ numLive' = numLive + 1

\* Blocks of the array that are not full, at or after firstSpace.
WithSpace == {i \in firstSpace .. Len(blocks) : usedCells[blocks[i]] # CellsPerBlock}

AllocateInBlock ==
    /\ CanAllocate
    /\ WithSpace # {}
    /\ firstSpace' = Min(WithSpace)
    /\ TakeCell(blocks[Min(WithSpace)])
    /\ UNCHANGED <<blocks, numBlocks, overVars, liveAtLast, memoryFull, sweepVars>>

AllocateInNewBlock(b) ==
    /\ CanAllocate
    /\ WithSpace = {}
    /\ b \notin InArray(blocks)
    /\ numBlocks' = Grown(numBlocks, Len(blocks))
    /\ blocks' = Append(blocks, b)
    /\ firstSpace' = Len(blocks) + 1
    /\ TakeCell(b)
    /\ UNCHANGED <<overVars, liveAtLast, memoryFull, sweepVars>>

AllocateOversize(o) ==
    /\ CanAllocate
    /\ overCell[o] = "free"
    /\ numOversize' = Grown(numOversize, Len(oversize))
    /\ oversize' = Append(oversize, o)
    /\ overCell' = [overCell EXCEPT ![o] = "raw"]
    /\ numLive' = numLive + 1
    /\ UNCHANGED <<blockVars, arrayVars, liveAtLast, memoryFull, sweepVars>>

\* The constructor writes the virtual table pointer over zeroIfFree.
ConstructInBlock(b, i) ==
    /\ phase = "idle"
    /\ cell[b][i] = "raw"
    /\ cell' = [cell EXCEPT ![b][i] = "live"]
    /\ UNCHANGED <<freeList, nextFree, usedCells, arrayVars, overVars, countVars,
                   sweepVars>>

ConstructOversize(o) ==
    /\ phase = "idle"
    /\ overCell[o] = "raw"
    /\ overCell' = [overCell EXCEPT ![o] = "live"]
    /\ UNCHANGED <<blockVars, arrayVars, oversize, numOversize, countVars, sweepVars>>

------------------------------------------------------------------------------
(* The sweep of Collector::collect.                                        *)

LiveCells ==
    {c \in SlabCells : cell[c[1]][c[2]] = "live"}
        \cup {o \in Oversize : overCell[o] = "live"}

\* Nothing tells an unconstructed oversize cell from a constructed one: its
\* mark is whatever malloc returned, so it may be destroyed.
UnreadOversize == {o \in Oversize : overCell[o] = "raw"}

\* (Mutant: the local count starts from the last collection's.)
BeginSweepStale(D) ==
    /\ phase = "idle"
    /\ D \subseteq LiveCells \cup UnreadOversize
    /\ doomed' = D
    /\ phase' = "blocks" /\ index' = 1 /\ empty' = 0 /\ sweptLive' = liveAtLast
    /\ UNCHANGED <<blockVars, arrayVars, overVars, countVars>>

BeginSweep(D) ==
    /\ phase = "idle"
    /\ D \subseteq LiveCells \cup UnreadOversize
    /\ doomed' = D
    /\ phase' = "blocks" /\ index' = 1 /\ empty' = 0 /\ sweptLive' = numLive
    /\ UNCHANGED <<blockVars, arrayVars, overVars, countVars>>

\* The cells of b the sweep looks at.  In a block that is not full it stops
\* after usedCells cells, not counting those whose first word is zero.
\* (Mutant: the free cells among them are counted too.)
VisitedPrefix(b) == {i \in Cells : i <= usedCells[b]}

Visited(b) ==
    IF usedCells[b] = CellsPerBlock THEN Cells
    ELSE {i \in Cells :
            Cardinality({j \in 1 .. i - 1 : cell[b][j] = "live"}) < usedCells[b]}

\* (Mutant: a zero first word is not taken for a free cell.)
FreedUnchecked(b) == {i \in Visited(b) : cell[b][i] = "raw" \/ <<b, i>> \in doomed}

\* Those it destroys, each put in front of the free list.
Freed(b) == {i \in Visited(b) : <<b, i>> \in doomed /\ cell[b][i] = "live"}

\* (Mutant: each cell is linked to the old head of the free list.)
SweepCellsUnlinked(b) ==
    LET F == Freed(b) IN
        /\ cell' = [cell EXCEPT ![b] =
                        [i \in Cells |-> IF i \in F THEN "free" ELSE @[i]]]
        /\ nextFree' = [nextFree EXCEPT ![b] =
                [i \in Cells |-> IF i \in F THEN freeList[b] ELSE @[i]]]
        /\ freeList' = [freeList EXCEPT ![b] = IF F = {} THEN @ ELSE Max(F)]
        /\ usedCells' = [usedCells EXCEPT ![b] = @ - Cardinality(F)]
        /\ sweptLive' = sweptLive - Cardinality(F)
        /\ doomed' = doomed \ {<<b, i>> : i \in F}

SweepCells(b) ==
    LET F == Freed(b)
        Before(i) == {j \in F : j < i}
    IN
        /\ cell' = [cell EXCEPT ![b] =
                        [i \in Cells |-> IF i \in F THEN "free" ELSE @[i]]]
        /\ nextFree' = [nextFree EXCEPT ![b] =
                [i \in Cells |-> IF i \notin F THEN @[i]
                                 ELSE IF Before(i) = {} THEN freeList[b]
                                 ELSE Max(Before(i))]]
        /\ freeList' = [freeList EXCEPT ![b] = IF F = {} THEN @ ELSE Max(F)]
        /\ usedCells' = [usedCells EXCEPT ![b] = @ - Cardinality(F)]
        /\ sweptLive' = sweptLive - Cardinality(F)
        /\ doomed' = doomed \ {<<b, i>> : i \in F}

\* One turn of the loop over the blocks, for a block that stays.
SweepBlock ==
    /\ phase = "blocks" /\ index <= Len(blocks)
    /\ LET b == blocks[index]
           nowEmpty == usedCells[b] = Cardinality(Freed(b))
       IN
        /\ nowEmpty => empty < Spare
        /\ empty' = IF nowEmpty THEN empty + 1 ELSE empty
        /\ SweepCells(b)
    /\ index' = index + 1
    /\ UNCHANGED <<arrayVars, overVars, countVars, phase>>

\* One turn for an empty block too many: it is freed, the last block takes its
\* place and is looked at next.
SweepAndFreeBlock ==
    /\ phase = "blocks" /\ index <= Len(blocks)
    /\ LET b == blocks[index]
           F == Freed(b)
       IN
        /\ usedCells[b] = Cardinality(F) /\ empty >= Spare
        /\ empty' = empty + 1
        /\ cell' = [cell EXCEPT ![b] = ZeroCells]
        /\ freeList' = [freeList EXCEPT ![b] = 1]
        /\ nextFree' = [nextFree EXCEPT ![b] = ZeroLinks]
        /\ usedCells' = [usedCells EXCEPT ![b] = 0]
        /\ sweptLive' = sweptLive - Cardinality(F)
        /\ doomed' = doomed \ {<<b, i>> : i \in F}
    /\ blocks' = SwapOut(blocks, index)
    /\ numBlocks' = Shrunk(numBlocks, Len(blocks) - 1)
    /\ UNCHANGED <<index, firstSpace, overVars, countVars, phase>>

\* After the last block the search for space starts anew, if any was made.
EndBlocks ==
    /\ phase = "blocks" /\ index > Len(blocks)
    /\ firstSpace' = IF sweptLive # numLive THEN 1 ELSE firstSpace
    /\ phase' = "oversize" /\ index' = 1
    /\ UNCHANGED <<blockVars, blocks, numBlocks, overVars, countVars, empty,
                   sweptLive, doomed>>

\* (Mutant: the array is not shortened.)
SweepOversizeInPlace ==
    /\ phase = "oversize" /\ index <= Len(oversize)
    /\ IF oversize[index] \in doomed THEN
           /\ overCell' = [overCell EXCEPT ![oversize[index]] = "free"]
           /\ sweptLive' = sweptLive - 1
           /\ doomed' = doomed \ {oversize[index]}
           /\ UNCHANGED <<index, oversize, numOversize>>
       ELSE index' = index + 1 /\ UNCHANGED <<overVars, sweptLive, doomed>>
    /\ UNCHANGED <<blockVars, arrayVars, countVars, phase, empty>>

SweepOversize ==
    /\ phase = "oversize" /\ index <= Len(oversize)
    /\ LET o == oversize[index] IN
        IF o \in doomed THEN
            /\ overCell' = [overCell EXCEPT ![o] = "free"]
            /\ oversize' = SwapOut(oversize, index)
            /\ numOversize' = Shrunk(numOversize, Len(oversize) - 1)
            /\ sweptLive' = sweptLive - 1
            /\ doomed' = doomed \ {o}
            /\ UNCHANGED index
        ELSE
            /\ index' = index + 1
            /\ UNCHANGED <<overVars, sweptLive, doomed>>
    /\ UNCHANGED <<blockVars, arrayVars, countVars, phase, empty>>

EndSweep ==
    /\ phase = "oversize" /\ index > Len(oversize)
    /\ numLive' = sweptLive /\ liveAtLast' = sweptLive
    /\ memoryFull' = (sweptLive >= MemLimit)
    /\ phase' = "idle" /\ index' = 0 /\ empty' = 0 /\ sweptLive' = 0
    /\ UNCHANGED <<blockVars, arrayVars, overVars, doomed>>

------------------------------------------------------------------------------
AllocateStep ==
    \/ AllocateInBlock
    \/ \E b \in Blocks : AllocateInNewBlock(b)
    \/ \E o \in Oversize : AllocateOversize(o)

ConstructStep ==
    \/ \E b \in Blocks, i \in Cells : ConstructInBlock(b, i)
    \/ \E o \in Oversize : ConstructOversize(o)

SweepStep == SweepBlock \/ SweepAndFreeBlock \/ EndBlocks \/ SweepOversize \/ EndSweep

Next ==
    \/ AllocateStep \/ ConstructStep \/ SweepStep
    \/ \E D \in SUBSET (LiveCells \cup UnreadOversize) : BeginSweep(D)

Spec == Init /\ [][Next]_vars

------------------------------------------------------------------------------
(* Properties.                                                             *)

FreeCells(b) == {i \in Cells : cell[b][i] = "free"}

\* The cells met on b's free list within n steps.
ListFrom(b) ==
    LET f[n \in 0 .. CellsPerBlock] ==
            IF n = 0 THEN freeList[b]
            ELSE IF f[n - 1] = NoCell THEN NoCell ELSE nextFree[b][f[n - 1]]
    IN  f

\* The free list of a block visits each of its free cells once, nothing else,
\* and ends; so no cell is handed out twice, and none is lost, whatever mix of
\* fresh and recycled cells the block holds.  And the allocator's shortcut is
\* right: no block before firstSpace has room.
FreeListsExact ==
    /\ \A b \in Blocks :
        LET f == ListFrom(b)
            free == Cardinality(FreeCells(b))
        IN  /\ {f[n] : n \in 0 .. free - 1} = FreeCells(b)
            /\ f[free] = NoCell
            /\ usedCells[b] = CellsPerBlock - free
    /\ phase = "idle" =>
        /\ firstSpace <= Len(blocks) + 1
        /\ \A i \in 1 .. firstSpace - 1 : usedCells[blocks[i]] = CellsPerBlock

\* The arrays hold what they must, each entry once, and no more than the
\* capacity that was (re)allocated for them; and the counter that triggers
\* collections is the number of the cells allocated in them.
ArraysExact ==
    LET now == Cardinality({c \in SlabCells : cell[c[1]][c[2]] # "free"})
                   + Cardinality({o \in Oversize : overCell[o] # "free"})
    IN  /\ IF phase = "idle" THEN numLive = now /\ liveAtLast <= numLive
           ELSE sweptLive = now
        /\ Len(blocks) <= numBlocks /\ Len(oversize) <= numOversize
        /\ Cardinality(InArray(blocks)) = Len(blocks)
        /\ Cardinality(InArray(oversize)) = Len(oversize)
        /\ InArray(oversize) = {o \in Oversize : overCell[o] # "free"}
        /\ \A b \in Blocks : usedCells[b] > 0 => b \in InArray(blocks)

\* A sweep destroys all the doomed cells: neither the early end of the loop over
\* a partly used block nor the swapping of the arrays makes it miss one; and it
\* leaves no more empty blocks than it means to.
SweepComplete ==
    phase = "idle" =>
        /\ doomed = {}
        /\ Cardinality({b \in InArray(blocks) : usedCells[b] = 0}) <= Spare

\* A sweep destroys nothing else: in particular no cell that is allocated but
\* not yet constructed, though it looks free to the sweep.
SweepSpares ==
    [][\A c \in SlabCells :
        cell[c[1]][c[2]] # "free" /\ cell'[c[1]][c[2]] = "free" => c \in doomed]_vars

\* Every turn of the sweep's loops brings it nearer to its end, those that swap
\* an entry out and stay where they are too; so Collector::collect returns.
TurnsLeft ==
    IF phase = "blocks" THEN Len(blocks) + Len(oversize) + 4 - index
    ELSE IF phase = "oversize" THEN Len(oversize) + 2 - index
    ELSE 0

SweepAdvances == [][phase # "idle" => TurnsLeft' < TurnsLeft]_vars
==============================================================================
