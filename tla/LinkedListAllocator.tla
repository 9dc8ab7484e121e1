------------------------- MODULE LinkedListAllocator ------------------------
(***************************************************************************)
(* allocator/linked_list.rs behind Locked: each alloc and dealloc is one   *)
(* step.  The free list after head is a sequence of regions, first to      *)
(* last; the ListNode written at a region's start is its start and size.   *)
(* panicked records a failed assert! of add_free_region.                   *)
(***************************************************************************)
EXTENDS Naturals, Sequences, SequencesExt

CONSTANTS HeapStart, HeapSize, Layouts, Slots

VARIABLES
    free,       \* the regions linked from head.next, in list order
    live,       \* the block each slot holds
    panicked    \* an assert of add_free_region failed

vars == << free, live, panicked >>

Null == [ptr |-> 0, size |-> 0, align |-> 1]

BlockAt(p, l) == [ptr |-> p, size |-> l.size, align |-> l.align]

\* mem::size_of::<ListNode>() and mem::align_of::<ListNode>(): a usize and
\* an Option<&mut ListNode>.
NodeSize == 16
NodeAlign == 8

\* align_up of allocator/mod.rs, for power-of-two alignments.
AlignUp(addr, align) == (addr + align - 1) - ((addr + align - 1) % align)

Region(addr, size) == [start |-> addr, size |-> size]

EndAddr(r) == r.start + r.size

\* add_free_region's two asserts.
FreeRegionOK(addr, size) == AlignUp(addr, NodeAlign) = addr /\ size >= NodeSize

\* add_free_region: the region goes to the front of the list.
AddFreeRegion(list, addr, size) == << Region(addr, size) >> \o list

\* (Mutant: the excess linked back even when it is empty.)
SplitAlways(list, alloc_end, excess) == AddFreeRegion(list, alloc_end, excess)

\* The end of alloc: a non-empty excess after the block is a free region.
Split(list, alloc_end, excess) ==
    IF excess > 0 THEN AddFreeRegion(list, alloc_end, excess) ELSE list

\* size_align: the alignment raised to NodeAlign, the size padded to a
\* multiple of it, and at least NodeSize.
SizeAlign(l) ==
    LET align == IF l.align < NodeAlign THEN NodeAlign ELSE l.align
        size  == AlignUp(l.size, align)
    IN  [size |-> IF size < NodeSize THEN NodeSize ELSE size, align |-> align]

\* (Mutant: alloc_from_region without the test on a too small excess.)
FitsAnyExcess(r, size, align) ==
    AlignUp(r.start, align) + size <= EndAddr(r)

\* (Mutant: alloc_from_region without the test that the block ends inside.)
FitsPastEnd(r, size, align) ==
    LET excess == EndAddr(r) - (AlignUp(r.start, align) + size)
    IN  ~(excess > 0 /\ excess < NodeSize)

\* alloc_from_region is Ok when the aligned block ends inside the region
\* and leaves either nothing or room for a ListNode after it.
Fits(r, size, align) ==
    LET alloc_end == AlignUp(r.start, align) + size
        excess    == EndAddr(r) - alloc_end
    IN  /\ alloc_end <= EndAddr(r)
        /\ ~(excess > 0 /\ excess < NodeSize)

\* find_region: the first region alloc_from_region accepts, 0 if none.
FindRegion(size, align) == SelectInSeq(free, LAMBDA r : Fits(r, size, align))

\* init_heap: new() then init, which adds the whole heap as one region.
Init ==
    /\ free = << Region(HeapStart, HeapSize) >>
    /\ live = [s \in Slots |-> Null]
    /\ panicked = FALSE

(***************************************************************************)
(* alloc: find_region unlinks the first region that fits; the block starts *)
(* at its start aligned up; an excess after the block goes back to the     *)
(* front of the list.  The padding before an aligned start is not given    *)
(* back.  No region fits: null.                                            *)
(***************************************************************************)
Alloc(s, l) ==
    LET sa == SizeAlign(l)
        i  == FindRegion(sa.size, sa.align)
    IN
    /\ ~panicked
    /\ live[s] = Null
    /\ IF i = 0
       THEN UNCHANGED vars
       ELSE LET r         == free[i]
                start     == AlignUp(r.start, sa.align)
                alloc_end == start + sa.size
                excess    == EndAddr(r) - alloc_end
            IN  /\ free' = Split(RemoveAt(free, i), alloc_end, excess)
                /\ panicked' = (excess > 0 /\ ~FreeRegionOK(alloc_end, excess))
                /\ live' = [live EXCEPT ![s] = BlockAt(start, l)]

\* dealloc: the block, with the size size_align gives its layout, goes to
\* the front of the list.  Adjacent regions are never merged.
Dealloc(s) ==
    LET b  == live[s]
        sa == SizeAlign([size |-> b.size, align |-> b.align])
    IN
    /\ ~panicked
    /\ b # Null
    /\ free' = AddFreeRegion(free, b.ptr, sa.size)
    /\ panicked' = ~FreeRegionOK(b.ptr, sa.size)
    /\ live' = [live EXCEPT ![s] = Null]

Next == \E s \in Slots : Dealloc(s) \/ \E l \in Layouts : Alloc(s, l)

Spec == Init /\ [][Next]_vars

-----------------------------------------------------------------------------
\* The list links no empty region.
LlTypeOK ==
    /\ free \in Seq([start : HeapStart .. HeapStart + HeapSize, size : 1 .. HeapSize])
    /\ live \in [Slots -> {Null} \cup {BlockAt(p, l) : p \in HeapStart .. HeapStart + HeapSize, l \in Layouts}]
    /\ panicked \in BOOLEAN

(***************************************************************************)
(* No assert of add_free_region fails: every region alloc splits off and   *)
(* every block dealloc gives back starts aligned for a ListNode and has    *)
(* room for one.  This rests on size_align padding every size to its       *)
(* alignment and on alloc_from_region refusing a too small excess.         *)
(***************************************************************************)
FreeRegionsHoldNodes == ~panicked

Heap == INSTANCE AbstractHeap

\* Every block alloc returns is in the heap, aligned, and clear of every
\* block still held, though the list is split and refilled in any order.
LlImplementsHeap == Heap!Spec
=============================================================================
