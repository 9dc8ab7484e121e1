---------------------------- MODULE BumpAllocator ---------------------------
(***************************************************************************)
(* allocator/bump.rs behind Locked (a spin::Mutex): each alloc and dealloc *)
(* holds the lock for its whole body, so each is one step.  The state is   *)
(* the allocator's next and allocations after init_heap has called init;   *)
(* live is what the holders of blocks have.                                *)
(***************************************************************************)
EXTENDS Naturals, FiniteSets

CONSTANTS HeapStart, HeapSize, Layouts, Slots

VARIABLES
    next,           \* BumpAllocator.next
    allocations,    \* BumpAllocator.allocations
    live            \* the block each slot holds

vars == << next, allocations, live >>

Null == [ptr |-> 0, size |-> 0, align |-> 1]

BlockAt(p, l) == [ptr |-> p, size |-> l.size, align |-> l.align]

\* init: heap_end = heap_start + heap_size.
HeapEnd == HeapStart + HeapSize

\* align_up: (addr + align - 1) & !(align - 1); for the power-of-two
\* alignments a Layout has, the AND clears the low bits.
AlignUp(addr, align) == (addr + align - 1) - ((addr + align - 1) % align)

\* new() then init(HEAP_START, HEAP_SIZE).
Init ==
    /\ next = HeapStart
    /\ allocations = 0
    /\ live = [s \in Slots |-> Null]

\* (Mutant: alloc without the test against heap_end.)
AllocUnchecked(s, l) ==
    LET start == AlignUp(next, l.align) IN
    /\ live[s] = Null
    /\ next' = start + l.size
    /\ allocations' = allocations + 1
    /\ live' = [live EXCEPT ![s] = BlockAt(start, l)]

(***************************************************************************)
(* alloc: the block starts at next aligned up and ends size bytes later;   *)
(* past heap_end it is null, else next moves to its end and allocations    *)
(* counts it.  checked_add cannot fail: next <= heap_end, and a Layout's   *)
(* size is at most isize::MAX, which HEAP_START leaves room for.           *)
(***************************************************************************)
Alloc(s, l) ==
    LET start == AlignUp(next, l.align)
        end   == start + l.size
    IN
    /\ live[s] = Null
    /\ IF end > HeapEnd
       THEN UNCHANGED << next, allocations, live >>
       ELSE /\ next' = end
            /\ allocations' = allocations + 1
            /\ live' = [live EXCEPT ![s] = BlockAt(start, l)]

\* (Mutant: an off-by-one in the test for the last allocation.)
DeallocEarlyReset(s) ==
    /\ live[s] # Null
    /\ allocations' = allocations - 1
    /\ next' = IF allocations - 1 <= 1 THEN HeapStart ELSE next
    /\ live' = [live EXCEPT ![s] = Null]

\* dealloc: one allocation fewer; when none is left, next goes back to
\* heap_start and the whole heap is reused.
Dealloc(s) ==
    /\ live[s] # Null
    /\ allocations' = allocations - 1
    /\ next' = IF allocations - 1 = 0 THEN HeapStart ELSE next
    /\ live' = [live EXCEPT ![s] = Null]

Next == \E s \in Slots : Dealloc(s) \/ \E l \in Layouts : Alloc(s, l)

Spec == Init /\ [][Next]_vars

-----------------------------------------------------------------------------
BumpTypeOK ==
    /\ next \in HeapStart .. HeapEnd
    /\ allocations \in 0 .. Cardinality(Slots)
    /\ live \in [Slots -> {Null} \cup {BlockAt(p, l) : p \in HeapStart .. HeapEnd, l \in Layouts}]

Heap == INSTANCE AbstractHeap

(***************************************************************************)
(* Every block alloc returns is in the heap, aligned, and clear of every   *)
(* block still held: dealloc frees nothing itself and resets next only     *)
(* when its count of allocations says no block is left.                    *)
(***************************************************************************)
BumpImplementsHeap == Heap!Spec
=============================================================================
