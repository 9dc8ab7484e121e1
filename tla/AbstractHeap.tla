---------------------------- MODULE AbstractHeap ----------------------------
(***************************************************************************)
(* What a GlobalAlloc of allocator/ promises the kernel's collections      *)
(* (Box, Vec, String).  alloc(layout) returns null or the start of a block *)
(* of layout.size bytes, aligned to layout.align, inside the heap mapped   *)
(* by init_heap and overlapping no block handed out and not yet given      *)
(* back; dealloc(ptr, layout) gives such a block back.  Each holder of a   *)
(* block is a slot: live[s] is the block it holds, Null when none.         *)
(***************************************************************************)
EXTENDS Naturals

CONSTANTS
    HeapStart,  \* HEAP_START, scaled; aligned to every alignment used
    HeapSize,   \* HEAP_SIZE, scaled
    Layouts,    \* the layouts the collections ask for: [size, align]
    Slots       \* the holders of blocks

VARIABLE live

Null == [ptr |-> 0, size |-> 0, align |-> 1]

BlockAt(p, l) == [ptr |-> p, size |-> l.size, align |-> l.align]

HeapEnd == HeapStart + HeapSize

Disjoint(a, b) == a.ptr + a.size <= b.ptr \/ b.ptr + b.size <= a.ptr

\* A block slot s may be given: in the heap, aligned, and clear of every
\* block another slot holds.
Usable(b, s) ==
    /\ HeapStart <= b.ptr /\ b.ptr + b.size <= HeapEnd
    /\ b.ptr % b.align = 0
    /\ \A t \in Slots \ {s} : Disjoint(b, live[t])

Init == live = [s \in Slots |-> Null]

\* alloc: null (allocation failure is always allowed) or a usable block.
Alloc(s, l) ==
    /\ live[s] = Null
    /\ \E p \in HeapStart .. HeapEnd - 1 :
        /\ Usable(BlockAt(p, l), s)
        /\ live' = [live EXCEPT ![s] = BlockAt(p, l)]

Dealloc(s) ==
    /\ live[s] # Null
    /\ live' = [live EXCEPT ![s] = Null]

Next == \E s \in Slots : Dealloc(s) \/ \E l \in Layouts : Alloc(s, l)

Spec == Init /\ [][Next]_live
=============================================================================
