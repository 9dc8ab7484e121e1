----------------------- MODULE FixedSizeBlockAllocator ----------------------
(***************************************************************************)
(* allocator/fixed_size_block.rs, the kernel's global allocator, behind    *)
(* Locked: each alloc and dealloc is one step.  list_heads[i] is the list  *)
(* of free blocks of BlockSizes[i] bytes, first to last.  The fallback,    *)
(* linked_list_allocator::Heap of an external crate, is abstracted to the  *)
(* regions it has handed out and not got back: allocate_first_fit returns  *)
(* null or an aligned region clear of them, deallocate takes one back.     *)
(***************************************************************************)
EXTENDS Naturals, Sequences, SequencesExt

CONSTANTS HeapStart, HeapSize, Layouts, Slots,
          BlockSizes    \* BLOCK_SIZES, scaled: increasing powers of two >= 8

VARIABLES
    list_heads,     \* FixedSizeBlockAllocator.list_heads
    fallback,       \* the regions the fallback allocator has handed out
    live            \* the block each slot holds

vars == << list_heads, fallback, live >>

Null == [ptr |-> 0, size |-> 0, align |-> 1]

BlockAt(p, l) == [ptr |-> p, size |-> l.size, align |-> l.align]

LayoutOf(b) == [size |-> b.size, align |-> b.align]

HeapEnd == HeapStart + HeapSize

Indices == 1 .. Len(BlockSizes)

\* (Mutant: the comparison of list_index turned round.)
ListIndexBelow(l) ==
    SelectInSeq(BlockSizes, LAMBDA bs : bs <= (IF l.size < l.align THEN l.align ELSE l.size))

\* list_index: the first block size >= max(size, align), 0 for None.
ListIndex(l) ==
    SelectInSeq(BlockSizes, LAMBDA bs : bs >= (IF l.size < l.align THEN l.align ELSE l.size))

\* The regions a fallback allocation of layout l may return.
FallbackChoices(l) ==
    { p \in HeapStart .. HeapEnd - l.size :
        /\ p % l.align = 0
        /\ \A r \in fallback : p + l.size <= r.ptr \/ r.ptr + r.size <= p }

Init ==
    /\ list_heads = [i \in Indices |-> << >>]
    /\ fallback = {}
    /\ live = [s \in Slots |-> Null]

\* fallback_alloc(fl) on behalf of slot s asking for layout l: null, or a
\* region the fallback records as handed out.
FallbackAlloc(s, l, fl) ==
    /\ UNCHANGED list_heads
    /\ \/ UNCHANGED << fallback, live >>
       \/ \E p \in FallbackChoices(fl) :
            /\ fallback' = fallback \cup {[ptr |-> p, size |-> fl.size]}
            /\ live' = [live EXCEPT ![s] = BlockAt(p, l)]

\* (Mutant: an empty list falls back with the caller's layout.)
BlockLayoutOfCaller(l, i) == l

\* The layout of a new block of list i: block_size for size and alignment.
BlockLayout(l, i) == [size |-> BlockSizes[i], align |-> BlockSizes[i]]

\* (Mutant: the head taken without list_heads[index] = node.next.)
NotRelinked(heads, i) == heads

\* The list without its head node: node.next becomes the head.
Relinked(heads, i) == [heads EXCEPT ![i] = Tail(@)]

(***************************************************************************)
(* alloc: a layout with a block size takes the head of that list, or when  *)
(* the list is empty a new block of the block size from the fallback;      *)
(* a larger layout goes to the fallback as it is.                          *)
(***************************************************************************)
Alloc(s, l) ==
    LET i == ListIndex(l) IN
    /\ live[s] = Null
    /\ CASE i # 0 /\ list_heads[i] # << >> ->
              /\ list_heads' = Relinked(list_heads, i)
              /\ live' = [live EXCEPT ![s] = BlockAt(Head(list_heads[i]), l)]
              /\ UNCHANGED fallback
         [] i # 0 -> FallbackAlloc(s, l, BlockLayout(l, i))
         [] OTHER -> FallbackAlloc(s, l, l)

(***************************************************************************)
(* dealloc: a block of a block size is pushed on the front of its list and *)
(* never returned to the fallback; a larger one goes back to the fallback. *)
(* The asserts that a ListNode fits a block hold as BlockSizes >= 8.       *)
(***************************************************************************)
Dealloc(s) ==
    LET b == live[s]
        i == ListIndex(LayoutOf(b))
    IN
    /\ b # Null
    /\ IF i # 0
       THEN /\ list_heads' = [list_heads EXCEPT ![i] = << b.ptr >> \o @]
            /\ UNCHANGED fallback
       ELSE /\ fallback' = fallback \ {[ptr |-> b.ptr, size |-> b.size]}
            /\ UNCHANGED list_heads
    /\ live' = [live EXCEPT ![s] = Null]

Next == \E s \in Slots : Dealloc(s) \/ \E l \in Layouts : Alloc(s, l)

Spec == Init /\ [][Next]_vars

-----------------------------------------------------------------------------
\* The fallback hands out whole blocks, or layouts too large for one.
FsbTypeOK ==
    /\ list_heads \in [Indices -> Seq(HeapStart .. HeapEnd - 1)]
    /\ fallback \subseteq [ptr : HeapStart .. HeapEnd - 1,
                           size : {BlockSizes[i] : i \in Indices} \cup {l.size : l \in {m \in Layouts : ListIndex(m) = 0}}]
    /\ live \in [Slots -> {Null} \cup {BlockAt(p, l) : p \in HeapStart .. HeapEnd - 1, l \in Layouts}]

(***************************************************************************)
(* Every block on list i is a region of BlockSizes[i] bytes the fallback   *)
(* handed out, it is on no other list and at no other place of its list,  *)
(* and no slot holds it.  What makes popping a list safe: alloc asks the   *)
(* fallback for a whole block of the list's size, and dealloc finds the    *)
(* list again from the layout alone.                                       *)
(***************************************************************************)
BlocksAccounted ==
    \A i \in Indices : \A k \in DOMAIN list_heads[i] :
        LET p == list_heads[i][k] IN
        /\ [ptr |-> p, size |-> BlockSizes[i]] \in fallback
        /\ \A s \in Slots : live[s].ptr # p
        /\ \A j \in Indices : \A m \in DOMAIN list_heads[j] :
              list_heads[j][m] = p => << j, m >> = << i, k >>

Heap == INSTANCE AbstractHeap

\* Every block alloc returns is in the heap, aligned, and clear of every
\* block still held, whether it comes from a list or from the fallback.
FsbImplementsHeap == Heap!Spec
=============================================================================
