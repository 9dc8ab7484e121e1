------------------------------- MODULE MCHeap -------------------------------
(***************************************************************************)
(* The three allocators of allocator/ on a scaled heap.  mod.rs picks one  *)
(* as the #[global_allocator] ALLOCATOR when the kernel is built (the      *)
(* others are commented out, lines 20-24); allocator is that choice, and   *)
(* the chosen one serves every alloc and dealloc of the run while the      *)
(* others keep their initial state.                                        *)
(***************************************************************************)
EXTENDS Naturals

VARIABLES
    allocator,                      \* the static ALLOCATOR of this build
    bNext, bAllocations, bLive,     \* Locked<BumpAllocator>
    lFree, lLive, lPanicked,        \* Locked<LinkedListAllocator>
    fHeads, fFallback, fLive        \* Locked<FixedSizeBlockAllocator>

\* HEAP_START is 64 KiB aligned; 64 keeps every model alignment and keeps
\* addresses clear of the null pointer 0.  HEAP_SIZE, scaled to 48 bytes,
\* holds two to six blocks, so lists, splits and exhaustion all occur.
MCHeapStart == 64
MCHeapSize == 48
\* A Box<FileNode>-like 8/8, a Vec<char>-like 12/4 and a 24/8 larger than
\* the last block size.
MCLayouts == {[size |-> 8, align |-> 8], [size |-> 12, align |-> 4], [size |-> 24, align |-> 8]}
\* Three holders: enough for a block to be freed between two live ones.
MCSlots == 1 .. 3
\* BLOCK_SIZES, scaled: 12/4 rounds up to the second, 24/8 has none.
MCBlockSizes == << 8, 16 >>

Bump == INSTANCE BumpAllocator
          WITH next <- bNext, allocations <- bAllocations, live <- bLive,
               HeapStart <- MCHeapStart, HeapSize <- MCHeapSize,
               Layouts <- MCLayouts, Slots <- MCSlots

List == INSTANCE LinkedListAllocator
          WITH free <- lFree, live <- lLive, panicked <- lPanicked,
               HeapStart <- MCHeapStart, HeapSize <- MCHeapSize,
               Layouts <- MCLayouts, Slots <- MCSlots

Fixed == INSTANCE FixedSizeBlockAllocator
          WITH list_heads <- fHeads, fallback <- fFallback, live <- fLive,
               HeapStart <- MCHeapStart, HeapSize <- MCHeapSize,
               Layouts <- MCLayouts, Slots <- MCSlots, BlockSizes <- MCBlockSizes

bVars == << bNext, bAllocations, bLive >>
lVars == << lFree, lLive, lPanicked >>
fVars == << fHeads, fFallback, fLive >>
vars == << allocator, bVars, lVars, fVars >>

Init ==
    /\ allocator \in {"bump", "linked_list", "fixed_size_block"}
    /\ Bump!Init /\ List!Init /\ Fixed!Init

\* The steps of the chosen allocator; the others stay as they are.
BumpAlloc(s, l) == allocator = "bump" /\ Bump!Alloc(s, l) /\ UNCHANGED << allocator, lVars, fVars >>
BumpDealloc(s) == allocator = "bump" /\ Bump!Dealloc(s) /\ UNCHANGED << allocator, lVars, fVars >>
ListAlloc(s, l) == allocator = "linked_list" /\ List!Alloc(s, l) /\ UNCHANGED << allocator, bVars, fVars >>
ListDealloc(s) == allocator = "linked_list" /\ List!Dealloc(s) /\ UNCHANGED << allocator, bVars, fVars >>
FixedAlloc(s, l) == allocator = "fixed_size_block" /\ Fixed!Alloc(s, l) /\ UNCHANGED << allocator, bVars, lVars >>
FixedDealloc(s) == allocator = "fixed_size_block" /\ Fixed!Dealloc(s) /\ UNCHANGED << allocator, bVars, lVars >>

Next ==
    \E s \in MCSlots :
        \/ BumpDealloc(s) \/ ListDealloc(s) \/ FixedDealloc(s)
        \/ \E l \in MCLayouts : BumpAlloc(s, l) \/ ListAlloc(s, l) \/ FixedAlloc(s, l)

Spec == Init /\ [][Next]_vars

-----------------------------------------------------------------------------
(* The properties, stated in the allocator modules.                        *)

BumpTypeOK == Bump!BumpTypeOK
BumpImplementsHeap == Bump!BumpImplementsHeap
LlTypeOK == List!LlTypeOK
FreeRegionsHoldNodes == List!FreeRegionsHoldNodes
LlImplementsHeap == List!LlImplementsHeap
FsbTypeOK == Fixed!FsbTypeOK
BlocksAccounted == Fixed!BlocksAccounted
FsbImplementsHeap == Fixed!FsbImplementsHeap
=============================================================================
