----------------------------- MODULE MCAllocators -----------------------------
(* Both allocators for TLC: a behaviour uses one of them.  A unit is 4 bytes;  *)
(* sizes and alignments are those of the kernel on a small heap.               *)
EXTENDS BlockHeap, ListHeap

VARIABLE which   \* the allocator in use

MCLayouts == {[size |-> 1, align |-> 1], [size |-> 3, align |-> 2], [size |-> 3, align |-> 4],
              [size |-> 2, align |-> 8], [size |-> 9, align |-> 2]}

MCBlockSizes == <<2, 4, 8>>

MCInit ==
  \/ which = "block" /\ BlockInit /\ regions = <<>> /\ panicked = FALSE
  \/ which = "list" /\ ListInit /\ list_heads = <<>> /\ holes = {} /\ taken = 0 /\ block_free = 0

MCNext ==
  /\ UNCHANGED which
  /\ \/ which = "block" /\ BlockNext /\ UNCHANGED listVars
     \/ which = "list" /\ ListNext /\ UNCHANGED blockVars

mcVars == <<which, live, blockVars, listVars>>

MCSpec == MCInit /\ [][MCNext]_mcVars

\* Either allocator keeps the promise of a GlobalAlloc: alloc answers with memory of
\* the heap that is aligned, large enough and not in use, through every sequence of
\* allocations and releases.
ImplementsAllocator == Spec

\* FixedSizeBlockAllocator: block_free, used() and free() stay right, and every unit of
\* the heap is in exactly one live block, list or hole.
BlockMemoryAccounted == which = "block" => BlocksAccounted /\ HeapPartitioned

\* LinkedListAllocator: the nodes it writes are in memory that is free and fit to hold
\* them, so the assertions of add_free_region hold.
ListRegionsSound == which = "list" => RegionsSound

\* LinkedListAllocator: memory is lost in one way only, to alignment in front of an
\* allocation; freeing loses nothing and what is lost stays lost.
ListLosesOnlyPadding == [][which = "list" => LosesOnlyPadding]_mcVars
===============================================================================
