------------------------------- MODULE BlockHeap -------------------------------
(***************************************************************************)
(* FixedSizeBlockAllocator (allocator/fixed_size_block.rs), the kernel's   *)
(* global allocator: a list of free blocks for each block size, in front   *)
(* of a first-fit heap.  Its lock is taken for every operation, so each is *)
(* one step.                                                               *)
(*                                                                         *)
(* The heap below is the linked_list_allocator crate, which is external:   *)
(* it answers with some free range that is aligned, or with an error, and  *)
(* counts what it handed out.                                              *)
(***************************************************************************)
EXTENDS Allocator

VARIABLES
  list_heads,  \* the free blocks of each size, the first of the list first
  holes,       \* the units the fallback heap may hand out
  taken,       \* what the fallback heap counts as used
  block_free   \* the sizes of the blocks in the lists

blockVars == <<list_heads, holes, taken, block_free>>

BlockInit ==
  /\ live = {}
  /\ list_heads = [i \in 1 .. Len(BlockSizes) |-> <<>>]
  /\ holes = 0 .. HeapSize - 1
  /\ taken = 0
  /\ block_free = 0

-------------------------------------------------------------------------------
(* A "..._fault" is a broken form of the definition after it, used only to *)
(* show that a property notices.                                           *)

\* The first size that holds the layout and has its alignment; 0 if none does.
list_index_fault(l) == SelectInSeq(BlockSizes, LAMBDA s : s >= l.size)
list_index(l) == SelectInSeq(BlockSizes, LAMBDA s : s >= Max({l.size, l.align}))

\* What the fallback heap takes for a request, rounded up so that it can become a hole
\* again, and where it may take it.
fallback_size(n) == align_up(Max({n, MinHole}), HoleAlign)
fallback_fits(size, align) ==
  {a \in 0 .. HeapSize - fallback_size(size) :
     a % align = 0 /\ Units(a, fallback_size(size)) \subseteq holes}

\* A new range of the fallback heap for layout l, or a null pointer.
fallback_alloc(l, size, align) ==
  \/ UNCHANGED <<live, blockVars>>
  \/ \E a \in fallback_fits(size, align) :
       /\ holes' = holes \ Units(a, fallback_size(size))
       /\ taken' = taken + fallback_size(size)
       /\ live' = live \cup {[start |-> a, layout |-> l]}
       /\ UNCHANGED <<list_heads, block_free>>

\* What a block leaving its list takes off block_free.
block_taken_fault(i, l) == l.size                          \* not the block's size
block_taken(i, l) == BlockSizes[i]

\* The first block of the list, or a new block as large and as aligned as its size.
block_alloc(l) ==
  LET i == list_index(l)
  IN  IF i = 0 THEN fallback_alloc(l, l.size, l.align)
      ELSE IF list_heads[i] = <<>> THEN fallback_alloc(l, BlockSizes[i], BlockSizes[i])
      ELSE /\ live' = live \cup {[start |-> Head(list_heads[i]), layout |-> l]}
           /\ list_heads' = [list_heads EXCEPT ![i] = Tail(@)]
           /\ block_free' = block_free - block_taken(i, l)
           /\ UNCHANGED <<holes, taken>>

\* A block goes to the front of its list for ever, anything larger to the heap.
block_dealloc(b) ==
  LET i == list_index(b.layout)
  IN  /\ live' = live \ {b}
      /\ IF i = 0
         THEN /\ holes' = holes \cup Units(b.start, fallback_size(b.layout.size))
              /\ taken' = taken - fallback_size(b.layout.size)
              /\ UNCHANGED <<list_heads, block_free>>
         ELSE /\ list_heads' = [list_heads EXCEPT ![i] = <<b.start>> \o @]
              /\ block_free' = block_free + BlockSizes[i]
              /\ UNCHANGED <<holes, taken>>

BlockNext ==
  \/ \E l \in Layouts : block_alloc(l)
  \/ \E b \in live : block_dealloc(b)

\* What the kernel reports of its memory.
size == HeapSize
used == taken - block_free
free == (HeapSize - taken) + block_free

-------------------------------------------------------------------------------
(* Properties.                                                             *)

\* The units behind a live block, and behind the blocks of the lists.
Behind(b) ==
  LET i == list_index(b.layout)
  IN  Units(b.start, fallback_size(IF i = 0 THEN b.layout.size ELSE BlockSizes[i]))
Listed == {e \in (1 .. Len(BlockSizes)) \X (1 .. HeapSize) : e[2] <= Len(list_heads[e[1]])}
ListedUnits(e) == Units(list_heads[e[1]][e[2]], fallback_size(BlockSizes[e[1]]))

\* The figures the kernel reports hold through every mix of sizes: they add up to
\* the heap, none underflows, and no more is reported free than there is.
BlocksAccounted ==
  /\ block_free = MapThenSumSet(LAMBDA e : BlockSizes[e[1]], Listed)
  /\ 0 <= used /\ 0 <= free /\ used + free = size
  /\ Cardinality(LiveUnits) <= used

\* Every unit has one place: behind one live block, behind one block of one list, or
\* in a hole of the fallback heap; none gets lost, no block is listed twice.
HeapPartitioned ==
  LET parts == {Behind(b) : b \in live} \cup {ListedUnits(e) : e \in Listed} \cup {holes}
  IN  /\ UNION parts = 0 .. HeapSize - 1
      /\ MapThenSumSet(LAMBDA b : Cardinality(Behind(b)), live)
           + MapThenSumSet(LAMBDA e : Cardinality(ListedUnits(e)), Listed)
           + Cardinality(holes) = HeapSize

===============================================================================
