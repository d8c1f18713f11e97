-------------------------------- MODULE ListHeap --------------------------------
(***************************************************************************)
(* LinkedListAllocator (allocator/linked_list.rs): one list of free        *)
(* regions, whose nodes are in the regions themselves.  It is compiled and *)
(* fit to be the global allocator, which the fixed-size blocks are.        *)
(***************************************************************************)
EXTENDS Allocator

VARIABLES
  regions,   \* the free regions, the first of the list first: [start, size]
  panicked   \* an assertion of add_free_region failed

listVars == <<regions, panicked>>

-------------------------------------------------------------------------------
(* A "..._fault" is a broken form of the definition after it, used only to *)
(* show that a property notices.                                           *)

\* The list with a region at its front.  A region must be able to hold its node.
Sound(start, n) == align_up(start, NodeAlign) = start /\ n >= NodeSize
add_free_region(rs, start, n) ==
  /\ regions' = IF Sound(start, n) THEN <<[start |-> start, size |-> n]>> \o rs ELSE rs
  /\ panicked' = ~ Sound(start, n)

\* The layout made large and aligned enough for the node of a later free region.
size_align_fault(l) ==                                     \* not padded
  [size |-> Max({l.size, NodeSize}), align |-> Max({l.align, NodeAlign})]
size_align(l) ==
  LET align == Max({l.align, NodeAlign})
  IN  [size |-> Max({align_up(l.size, align), NodeSize}), align |-> align]

\* A region suits if the rest behind the allocation is nothing or can hold a node.
alloc_from_region_fault(r, q) ==                           \* the rest not looked at
  align_up(r.start, q.align) + q.size <= r.start + r.size
alloc_from_region(r, q) ==
  LET excess == r.start + r.size - (align_up(r.start, q.align) + q.size)
  IN  excess = 0 \/ excess >= NodeSize

\* The first region of the list that suits; 0 if none does.
find_region(q) == SelectInSeq(regions, LAMBDA r : alloc_from_region(r, q))

\* What is left of a region behind an allocation that ends at alloc_end.  (The part
\* before an aligned allocation is not put back.)
excess_fault(r, alloc_end) == ((r.start + r.size - alloc_end) \div NodeSize) * NodeSize   \* rounded
excess(r, alloc_end) == r.start + r.size - alloc_end

ListInit ==
  /\ live = {}
  /\ regions = <<[start |-> 0, size |-> HeapSize]>>
  /\ panicked = FALSE

list_alloc(l) ==
  LET q == size_align(l)
      i == find_region(q)
  IN  IF i = 0 THEN UNCHANGED <<live, listVars>>             \* a null pointer
      ELSE LET alloc_start == align_up(regions[i].start, q.align)
               alloc_end   == alloc_start + q.size
               rest        == excess(regions[i], alloc_end)
           IN  /\ live' = live \cup {[start |-> alloc_start, layout |-> l]}
               /\ IF rest > 0 THEN add_free_region(RemoveAt(regions, i), alloc_end, rest)
                  ELSE regions' = RemoveAt(regions, i) /\ UNCHANGED panicked

list_dealloc(b) ==
  /\ live' = live \ {b}
  /\ add_free_region(regions, b.start, size_align(b.layout).size)

ListNext ==
  /\ ~ panicked
  /\ \/ \E l \in Layouts : list_alloc(l)
     \/ \E b \in live : list_dealloc(b)

-------------------------------------------------------------------------------
(* Properties.                                                             *)

Region == 1 .. Len(regions)
RegionUnits(i) == Units(regions[i].start, regions[i].size)
Reserved(b) == Units(b.start, size_align(b.layout).size)

\* Nodes are written into free memory only: the regions are in the heap, apart from
\* each other and from everything in use, each fit to hold its node; the assertions
\* hold whatever was allocated and freed before.
RegionsSound ==
  /\ ~ panicked
  /\ \A i \in Region : /\ RegionUnits(i) \subseteq 0 .. HeapSize - 1
                       /\ Sound(regions[i].start, regions[i].size)
                       /\ \A b \in live : RegionUnits(i) \cap Reserved(b) = {}
                       /\ \A j \in Region : i # j => RegionUnits(i) \cap RegionUnits(j) = {}

Lost == (0 .. HeapSize - 1) \ UNION ({Reserved(b) : b \in live} \cup {RegionUnits(i) : i \in Region})

\* A step that loses memory is an allocation, and what it loses is the part of its
\* region in front of it, which is smaller than the alignment it asked for.
LosesOnlyPadding ==
  \/ Lost' = Lost
  \/ \E b \in live' \ live :
       /\ Lost \subseteq Lost'
       /\ Lost' \ Lost \subseteq b.start - b.layout.align + 1 .. b.start - 1

===============================================================================
