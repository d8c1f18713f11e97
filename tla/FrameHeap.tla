------------------------------- MODULE FrameHeap -------------------------------
(***************************************************************************)
(* Physical memory: the boot frame allocator, init_heap, which gives all   *)
(* of it to the kernel heap, and HeapFrameAllocator, which then takes      *)
(* frames back out of the heap and returns them.                           *)
(*                                                                         *)
(* An address is counted in pages of 4 KiB and a heap page from            *)
(* KERNEL_HEAP_START.  The first-fit heap under the fixed-size blocks      *)
(* (linked_list_allocator) is external; of its requests only those of a    *)
(* page or more matter here, a box of several pages being several boxes.   *)
(***************************************************************************)
EXTENDS Integers, Sequences, FiniteSets

CONSTANTS
  Regions,   \* the Usable regions of the memory map: [start, end), in pages
  Fanout     \* the entries of a page table (512)

ASSUME MemoryAssumption ==
  /\ Regions \in Seq([start : Nat, end : Nat])
  /\ \A i \in 1..Len(Regions) : Regions[i].start < Regions[i].end
  \* The boot loader's map is sorted, without overlap and in whole pages: the
  \* filter on regions under a page drops none, and every frame is in a region.
  /\ \A i, j \in 1..Len(Regions) : i < j => Regions[i].end <= Regions[j].start
  /\ Fanout \in Nat \ {0}

Region == 1..Len(Regions)
InRegion(f, r) == Regions[r].start <= f /\ f < Regions[r].end
Frames == UNION {Regions[r].start .. Regions[r].end - 1 : r \in Region}

\* The region of a frame, as the find over the entries gets it.
RegionOf(f) == CHOOSE r \in Region : InRegion(f, r)

VARIABLES
  phase,       \* "init_heap", "run", or "fault": the heap was given a bad address
  iter,        \* the frames the boot frame allocator has not handed out
  pages,       \* the frame behind each heap page; page v is pages[v + 1]
  tables,      \* the frames of the page tables that map the heap
  virt_start,  \* HeapRegion.virt_start of each region: no heap page yet, or one
  free,        \* the heap pages the first-fit heap may hand out
  boxes,       \* the heap pages in kernel objects of a page or more
  blocks,      \* the heap pages cut into small blocks, which never come back
  frames,      \* the frames handed out by HeapFrameAllocator
  origin,      \* history: the frame that fixed each region's virt_start
  astray       \* history: the frames whose release went to another page

history == <<origin, astray>>
vars == <<phase, iter, pages, tables, virt_start, free, boxes, blocks, frames, history>>

Init ==
  /\ phase = "init_heap"
  /\ iter = Frames
  /\ pages = <<>>
  /\ tables = {}
  /\ virt_start = [r \in Region |-> {}]
  /\ free = {}
  /\ boxes = {}
  /\ blocks = {}
  /\ frames = {}
  /\ origin = [r \in Region |-> {}]
  /\ astray = {}

Least(S) == CHOOSE x \in S : \A y \in S : x <= y

-------------------------------------------------------------------------------
(* Boot.  A "..._fault" is a broken form of the definition after it, used  *)
(* only to show that a property notices.                                   *)

\* usable_frames hands frames out in ascending order: the n next ones.
usable_frames_fault(n) ==                                  \* the last one not used up
  {f \in iter : Cardinality({g \in iter : g < f}) < n - 1}
usable_frames(n) == {f \in iter : Cardinality({g \in iter : g < f}) < n}

\* map_to makes the tables of levels 1 to 3 that page v is the first to need.
NewTables(v) == Cardinality({k \in {Fanout, Fanout * Fanout, Fanout * Fanout * Fanout} : v % k = 0})

\* One turn of init_heap: a frame for the next page, then the tables to map it.
allocate_one ==
  LET frame == Least(iter)
      need  == 1 + NewTables(Len(pages))
  IN  /\ phase = "init_heap"
      /\ Cardinality(iter) >= need
      /\ iter' = iter \ usable_frames(need)
      /\ tables' = tables \cup ({f \in iter : Cardinality({g \in iter : g < f}) < need} \ {frame})
      /\ pages' = Append(pages, frame)
      /\ UNCHANGED <<phase, virt_start, free, boxes, blocks, frames, history>>

\* The number of pages init_heap passes on.
allocated_fault == Len(pages) + 1                          \* counts the failed turn
allocated == Len(pages)

\* The turn that runs out: its frame is lost, its tables stay.  The list of
\* regions is the first small block of the heap.
init_heap ==
  /\ phase = "init_heap"
  /\ Cardinality(iter) < 1 + NewTables(Len(pages))
  /\ iter' = {}
  /\ tables' = tables \cup (IF iter = {} THEN {} ELSE iter \ {Least(iter)})
  /\ free' = 1 .. allocated - 1
  /\ blocks' = {0} \cap (0 .. allocated - 1)
  /\ phase' = "run"
  /\ UNCHANGED <<pages, virt_start, boxes, frames, history>>

-------------------------------------------------------------------------------
(* The heap: a request of more than 2 KiB goes to the first fit, smaller   *)
(* ones take a page from it now and then and keep it in their lists.       *)

fallback_alloc ==
  /\ phase = "run" /\ free # {}
  /\ boxes' = boxes \cup {Least(free)}
  /\ free' = free \ {Least(free)}
  /\ UNCHANGED <<phase, iter, pages, tables, virt_start, blocks, frames, history>>

dealloc(v) ==
  /\ phase = "run" /\ v \in boxes
  /\ boxes' = boxes \ {v}
  /\ free' = free \cup {v}
  /\ UNCHANGED <<phase, iter, pages, tables, virt_start, blocks, frames, history>>

small_block ==
  /\ phase = "run" /\ free # {}
  /\ blocks' = blocks \cup {Least(free)}
  /\ free' = free \ {Least(free)}
  /\ UNCHANGED <<phase, iter, pages, tables, virt_start, boxes, frames, history>>

-------------------------------------------------------------------------------
(* HeapFrameAllocator.                                                     *)

\* Where a region would start if it were mapped in one piece, seen from frame f
\* at heap page v: the first frame taken from a region decides for all.
region_base_fault(v, f) == v                               \* offset in region ignored
region_base(v, f) == v - (f - Regions[RegionOf(f)].start)

check_region_virt(f, v) ==
  IF virt_start[RegionOf(f)] = {}
  THEN [virt_start EXCEPT ![RegionOf(f)] = {region_base(v, f)}]
  ELSE virt_start

\* The heap page of a frame; none (a panic) if its region has no address yet.
phys_to_virt(f) == {b + (f - Regions[RegionOf(f)].start) : b \in virt_start[RegionOf(f)]}

\* With nothing free it answers None.
allocate_frame ==
  /\ phase = "run"
  /\ IF free = {} THEN UNCHANGED <<virt_start, frames, free, origin>>
     ELSE LET v == Least(free)
              f == pages[v + 1]
          IN  /\ virt_start' = check_region_virt(f, v)
              /\ origin' = IF virt_start[RegionOf(f)] # {} THEN origin
                           ELSE [origin EXCEPT ![RegionOf(f)] = {f}]
              /\ frames' = frames \cup {f}
              /\ free' = free \ {v}
  /\ UNCHANGED <<phase, iter, pages, tables, boxes, blocks, astray>>

\* The heap page a frame really is behind.
own_page(f) == {v \in 0 .. Len(pages) - 1 : pages[v + 1] = f}

\* The box at the computed address is dropped, whatever is there; the heap cannot
\* take an address that is not its own or is free already.
deallocate_frame(f) ==
  /\ phase = "run" /\ f \in frames
  /\ \/ \E v \in phys_to_virt(f) \cap ((0 .. Len(pages) - 1) \ free) :
            free' = free \cup {v} /\ phase' = phase
     \/ /\ phys_to_virt(f) \cap ((0 .. Len(pages) - 1) \ free) = {}
        /\ free' = free /\ phase' = "fault"
  /\ frames' = frames \ {f}
  /\ astray' = IF phys_to_virt(f) \cap own_page(f) # {} THEN astray ELSE astray \cup {f}
  /\ UNCHANGED <<iter, pages, tables, virt_start, boxes, blocks, origin>>

-------------------------------------------------------------------------------
Next ==
  \/ allocate_one
  \/ init_heap
  \/ fallback_alloc
  \/ \E v \in boxes : dealloc(v)
  \/ small_block
  \/ allocate_frame
  \/ \E f \in frames : deallocate_frame(f)

Spec == Init /\ [][Next]_vars

-------------------------------------------------------------------------------
(* Properties.                                                             *)

HeapPages == 0 .. Len(pages) - 1
Backing   == {pages[i] : i \in 1..Len(pages)}

TypeOK ==
  /\ phase \in {"init_heap", "run", "fault"}
  /\ iter \subseteq Frames
  /\ pages \in Seq(Frames)
  /\ tables \subseteq Frames
  /\ DOMAIN virt_start = Region
  /\ \A r \in Region : virt_start[r] \subseteq Int /\ Cardinality(virt_start[r]) <= 1
  /\ free \subseteq HeapPages
  /\ boxes \subseteq HeapPages
  /\ blocks \subseteq HeapPages
  /\ frames \subseteq Frames
  /\ origin \in [Region -> SUBSET Frames]
  /\ astray \subseteq Frames

\* Each frame of the machine has one use after boot: behind one heap page or as a
\* page table, and init_heap loses at most the one frame of its failing turn.
MemoryAccounted ==
  /\ \A i, j \in 1..Len(pages) : pages[i] = pages[j] => i = j
  /\ Backing \cap tables = {}
  /\ (Backing \cup tables) \cap iter = {}
  /\ Cardinality(Frames \ (Backing \cup tables \cup iter)) <= (IF phase = "init_heap" THEN 0 ELSE 1)

\* map_to took a frame for a page table out of the region between f and g.
TableBetween(f, g) == \E t \in tables : (f < t /\ t < g) \/ (g < t /\ t < f)

Holders(v) == {h \in {"free", "box", "block", "frame"} :
                 \/ h = "free"  /\ v \in free
                 \/ h = "box"   /\ v \in boxes
                 \/ h = "block" /\ v \in blocks
                 \/ h = "frame" /\ pages[v + 1] \in frames}

\* The release of a frame goes to another page than its own only if the frame of
\* a page table lies between it and the first frame taken out of its region; and
\* until that happens a heap page is in exactly one hand through every sequence of
\* allocations and releases: free, a box, small blocks, or a frame, and the heap is
\* never given an address that is not its own or is free already.
OneOwner ==
  phase # "init_heap" =>
    /\ \A f \in astray : \E g \in origin[RegionOf(f)] : TableBetween(f, g)
    /\ astray = {} => /\ phase # "fault"
                      /\ \A v \in HeapPages : Cardinality(Holders(v)) = 1

\* heap_frame.rs: "using the Heap allocator to allocate a frame will always return
\* a currently unused frame": what is free is nobody's.
AllocatesUnusedFrame ==
  \A v \in free : v \notin boxes \cup blocks /\ pages[v + 1] \notin frames

===============================================================================
