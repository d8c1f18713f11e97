------------------------------- MODULE Allocator -------------------------------
(***************************************************************************)
(* What Rust expects of a GlobalAlloc: a request is answered with memory   *)
(* of the heap that is aligned, large enough and nobody else's, or with a  *)
(* null pointer; and whatever was handed out can be given back.            *)
(*                                                                         *)
(* Addresses count units from the start of the heap.  The constants of the *)
(* two allocators are here too, as they measure the same heap.             *)
(***************************************************************************)
EXTENDS Integers, Sequences, FiniteSets, FiniteSetsExt, SequencesExt

CONSTANTS
  HeapSize,    \* the units of the heap, which starts at a page boundary
  Layouts,     \* the layouts programs ask for
  BlockSizes,  \* BLOCK_SIZES of the fixed-size blocks
  MinHole,     \* the size of a Hole, the least a fallback allocation takes (external)
  HoleAlign,   \* the alignment of a Hole, to which its size is rounded (external)
  NodeSize,    \* size_of::<ListNode>() of the linked list
  NodeAlign    \* align_of::<ListNode>()

LayoutT == [size : Nat \ {0}, align : Nat \ {0}]

ASSUME HeapAssumption ==
  /\ HeapSize \in Nat /\ MinHole \in Nat /\ HoleAlign \in Nat \ {0}
  /\ Layouts \subseteq LayoutT
  /\ BlockSizes \in Seq(Nat \ {0})
  /\ \A i \in 1 .. Len(BlockSizes) - 1 : BlockSizes[i] < BlockSizes[i + 1]
  /\ NodeSize \in Nat \ {0} /\ NodeAlign \in Nat \ {0}
  /\ NodeSize % NodeAlign = 0 /\ HeapSize % NodeAlign = 0 /\ HeapSize >= NodeSize
  \* Alignments are powers of 2, so the smaller of two divides the larger; so
  \* are the block sizes, which serve as alignments of the blocks.
  /\ \A a, b \in {l.align : l \in Layouts} \cup {NodeAlign} : a <= b => b % a = 0
  /\ \A l \in Layouts : \A i \in 1 .. Len(BlockSizes) :
       l.align <= BlockSizes[i] => BlockSizes[i] % l.align = 0

VARIABLE live   \* the blocks in use: [start, layout]

align_up(addr, align) == ((addr + align - 1) \div align) * align

Units(start, size) == start .. start + size - 1
LiveUnits == UNION {Units(b.start, b.layout.size) : b \in live}

Init == live = {}

alloc(l) ==
  \E a \in 0 .. HeapSize - l.size :
    /\ a % l.align = 0
    /\ Units(a, l.size) \cap LiveUnits = {}
    /\ live' = live \cup {[start |-> a, layout |-> l]}

dealloc(b) == b \in live /\ live' = live \ {b}

Next == (\E l \in Layouts : alloc(l)) \/ (\E b \in live : dealloc(b))

Spec == Init /\ [][Next]_live

===============================================================================
