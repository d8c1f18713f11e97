---------------------------- MODULE FrameHeapProofs ----------------------------
(***************************************************************************)
(* Proofs about FrameHeap for every memory map and every size of the page  *)
(* tables.                                                                 *)
(***************************************************************************)
EXTENDS FrameHeap, FiniteSetTheorems, TLAPS

-------------------------------------------------------------------------------
(* The inductive invariant.                                                *)

TypeInv ==
  /\ phase \in {"init_heap", "run", "fault"}
  /\ iter \subseteq Frames
  /\ pages \in Seq(Frames)
  /\ tables \subseteq Frames
  /\ virt_start \in [Region -> SUBSET Int]
  /\ free \subseteq HeapPages
  /\ boxes \subseteq HeapPages
  /\ blocks \subseteq HeapPages
  /\ frames \subseteq Frames
  /\ origin \in [Region -> SUBSET Frames]
  /\ astray \subseteq Frames

\* A region has at most one address.
Unique == \A r \in Region : \A x, y \in virt_start[r] : x = y

\* Every frame is somewhere, but for one after the failing turn of init_heap.
Apart ==
  /\ \A i, j \in 1..Len(pages) : pages[i] = pages[j] => i = j
  /\ Backing \cap tables = {}
  /\ (Backing \cup tables) \cap iter = {}
AllThere ==
  /\ phase = "init_heap" => Frames \subseteq Backing \cup tables \cup iter
  /\ \E x : Frames \subseteq Backing \cup tables \cup iter \cup {x}

\* The boot frame allocator works upwards, and so do the heap pages.
Upwards ==
  /\ \A f \in Frames \ iter, g \in iter : f < g
  /\ \A i, j \in 1..Len(pages) : i < j => pages[i] < pages[j]

\* One of the frames T lies between f and g.
Between(T, f, g) == \E t \in T : (f < t /\ t < g) \/ (g < t /\ t < f)

\* Heap pages whose frames have no table between them are mapped in one piece.
InOnePiece ==
  \A i, j \in 1..Len(pages) :
    RegionOf(pages[i]) = RegionOf(pages[j]) /\ ~ Between(tables, pages[i], pages[j])
      => pages[i] - i = pages[j] - j

\* Before init_heap ends nothing is handed out.
BootAt ==
  phase = "init_heap" => /\ free = {} /\ boxes = {} /\ blocks = {} /\ frames = {}
                         /\ astray = {}
                         /\ \A r \in Region : virt_start[r] = {} /\ origin[r] = {}

\* A heap page is in exactly one hand.
OneHand(v) ==
  /\ v \in free \/ v \in boxes \/ v \in blocks \/ pages[v + 1] \in frames
  /\ v \in free => v \notin boxes /\ v \notin blocks /\ pages[v + 1] \notin frames
  /\ v \in boxes => v \notin blocks /\ pages[v + 1] \notin frames
  /\ v \in blocks => pages[v + 1] \notin frames

\* Where page i of the heap puts the start of its region.
Base(i) == (i - 1) - (pages[i] - Regions[RegionOf(pages[i])].start)

\* The address noted for a region is right for the frame that fixed it.
OriginAt ==
  \A r \in Region :
    /\ virt_start[r] = {} => origin[r] = {}
    /\ virt_start[r] # {} =>
         \E k \in 1..Len(pages) : /\ RegionOf(pages[k]) = r
                                  /\ pages[k] \in origin[r]
                                  /\ virt_start[r] = {Base(k)}

\* Frames handed out are heap pages of regions with an address.
FramesAt == \A f \in frames : f \in Backing /\ virt_start[RegionOf(f)] # {}

\* What went astray had a table in its way.
AstrayAt == \A f \in astray : \E g \in origin[RegionOf(f)] : Between(tables, f, g)

\* Until a release goes astray everything is in one hand.
OwnedAt ==
  phase # "init_heap" /\ astray = {} => phase = "run" /\ \A v \in HeapPages : OneHand(v)

IInv ==
  /\ TypeInv /\ Unique /\ Apart /\ AllThere /\ Upwards /\ InOnePiece /\ BootAt
  /\ OriginAt /\ FramesAt /\ AstrayAt /\ OwnedAt

-------------------------------------------------------------------------------
(* Sets of numbers.                                                        *)

\* A set of numbers that is not empty has a least one.
LEMMA LeastExists ==
  ASSUME NEW S \in SUBSET Nat, S # {}
  PROVE  \E m \in S : \A n \in S : m <= n
  <1> DEFINE T == {0 .. n : n \in S}
             R == StrictSubsetOrdering(Nat)
  <1>1. \A n \in S : 0 .. n \in FiniteSubsetsOf(Nat)
    BY FS_Interval DEF FiniteSubsetsOf
  <1>2. T \subseteq FiniteSubsetsOf(Nat) /\ T # {}
    BY <1>1
  <1>3. IsWellFoundedOn(R, FiniteSubsetsOf(Nat))
    BY FS_StrictSubsetOrderingWellFounded
  <1> HIDE DEF T, R
  <1>4. PICK x \in T : \A y \in T : ~ (<<y, x>> \in R)
    BY <1>2, <1>3, WFMin
  <1>5. PICK m \in S : x = 0 .. m
    BY <1>4 DEF T
  <1>6. ASSUME NEW n \in S, n < m PROVE FALSE
    <2>1. 0 .. n \in T
      BY DEF T
    <2>2. 0 .. n \subseteq 0 .. m /\ m \in 0 .. m /\ m \notin 0 .. n
      BY <1>6
    <2>3. <<0 .. n, 0 .. m>> \in R
      <3>1. 0 .. n \in SUBSET Nat /\ 0 .. m \in SUBSET Nat
        OBVIOUS
      <3> QED BY <2>2, <3>1 DEF R, StrictSubsetOrdering
    <2> QED BY <1>4, <1>5, <2>1, <2>3
  <1> QED BY <1>6

\* Least chooses it.
LEMMA LeastFacts ==
  ASSUME NEW S \in SUBSET Nat, S # {}
  PROVE  Least(S) \in S /\ \A y \in S : Least(S) <= y
  BY LeastExists DEF Least

\* The bounds of the regions are numbers, and so are the frames.
LEMMA RegionBounds ==
  ASSUME NEW r \in Region
  PROVE  Regions[r].start \in Nat /\ Regions[r].end \in Nat
  <1> DEFINE T == [start : Nat, end : Nat]
  <1>1. Regions \in Seq(T)
    BY MemoryAssumption
  <1> HIDE DEF T
  <1>2. Regions[r] \in T
    BY <1>1 DEF Region
  <1> QED BY <1>2 DEF T

LEMMA FrameFacts == Frames \subseteq Nat
  <1> SUFFICES ASSUME NEW f \in Frames PROVE f \in Nat
    OBVIOUS
  <1>1. PICK r \in Region : f \in Regions[r].start .. Regions[r].end - 1
    BY DEF Frames
  <1> QED BY <1>1, RegionBounds

\* The region of a frame.
LEMMA RegionFacts ==
  ASSUME NEW f \in Frames
  PROVE  RegionOf(f) \in Region /\ Regions[RegionOf(f)].start \in Nat /\ InRegion(f, RegionOf(f))
  <1>1. \E r \in Region : InRegion(f, r)
    <2>1. PICK r \in Region : f \in Regions[r].start .. Regions[r].end - 1
      BY DEF Frames
    <2> QED BY <2>1, RegionBounds DEF InRegion
  <1>2. RegionOf(f) \in Region /\ InRegion(f, RegionOf(f))
    BY <1>1 DEF RegionOf
  <1> QED BY <1>2, RegionBounds

\* What lies between two frames of a region is a frame of that region.
LEMMA RegionConvex ==
  ASSUME NEW f \in Frames, NEW g \in Frames, RegionOf(f) = RegionOf(g),
         NEW x \in Nat, f <= x, x <= g
  PROVE  x \in Frames /\ RegionOf(x) = RegionOf(f)
  <1> DEFINE r == RegionOf(f)
  <1>1. r \in Region /\ InRegion(f, r) /\ InRegion(g, r) /\ f \in Nat /\ g \in Nat
    BY RegionFacts, FrameFacts
  <1>2. Regions[r].start \in Nat /\ Regions[r].end \in Nat
    BY <1>1, RegionBounds
  <1> HIDE DEF r
  <1>3. InRegion(x, r)
    BY <1>1, <1>2 DEF InRegion
  <1>4. x \in Regions[r].start .. Regions[r].end - 1
    BY <1>2, <1>3 DEF InRegion
  <1>5. x \in Frames
    BY <1>1, <1>4 DEF Frames
  <1>6. ASSUME NEW q \in Region, InRegion(x, q), q # r PROVE FALSE
    <2>1. Regions[q].start \in Nat /\ Regions[q].end \in Nat /\ q \in Nat /\ r \in Nat
      BY <1>1, RegionBounds DEF Region
    <2>2. q < r => Regions[q].end <= Regions[r].start
      BY <1>1, MemoryAssumption DEF Region
    <2>3. r < q => Regions[r].end <= Regions[q].start
      BY <1>1, MemoryAssumption DEF Region
    <2> QED BY <1>2, <1>3, <1>6, <2>1, <2>2, <2>3 DEF InRegion
  <1>7. RegionOf(x) = r
    BY <1>1, <1>3, <1>6 DEF RegionOf
  <1> QED BY <1>5, <1>7 DEF r

\* map_to makes three tables at most.
LEMMA NewTablesFacts == \A v : NewTables(v) \in Nat
  <1> TAKE v
  <1> DEFINE a == Fanout
             b == Fanout * Fanout
             c == Fanout * Fanout * Fanout
             S == {a, b, c}
  <1>1. IsFiniteSet({a})
    BY FS_Singleton
  <1>2. IsFiniteSet({a} \cup {b})
    BY <1>1, FS_AddElement
  <1>3. IsFiniteSet({a} \cup {b} \cup {c})
    BY <1>2, FS_AddElement
  <1>4. S = {a} \cup {b} \cup {c}
    OBVIOUS
  <1>5. {k \in S : v % k = 0} \in SUBSET S
    OBVIOUS
  <1> HIDE DEF a, b, c
  <1>6. IsFiniteSet({k \in S : v % k = 0})
    BY <1>3, <1>4, <1>5, FS_Subset
  <1>7. Cardinality({k \in S : v % k = 0}) \in Nat
    BY <1>6, FS_CardinalityType
  <1> QED BY <1>7 DEF NewTables, a, b, c

-------------------------------------------------------------------------------
(* The safety properties follow from the invariant.                        *)

LEMMA InvType == IInv => TypeOK
  <1> SUFFICES ASSUME IInv PROVE TypeOK
    OBVIOUS
  <1>1. ASSUME NEW r \in Region PROVE virt_start[r] \subseteq Int /\ Cardinality(virt_start[r]) <= 1
    <2>1. CASE virt_start[r] = {}
      BY <2>1, FS_EmptySet
    <2>2. CASE virt_start[r] # {}
      <3>1. PICK x \in virt_start[r] : virt_start[r] = {x}
        BY <2>2 DEF IInv, Unique
      <3>2. Cardinality(virt_start[r]) = 1
        BY <3>1, FS_Singleton
      <3> QED BY <3>2 DEF IInv, TypeInv
    <2> QED BY <2>1, <2>2 DEF IInv, TypeInv
  <1> QED BY <1>1 DEF IInv, TypeInv, TypeOK

LEMMA InvAccounted == IInv => MemoryAccounted
  <1> SUFFICES ASSUME IInv PROVE MemoryAccounted
    OBVIOUS
  <1> DEFINE L == Frames \ (Backing \cup tables \cup iter)
  <1>1. CASE L = {}
    <2>1. Cardinality(L) = 0
      BY <1>1, FS_EmptySet
    <2> QED BY <2>1 DEF IInv, Apart, MemoryAccounted
  <1>2. CASE L # {}
    <2>1. PICK x : L = {x}
      BY <1>2 DEF IInv, AllThere
    <2>2. Cardinality(L) = 1
      BY <2>1, FS_Singleton
    <2>3. phase # "init_heap"
      BY <1>2 DEF IInv, AllThere
    <2> QED BY <2>2, <2>3 DEF IInv, Apart, MemoryAccounted
  <1> QED BY <1>1, <1>2

LEMMA InvOwner == IInv => OneOwner
  <1> SUFFICES ASSUME IInv, phase # "init_heap", astray = {}
               PROVE  phase # "fault" /\ \A v \in HeapPages : Cardinality(Holders(v)) = 1
    BY DEF OneOwner, IInv, AstrayAt, TableBetween, Between
  <1>1. ASSUME NEW v \in HeapPages PROVE Cardinality(Holders(v)) = 1
    <2>1. OneHand(v)
      BY DEF IInv, OwnedAt
    <2>2. \E h : Holders(v) = {h}
      <3>1. CASE v \in free
        <4> Holders(v) = {"free"}
          BY <2>1, <3>1 DEF OneHand, Holders
        <4> QED OBVIOUS
      <3>2. CASE v \in boxes
        <4> Holders(v) = {"box"}
          BY <2>1, <3>2 DEF OneHand, Holders
        <4> QED OBVIOUS
      <3>3. CASE v \in blocks
        <4> Holders(v) = {"block"}
          BY <2>1, <3>3 DEF OneHand, Holders
        <4> QED OBVIOUS
      <3>4. CASE pages[v + 1] \in frames
        <4> Holders(v) = {"frame"}
          BY <2>1, <3>4 DEF OneHand, Holders
        <4> QED OBVIOUS
      <3> QED BY <2>1, <3>1, <3>2, <3>3, <3>4 DEF OneHand
    <2> QED BY <2>2, FS_Singleton
  <1> QED BY <1>1 DEF IInv, OwnedAt

-------------------------------------------------------------------------------
(* Boot.                                                                   *)

LEMMA InitInv == Init => IInv
  <1> SUFFICES ASSUME Init PROVE IInv
    OBVIOUS
  <1>1. Len(pages) = 0 /\ Backing = {}
    BY DEF Init, Backing
  <1>2. TypeInv /\ Unique /\ Apart /\ AllThere
    BY <1>1 DEF Init, TypeInv, Unique, Apart, AllThere, HeapPages
  <1>3. Upwards /\ InOnePiece /\ BootAt
    BY <1>1 DEF Init, Upwards, InOnePiece, BootAt
  <1>4. OriginAt /\ FramesAt /\ AstrayAt /\ OwnedAt
    BY <1>1 DEF Init, OriginAt, FramesAt, AstrayAt, OwnedAt
  <1> QED BY <1>2, <1>3, <1>4 DEF IInv

\* The frames usable_frames hands out are those with few enough frames below them.
Below(f) == {g \in iter : g < f}

LEMMA UsedFacts ==
  ASSUME NEW n
  PROVE  \A f : f \in usable_frames(n) <=> f \in iter /\ Cardinality(Below(f)) < n
  BY Zenon DEF usable_frames, Below

LEMMA BelowFacts ==
  ASSUME iter \in SUBSET Nat, NEW f \in Nat
  PROVE  /\ Below(f) \in SUBSET (0 .. f)
         /\ \A g \in Nat : g <= f => Below(g) \in SUBSET Below(f)
  <1>1. ASSUME NEW x \in Below(f) PROVE x \in 0 .. f
    BY DEF Below
  <1>2. ASSUME NEW g \in Nat, g <= f, NEW x \in Below(g) PROVE x \in Below(f)
    <2>1. x \in iter /\ x \in Nat /\ x < g
      BY DEF Below
    <2>2. x < f
      BY <1>2, <2>1
    <2> QED BY <2>1, <2>2 DEF Below
  <1> QED BY <1>1, <1>2

\* A turn of init_heap: the lowest frame goes behind the next page, the frames after it
\* into page tables.
LEMMA AllocateOneInv == ASSUME IInv, allocate_one PROVE IInv'
  <1> DEFINE need == 1 + NewTables(Len(pages))
             frame == Least(iter)
             used == usable_frames(need)
  <1>0. need \in Nat /\ need > 0
    BY NewTablesFacts
  <1>1. iter \in SUBSET Nat /\ iter # {}
    <2>1. iter = {} => Cardinality(iter) = 0
      BY FS_EmptySet
    <2> QED BY <1>0, <2>1, FrameFacts DEF IInv, TypeInv, allocate_one
  <1>2. frame \in iter /\ \A y \in iter : frame <= y
    BY <1>1, LeastFacts
  <1>3. frame \in used /\ used \subseteq iter
    <2>1. {g \in iter : g < frame} = {}
      <3> HIDE DEF frame
      <3>1. \A g \in iter : g \in Nat /\ frame \in Nat /\ frame <= g
        BY <1>1, <1>2
      <3>2. \A g \in iter : ~ (g < frame)
        BY <3>1
      <3> QED BY <3>2
    <2>2. Cardinality({g \in iter : g < frame}) = 0
      BY <2>1, FS_EmptySet
    <2> QED BY <1>0, <1>2, <2>2 DEF usable_frames
  <1>4. /\ iter' = iter \ used
        /\ tables' = tables \cup (used \ {frame})
        /\ pages' = Append(pages, frame)
        /\ phase = "init_heap"
        /\ UNCHANGED <<phase, virt_start, free, boxes, blocks, frames, origin, astray>>
    BY DEF allocate_one, usable_frames, history
  <1>0a. \A f \in used, g \in iter \ used : f < g
    <2> SUFFICES ASSUME NEW f \in used, NEW g \in iter \ used PROVE f < g
      OBVIOUS
    <2> DEFINE F == Below(f)
               G == Below(g)
    <2>1. f \in Nat /\ g \in Nat
      BY <1>1 DEF usable_frames
    <2>2. F \in SUBSET (0 .. f)
      BY <1>1, <2>1, BelowFacts
    <2>3. IsFiniteSet(F)
      <3>1. IsFiniteSet(0 .. f)
        BY <2>1, FS_Interval
      <3> QED BY <2>2, <3>1, FS_Subset
    <2>4. Cardinality(F) < need /\ ~ (Cardinality(G) < need)
      BY UsedFacts
    <2>5. CASE g <= f
      <3>1. G \in SUBSET F
        BY <1>1, <2>1, <2>5, BelowFacts
      <3>2. IsFiniteSet(G) /\ Cardinality(G) <= Cardinality(F)
        BY <2>3, <3>1, FS_Subset
      <3>3. Cardinality(F) \in Nat /\ Cardinality(G) \in Nat
        BY <2>3, <3>2, FS_CardinalityType
      <3> HIDE DEF F, G, need
      <3> QED BY <1>0, <2>4, <3>2, <3>3
    <2> QED BY <2>1, <2>5
  <1> HIDE DEF need, frame, used
  <1>5. frame \in Frames /\ frame \notin Backing /\ pages \in Seq(Frames) /\ Len(pages) \in Nat
    BY <1>2 DEF IInv, TypeInv, Apart
  <1>6. /\ pages' \in Seq(Frames) /\ Len(pages') = Len(pages) + 1
        /\ \A i \in 1..Len(pages) : pages'[i] = pages[i]
        /\ pages'[Len(pages) + 1] = frame
    BY <1>4, <1>5
  <1>7. Backing' = Backing \cup {frame}
    BY <1>5, <1>6 DEF Backing
  <1>8. HeapPages \subseteq HeapPages'
    BY <1>5, <1>6 DEF HeapPages
  <1>9. TypeInv'
    BY <1>3, <1>4, <1>6, <1>8 DEF IInv, TypeInv
  <1>10. Apart'
    <2>1. \A i, j \in 1..Len(pages') : pages'[i] = pages'[j] => i = j
      <3>1. \A i \in 1..Len(pages) : pages[i] # frame
        BY <1>5 DEF Backing
      <3> QED BY <1>5, <1>6, <3>1 DEF IInv, Apart
    <2>2. (Backing \cup {frame}) \cap (tables \cup (used \ {frame})) = {}
      BY <1>2, <1>3 DEF IInv, Apart
    <2>3. ((Backing \cup {frame}) \cup (tables \cup (used \ {frame}))) \cap (iter \ used) = {}
      BY <1>3 DEF IInv, Apart
    <2> QED BY <1>4, <1>7, <2>1, <2>2, <2>3 DEF Apart
  <1>11. AllThere'
    <2>1. Frames \subseteq Backing \cup tables \cup iter
      BY <1>4 DEF IInv, AllThere
    <2>2. Frames \subseteq (Backing \cup {frame}) \cup (tables \cup (used \ {frame})) \cup (iter \ used)
      BY <2>1
    <2> QED BY <1>4, <1>7, <2>2 DEF AllThere
  <1>12. Upwards'
    <2>1. ASSUME NEW f \in Frames \ iter', NEW g \in iter' PROVE f < g
      <3>1. g \in iter /\ g \notin used
        BY <1>4
      <3>2. f \in used \/ f \in Frames \ iter
        BY <1>4
      <3> QED BY <1>0a, <3>1, <3>2 DEF IInv, Upwards
    <2>2. \A i \in 1..Len(pages) : pages[i] \in Frames \ iter
      BY <1>5 DEF IInv, Apart, Backing
    <2>3. \A i \in 1..Len(pages) : pages[i] < frame
      BY <1>2, <2>2 DEF IInv, Upwards
    <2>4. \A i, j \in 1..Len(pages') : i < j => pages'[i] < pages'[j]
      BY <1>5, <1>6, <2>3 DEF IInv, Upwards
    <2> QED BY <2>1, <2>4 DEF Upwards
  <1>13. ASSUME NEW i \in 1..Len(pages), RegionOf(pages[i]) = RegionOf(frame),
                ~ Between(tables, pages[i], frame)
         PROVE  pages[i] - i = frame - (Len(pages) + 1)
    <2> DEFINE n == Len(pages)
               y == pages[n]
    <2>1. n \in 1..Len(pages) /\ i <= n /\ i \in Nat /\ n \in Nat
      BY <1>5
    <2>2. /\ pages[i] \in Frames /\ y \in Frames /\ pages[i] \in Nat /\ y \in Nat /\ frame \in Nat
          /\ y \in Backing
      <3>1. pages[i] \in Frames /\ y \in Frames
        BY <1>5, <2>1
      <3>2. y \in Backing
        BY <2>1 DEF Backing
      <3> QED BY <1>5, <3>1, <3>2, FrameFacts
    <2>3. pages[i] <= y
      BY <2>1, <2>2 DEF IInv, Upwards
    <2>4. y < frame
      BY <1>2, <2>2 DEF IInv, Upwards, Apart
    <2>5. RegionOf(y) = RegionOf(frame)
      BY <1>5, <1>13, <2>2, <2>3, <2>4, RegionConvex
    <2>6. ASSUME y + 1 < frame PROVE FALSE
      <3>1. y + 1 \in Frames
        BY <1>5, <2>2, <2>5, <2>6, RegionConvex
      <3>2. y + 1 \notin iter
        BY <1>2, <2>2, <2>6
      <3>3. ~ \E k \in 1..Len(pages) : pages[k] = y + 1
        <4> SUFFICES ASSUME NEW k \in 1..Len(pages), pages[k] = y + 1 PROVE FALSE
          OBVIOUS
        <4>1. k < n \/ k = n
          BY <2>1
        <4>2. k < n => pages[k] < y
          BY <2>1 DEF IInv, Upwards
        <4> QED BY <2>2, <4>1, <4>2
      <3>4. y + 1 \in tables
        BY <1>4, <3>1, <3>2, <3>3 DEF IInv, AllThere, Backing
      <3> QED BY <1>13, <2>2, <2>3, <2>6, <3>4 DEF Between
    <2>7. frame = y + 1
      BY <2>2, <2>4, <2>6
    <2>8. ~ Between(tables, pages[i], y)
      <3> SUFFICES ASSUME NEW t \in tables, (pages[i] < t /\ t < y) \/ (y < t /\ t < pages[i])
                   PROVE  FALSE
        BY DEF Between
      <3>1. t \in Nat
        BY FrameFacts DEF IInv, TypeInv
      <3> QED BY <1>13, <2>2, <2>3, <2>4, <3>1 DEF Between
    <2>9. pages[i] - i = y - n
      BY <1>13, <2>1, <2>5, <2>8 DEF IInv, InOnePiece
    <2> HIDE DEF n, y
    <2>10. pages[i] - i = frame - (n + 1)
      BY <2>1, <2>2, <2>7, <2>9
    <2> QED BY <2>10 DEF n
  <1>14. InOnePiece'
    <2> SUFFICES ASSUME NEW i \in 1..Len(pages'), NEW j \in 1..Len(pages'),
                        RegionOf(pages'[i]) = RegionOf(pages'[j]),
                        ~ Between(tables', pages'[i], pages'[j])
                 PROVE  pages'[i] - i = pages'[j] - j
      BY DEF InOnePiece
    <2>1. ~ Between(tables, pages'[i], pages'[j]) /\ ~ Between(tables, pages'[j], pages'[i])
      BY <1>4 DEF Between
    <2>2. CASE i \in 1..Len(pages) /\ j \in 1..Len(pages)
      BY <1>6, <2>1, <2>2 DEF IInv, InOnePiece
    <2>3. CASE i \in 1..Len(pages) /\ j = Len(pages) + 1
      BY <1>6, <1>13, <2>1, <2>3
    <2>4. CASE i = Len(pages) + 1 /\ j \in 1..Len(pages)
      BY <1>6, <1>13, <2>1, <2>4
    <2> QED BY <1>5, <1>6, <2>2, <2>3, <2>4
  <1>15. BootAt' /\ Unique' /\ OwnedAt'
    BY <1>4 DEF IInv, BootAt, Unique, OwnedAt
  <1>16. OriginAt' /\ FramesAt' /\ AstrayAt'
    BY <1>4 DEF IInv, BootAt, OriginAt, FramesAt, AstrayAt
  <1> QED BY <1>9, <1>10, <1>11, <1>12, <1>14, <1>15, <1>16 DEF IInv

\* The turn that runs out: page 0 becomes the list of regions, the other pages are free.
LEMMA InitHeapInv == ASSUME IInv, init_heap PROVE IInv'
  <1>1. /\ phase = "init_heap" /\ phase' = "run" /\ iter' = {}
        /\ tables' = tables \cup (IF iter = {} THEN {} ELSE iter \ {Least(iter)})
        /\ free' = 1 .. Len(pages) - 1 /\ blocks' = {0} \cap (0 .. Len(pages) - 1)
        /\ UNCHANGED <<pages, virt_start, boxes, frames, origin, astray>>
    BY DEF init_heap, allocated, history
  <1>2. /\ boxes = {} /\ frames = {} /\ astray = {}
        /\ \A r \in Region : virt_start[r] = {} /\ origin[r] = {}
    BY <1>1 DEF IInv, BootAt
  <1>3. pages \in Seq(Frames) /\ Len(pages) \in Nat /\ HeapPages' = HeapPages /\ Backing' = Backing
    BY <1>1 DEF IInv, TypeInv, HeapPages, Backing
  <1>4. TypeInv'
    BY <1>1, <1>2, <1>3 DEF IInv, TypeInv, HeapPages
  <1>5. Apart'
    BY <1>1, <1>3 DEF IInv, Apart
  <1>6. AllThere'
    BY <1>1, <1>3 DEF IInv, AllThere
  <1>7. \A v \in HeapPages : OneHand(v)'
    BY <1>1, <1>2, <1>3 DEF HeapPages, OneHand
  <1>8. OwnedAt' /\ Upwards'
    BY <1>1, <1>3, <1>7 DEF OwnedAt, IInv, Upwards
  <1>9. InOnePiece'
    <2>1. \A f, g : Between(tables, f, g) => Between(tables, f, g)'
      BY <1>1 DEF Between
    <2> QED BY <1>1, <2>1 DEF IInv, InOnePiece
  <1>10. OriginAt' /\ FramesAt' /\ AstrayAt'
    BY <1>1, <1>2 DEF OriginAt, FramesAt, AstrayAt
  <1> QED BY <1>1, <1>4, <1>5, <1>6, <1>8, <1>9, <1>10 DEF IInv, Unique, BootAt

-------------------------------------------------------------------------------
(* Running: the pages and the tables stay.                                 *)

LEMMA RunFacts ==
  ASSUME IInv, phase = "run", phase' \in {"run", "fault"}, UNCHANGED <<iter, pages, tables>>
  PROVE  /\ HeapPages' = HeapPages /\ Backing' = Backing
         /\ Apart' /\ AllThere' /\ Upwards' /\ InOnePiece' /\ BootAt'
         /\ pages \in Seq(Frames) /\ Len(pages) \in Nat
         /\ \A v \in HeapPages : v \in Nat /\ v + 1 \in 1..Len(pages) /\ pages[v + 1] \in Frames
         /\ free \subseteq HeapPages /\ HeapPages \in SUBSET Nat
         /\ \A f, g : Between(tables, f, g)' <=> Between(tables, f, g)
         /\ \A i : Base(i)' = Base(i)
  <1>1. HeapPages' = HeapPages /\ Backing' = Backing
    BY DEF HeapPages, Backing
  <1>2. \A f, g : Between(tables, f, g)' <=> Between(tables, f, g)
    BY DEF Between
  <1>3. Apart' /\ AllThere' /\ Upwards' /\ BootAt'
    BY <1>1 DEF IInv, Apart, AllThere, Upwards, BootAt
  <1>4. InOnePiece'
    BY <1>2 DEF IInv, InOnePiece
  <1>5. pages \in Seq(Frames) /\ Len(pages) \in Nat /\ free \subseteq HeapPages
    BY DEF IInv, TypeInv
  <1>6. \A v \in HeapPages : v \in Nat /\ v + 1 \in 1..Len(pages) /\ pages[v + 1] \in Frames
    BY <1>5 DEF HeapPages
  <1>7. \A i : Base(i)' = Base(i)
    BY DEF Base
  <1> QED BY <1>1, <1>2, <1>3, <1>4, <1>5, <1>6, <1>7

\* The parts about addresses stay where no frame is taken or released.
LEMMA AddressFacts ==
  ASSUME IInv, UNCHANGED <<pages, tables, virt_start, frames, origin, astray>>
  PROVE  Unique' /\ OriginAt' /\ FramesAt' /\ AstrayAt'
  <1>1. Backing' = Backing /\ (\A i : Base(i)' = Base(i))
    BY DEF Backing, Base
  <1>2. \A f, g : Between(tables, f, g)' <=> Between(tables, f, g)
    BY DEF Between
  <1> QED BY <1>1, <1>2 DEF IInv, Unique, OriginAt, FramesAt, AstrayAt

LEMMA StutterInv == ASSUME IInv, UNCHANGED vars PROVE IInv'
  <1>1. UNCHANGED <<HeapPages, Backing>>
    BY DEF vars, HeapPages, Backing
  <1>2. TypeInv' /\ Apart' /\ AllThere' /\ Upwards' /\ BootAt'
    BY <1>1 DEF vars, history, IInv, TypeInv, Apart, AllThere, Upwards, BootAt
  <1>3. \A v : OneHand(v)' <=> OneHand(v)
    BY DEF vars, OneHand
  <1>4. \A f, g : Between(tables, f, g)' <=> Between(tables, f, g)
    BY DEF vars, Between
  <1>5. InOnePiece'
    BY <1>4 DEF vars, IInv, InOnePiece
  <1>6. OwnedAt'
    BY <1>1, <1>3 DEF vars, history, IInv, OwnedAt
  <1> QED BY <1>2, <1>5, <1>6, AddressFacts DEF IInv, vars, history

\* A page taken from the first-fit heap, for a box or for small blocks.
LEMMA TakeInv == ASSUME IInv, fallback_alloc \/ small_block PROVE IInv'
  <1> DEFINE v == Least(free)
  <1>0. /\ phase = "run" /\ free # {}
        /\ UNCHANGED <<phase, iter, pages, tables, virt_start, frames, origin, astray>>
    BY DEF fallback_alloc, small_block, history
  <1>1. /\ HeapPages' = HeapPages
        /\ Apart' /\ AllThere' /\ Upwards' /\ InOnePiece' /\ BootAt'
        /\ free \subseteq HeapPages /\ HeapPages \in SUBSET Nat
    BY <1>0, RunFacts
  <1>2. v \in free /\ v \in HeapPages
    BY <1>0, <1>1, LeastFacts
  <1>3. /\ free' = free \ {v}
        /\ \/ boxes' = boxes \cup {v} /\ blocks' = blocks
           \/ blocks' = blocks \cup {v} /\ boxes' = boxes
    BY DEF fallback_alloc, small_block
  <1> HIDE DEF v
  <1>4. TypeInv'
    BY <1>0, <1>1, <1>2, <1>3 DEF IInv, TypeInv
  <1>5. ASSUME NEW w \in HeapPages, OneHand(w) PROVE OneHand(w)'
    BY <1>0, <1>2, <1>3, <1>5 DEF OneHand
  <1>6. OwnedAt'
    BY <1>0, <1>1, <1>5 DEF IInv, OwnedAt
  <1> QED BY <1>0, <1>1, <1>4, <1>6, AddressFacts DEF IInv

\* A box given back.
LEMMA DeallocInv == ASSUME IInv, NEW v \in boxes, dealloc(v) PROVE IInv'
  <1>0. /\ phase = "run"
        /\ UNCHANGED <<phase, iter, pages, tables, virt_start, blocks, frames, origin, astray>>
        /\ free' = free \cup {v} /\ boxes' = boxes \ {v}
    BY DEF dealloc, history
  <1>1. HeapPages' = HeapPages /\ Apart' /\ AllThere' /\ Upwards' /\ InOnePiece' /\ BootAt'
    BY <1>0, RunFacts
  <1>2. v \in HeapPages
    BY DEF IInv, TypeInv
  <1>3. TypeInv'
    BY <1>0, <1>1, <1>2 DEF IInv, TypeInv
  <1>4. ASSUME NEW w \in HeapPages, OneHand(w) PROVE OneHand(w)'
    BY <1>0, <1>4 DEF OneHand
  <1>5. OwnedAt'
    BY <1>0, <1>1, <1>4 DEF IInv, OwnedAt
  <1> QED BY <1>0, <1>1, <1>3, <1>5, AddressFacts DEF IInv

\* A frame taken out of the heap: the first one of a region decides where the region
\* starts.
LEMMA AllocateFrameInv == ASSUME IInv, allocate_frame PROVE IInv'
  <1> DEFINE v == Least(free)
             f == pages[v + 1]
             r == RegionOf(f)
  <1>0. phase = "run" /\ UNCHANGED <<phase, iter, pages, tables, boxes, blocks, astray>>
    BY DEF allocate_frame
  <1>1. /\ HeapPages' = HeapPages /\ Backing' = Backing
        /\ Apart' /\ AllThere' /\ Upwards' /\ InOnePiece' /\ BootAt'
        /\ free \subseteq HeapPages /\ HeapPages \in SUBSET Nat
        /\ pages \in Seq(Frames) /\ Len(pages) \in Nat
        /\ \A w \in HeapPages : w \in Nat /\ w + 1 \in 1..Len(pages) /\ pages[w + 1] \in Frames
        /\ \A a, b : Between(tables, a, b)' <=> Between(tables, a, b)
        /\ \A i : Base(i)' = Base(i)
    BY <1>0, RunFacts
  <1>2. CASE free = {}
    <2>1. UNCHANGED vars
      BY <1>2 DEF allocate_frame, vars, history
    <2> QED BY <2>1, StutterInv
  <1>3. CASE free # {}
    <2>1. v \in free /\ v \in HeapPages
      BY <1>1, <1>3, LeastFacts
    <2>2. /\ free' = free \ {v} /\ frames' = frames \cup {f} /\ virt_start' = check_region_virt(f, v)
          /\ origin' = IF virt_start[r] # {} THEN origin ELSE [origin EXCEPT ![r] = {f}]
      BY <1>3 DEF allocate_frame
    <2>3. /\ f \in Frames /\ f \in Nat /\ v \in Nat /\ v + 1 \in 1..Len(pages)
          /\ r \in Region /\ Regions[r].start \in Nat /\ f \in Backing
      BY <1>1, <2>1, FrameFacts, RegionFacts DEF Backing
    <2>4. /\ virt_start' \in [Region -> SUBSET Int]
          /\ \A q \in Region \ {r} : virt_start'[q] = virt_start[q] /\ origin'[q] = origin[q]
          /\ virt_start[r] = {} => virt_start'[r] = {Base(v + 1)} /\ origin'[r] = {f}
          /\ virt_start[r] # {} => virt_start'[r] = virt_start[r] /\ origin'[r] = origin[r]
          /\ origin' \in [Region -> SUBSET Frames]
      <3>1. Base(v + 1) = v - (f - Regions[r].start) /\ Base(v + 1) \in Int
        BY <2>3 DEF Base
      <3> HIDE DEF v, r
      <3> QED BY <2>2, <2>3, <3>1 DEF check_region_virt, region_base, IInv, TypeInv, r
    <2> HIDE DEF v
    <2>5. TypeInv'
      BY <1>0, <1>1, <2>2, <2>3, <2>4 DEF IInv, TypeInv
    <2>6. Unique'
      BY <2>3, <2>4 DEF IInv, Unique
    <2>7. OriginAt'
      <3> SUFFICES ASSUME NEW q \in Region
                   PROVE  /\ virt_start'[q] = {} => origin'[q] = {}
                          /\ virt_start'[q] # {} =>
                               \E k \in 1..Len(pages) : /\ RegionOf(pages[k]) = q
                                                        /\ pages[k] \in origin'[q]
                                                        /\ virt_start'[q] = {Base(k)}
        BY <1>0, <1>1 DEF OriginAt
      <3>1. CASE q # r \/ virt_start[r] # {}
        <4>1. virt_start'[q] = virt_start[q] /\ origin'[q] = origin[q]
          BY <2>4, <3>1
        <4> QED BY <4>1 DEF IInv, OriginAt
      <3>2. CASE q = r /\ virt_start[r] = {}
        <4>1. virt_start'[q] = {Base(v + 1)} /\ origin'[q] = {f}
          BY <2>4, <3>2
        <4>2. v + 1 \in 1..Len(pages) /\ RegionOf(pages[v + 1]) = q /\ pages[v + 1] \in origin'[q]
          BY <2>3, <3>2, <4>1
        <4> QED BY <4>1, <4>2
      <3> QED BY <3>1, <3>2
    <2>8. FramesAt'
      <3> SUFFICES ASSUME NEW g \in frames' PROVE g \in Backing /\ virt_start'[RegionOf(g)] # {}
        BY <1>1 DEF FramesAt
      <3>1. g \in Frames
        BY <2>2, <2>3 DEF IInv, TypeInv
      <3>2. RegionOf(g) \in Region
        BY <3>1, RegionFacts
      <3> QED BY <2>2, <2>3, <2>4, <3>2 DEF IInv, FramesAt
    <2>9. AstrayAt'
      <3> SUFFICES ASSUME NEW g \in astray
                   PROVE  \E h \in origin'[RegionOf(g)] : Between(tables, g, h)
        BY <1>0, <1>1 DEF AstrayAt
      <3>1. RegionOf(g) \in Region
        BY RegionFacts DEF IInv, TypeInv
      <3>2. PICK h \in origin[RegionOf(g)] : Between(tables, g, h)
        BY DEF IInv, AstrayAt
      <3>3. virt_start[RegionOf(g)] # {}
        BY <3>1, <3>2 DEF IInv, OriginAt
      <3>4. origin'[RegionOf(g)] = origin[RegionOf(g)]
        BY <2>4, <3>1, <3>3
      <3> QED BY <3>2, <3>4
    <2>10. OwnedAt'
      <3> SUFFICES ASSUME astray = {}, NEW w \in HeapPages PROVE OneHand(w)'
        BY <1>0, <1>1 DEF OwnedAt
      <3>1. \A u \in HeapPages : OneHand(u)
        BY <1>0 DEF IInv, OwnedAt
      <3>2. w # v => pages[w + 1] # f
        <4>1. w \in Nat /\ w + 1 \in 1..Len(pages)
          BY <1>1
        <4> QED BY <2>3, <4>1 DEF IInv, Apart
      <3> QED BY <1>0, <2>1, <2>2, <3>1, <3>2 DEF OneHand
    <2> QED BY <1>1, <2>5, <2>6, <2>7, <2>8, <2>9, <2>10 DEF IInv
  <1> QED BY <1>2, <1>3

\* A frame given back: the address computed for it is its own page's unless a table lies
\* between it and the frame that fixed the address of its region.
LEMMA DeallocateFrameInv == ASSUME IInv, NEW f \in frames, deallocate_frame(f) PROVE IInv'
  <1>0. /\ phase = "run" /\ UNCHANGED <<iter, pages, tables, virt_start, boxes, blocks, origin>>
        /\ frames' = frames \ {f} /\ phase' \in {"run", "fault"}
        /\ astray' = IF phys_to_virt(f) \cap own_page(f) # {} THEN astray ELSE astray \cup {f}
    BY DEF deallocate_frame
  <1>1. /\ HeapPages' = HeapPages /\ Backing' = Backing
        /\ Apart' /\ AllThere' /\ Upwards' /\ InOnePiece' /\ BootAt'
        /\ pages \in Seq(Frames) /\ Len(pages) \in Nat
        /\ \A w \in HeapPages : w \in Nat /\ w + 1 \in 1..Len(pages) /\ pages[w + 1] \in Frames
        /\ \A a, b : Between(tables, a, b)' <=> Between(tables, a, b)
        /\ \A i : Base(i)' = Base(i)
    BY <1>0, RunFacts
  <1>2. free' = free \/ \E v \in HeapPages : free' = free \cup {v}
    BY DEF deallocate_frame, HeapPages
  <1> DEFINE r == RegionOf(f)
  <1>3. f \in Frames /\ f \in Nat /\ r \in Region /\ Regions[r].start \in Nat
    BY FrameFacts, RegionFacts DEF IInv, TypeInv
  <1>4. TypeInv'
    BY <1>0, <1>1, <1>2, <1>3 DEF IInv, TypeInv
  <1>5. PICK i \in 1..Len(pages) : f = pages[i]
    BY DEF IInv, FramesAt, Backing
  <1>6. PICK k \in 1..Len(pages) :
          RegionOf(pages[k]) = r /\ pages[k] \in origin[r] /\ virt_start[r] = {Base(k)}
    BY <1>3 DEF IInv, FramesAt, OriginAt
  <1> DEFINE w == i - 1
             g == pages[k]
  <1>7. w \in HeapPages /\ w + 1 = i /\ pages[w + 1] = f /\ g \in Nat /\ i \in Nat /\ k \in Nat
        /\ own_page(f) = {w}
    <2>1. w \in HeapPages /\ w + 1 = i /\ pages[w + 1] = f /\ i \in Nat /\ k \in Nat
      BY <1>1, <1>5, <1>6 DEF HeapPages
    <2>2. g \in Nat
      <3> pages \in Seq(Frames)
        BY <1>1
      <3> g \in Frames
        BY <1>6
      <3> QED BY FrameFacts
    <2>3. \A v \in HeapPages : pages[v + 1] = f => v = w
      BY <1>1, <1>5 DEF IInv, Apart
    <2>4. own_page(f) = {w}
      BY <2>1, <2>3 DEF own_page, HeapPages
    <2> QED BY <2>1, <2>2, <2>4
  <1>8. phys_to_virt(f) = {(k - 1) - g + f}
    <2>1. Base(k) = (k - 1) - (g - Regions[r].start)
      BY <1>6 DEF Base
    <2> DEFINE b == Regions[r].start
    <2>2. b \in Nat /\ Base(k) = (k - 1) - (g - b)
      BY <1>3, <2>1
    <2> HIDE DEF g, b
    <2>3. Base(k) + (f - b) = (k - 1) - g + f
      BY <1>3, <1>7, <2>2
    <2>4. phys_to_virt(f) = {Base(k) + (f - b)}
      BY <1>6 DEF phys_to_virt, b
    <2> QED BY <2>3, <2>4
  <1>9. CASE ~ Between(tables, f, g)
    <2>1. f - i = g - k
      BY <1>5, <1>6, <1>9 DEF IInv, InOnePiece
    <2>2. (k - 1) - g + f = w
      <3> HIDE DEF g
      <3> QED BY <1>3, <1>7, <2>1
    <2>3. phys_to_virt(f) = {w} /\ astray' = astray
      BY <1>0, <1>7, <1>8, <2>2
    <2> HIDE DEF w, g
    <2>4. ASSUME astray = {} PROVE phase' = "run" /\ \A u \in HeapPages : OneHand(u)'
      <3>1. \A u \in HeapPages : OneHand(u)
        BY <1>0, <2>4 DEF IInv, OwnedAt
      <3>2. w \notin free
        BY <1>7, <3>1 DEF OneHand
      <3>3. free' = free \cup {w} /\ phase' = "run"
        BY <1>0, <1>7, <2>3, <3>2 DEF deallocate_frame, HeapPages
      <3>4. ASSUME NEW u \in HeapPages PROVE OneHand(u)'
        <4>1. u # w => pages[u + 1] # f
          <5>1. u \in Nat /\ u + 1 \in 1..Len(pages) /\ w \in Nat /\ w + 1 \in 1..Len(pages)
            BY <1>1, <1>7
          <5> QED BY <1>7, <5>1 DEF IInv, Apart
        <4> QED BY <1>0, <1>7, <3>1, <3>3, <4>1 DEF OneHand
      <3> QED BY <3>3, <3>4
    <2>5. OwnedAt'
      BY <1>1, <2>3, <2>4 DEF OwnedAt
    <2>6. AstrayAt'
      BY <1>0, <1>1, <2>3 DEF IInv, AstrayAt
    <2> QED BY <2>5, <2>6, <1>0, <1>1, <1>4 DEF IInv, Unique, OriginAt, FramesAt
  <1>10. CASE Between(tables, f, g)
    <2>1. AstrayAt'
      <3>1. \A h \in astray' : h = f \/ h \in astray
        BY <1>0
      <3> QED BY <1>0, <1>1, <1>6, <1>10, <3>1 DEF IInv, AstrayAt
    <2>2. OwnedAt'
      <3> SUFFICES ASSUME astray' = {} PROVE OwnedAt'
        BY DEF OwnedAt
      <3>1. phys_to_virt(f) \cap own_page(f) # {} /\ astray = {}
        BY <1>0
      <3>2. phys_to_virt(f) = {w}
        BY <1>7, <1>8, <3>1
      <3> HIDE DEF w, g
      <3>3. \A u \in HeapPages : OneHand(u)
        BY <1>0, <3>1 DEF IInv, OwnedAt
      <3>4. w \notin free
        BY <1>7, <3>3 DEF OneHand
      <3>5. free' = free \cup {w} /\ phase' = "run"
        BY <1>0, <1>7, <3>2, <3>4 DEF deallocate_frame, HeapPages
      <3>6. ASSUME NEW u \in HeapPages PROVE OneHand(u)'
        <4>1. u # w => pages[u + 1] # f
          <5>1. u \in Nat /\ u + 1 \in 1..Len(pages) /\ w \in Nat /\ w + 1 \in 1..Len(pages)
            BY <1>1, <1>7
          <5> QED BY <1>7, <5>1 DEF IInv, Apart
        <4> QED BY <1>0, <1>7, <3>3, <3>5, <4>1 DEF OneHand
      <3> QED BY <1>1, <3>5, <3>6 DEF OwnedAt
    <2> QED BY <2>1, <2>2, <1>0, <1>1, <1>4 DEF IInv, Unique, OriginAt, FramesAt
  <1> QED BY <1>9, <1>10

-------------------------------------------------------------------------------
(* The theorems.                                                           *)

LEMMA NextInv == IInv /\ [Next]_vars => IInv'
  <1> SUFFICES ASSUME IInv, [Next]_vars PROVE IInv'
    OBVIOUS
  <1>1. CASE UNCHANGED vars
    BY <1>1, StutterInv
  <1> QED BY <1>1, AllocateOneInv, InitHeapInv, TakeInv, DeallocInv, AllocateFrameInv,
             DeallocateFrameInv DEF Next

LEMMA Invariance == Spec => []IInv
  BY InitInv, NextInv, PTL DEF Spec

\* Type correctness of the memory.
THEOREM TypeCorrect == Spec => []TypeOK
  BY InvType, Invariance, PTL

\* After boot every frame has one use, whatever the memory map, and one is lost at most.
THEOREM AllMemoryAccounted == Spec => []MemoryAccounted
  BY InvAccounted, Invariance, PTL

\* Whatever the memory map, a release goes astray only across a page table in its
\* region, and until then frames and heap pages never collide.
THEOREM OwnersExclusive == Spec => []OneOwner
  BY InvOwner, Invariance, PTL

===============================================================================
