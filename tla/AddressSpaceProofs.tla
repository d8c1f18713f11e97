--------------------------- MODULE AddressSpaceProofs ---------------------------
(***************************************************************************)
(* Proofs about AddressSpace for every set of tasks, frames, programs and  *)
(* capabilities, every page size and every shape of the page tables.       *)
(***************************************************************************)
EXTENDS AddressSpace, FiniteSetTheorems, TLAPS

-------------------------------------------------------------------------------
(* The inductive invariant.                                                *)

Shape ==
  /\ alive \subseteq Tasks
  /\ tables \in [Tasks -> SUBSET Table]
  /\ tframes \in [Tasks -> SUBSET Frames]
  /\ root \in [Tasks -> SUBSET Frames]
  /\ leaf = [t \in Tasks |-> leaf[t]]
  /\ ram \in [Tasks -> SUBSET Pages]
  /\ ustack \in [Tasks -> SUBSET Pages]
  /\ free \subseteq Frames /\ mixed \subseteq Frames
  /\ image = [t \in Tasks |-> image[t]]
  /\ entry \in [Tasks -> Programs \cup {NoProgram}]

\* The stack of an address space is mapped, by no page it took RAM for; what is not
\* an address space is empty.
SpaceAt(t) ==
  /\ IsFiniteSet(tables[t])
  /\ DOMAIN leaf[t] \subseteq Pages
  /\ ram[t] \cup ustack[t] \subseteq DOMAIN leaf[t]
  /\ ram[t] \cap ustack[t] = {}
  /\ \A p \in ram[t] \cup ustack[t] : leaf[t][p] \in Frames
  /\ DOMAIN image[t] \subseteq ram[t]
  /\ t \notin alive => tframes[t] = {} /\ DOMAIN leaf[t] = {} /\ entry[t] = NoProgram

\* Task t may have frame f mapped by its physical address.
Allowed(t, f) ==
  \E r \in PhysCap[t] : r[1] <= f * PageSize /\ f * PageSize + PageSize - 1 <= r[2]

\* The mapping loop under way has pages left, and if it maps
\* physical memory it may map every frame that is still to come.
JobAt ==
  job # Idle =>
    /\ job.task \in alive
    /\ job.kind \in {"virt", "phys", "elf"}
    /\ job.pages \in Seq(AllPages) /\ job.pages # <<>>
    /\ job.frame \in Nat
    /\ job.kind = "elf" => job.program \in Programs
    /\ job.kind = "phys" => \A i \in 1 .. Len(job.pages) : Allowed(job.task, job.frame + i - 1)

IInv ==
  /\ Shape
  /\ \A t \in Tasks : SpaceAt(t)
  /\ JobAt
  /\ FramesExclusive
  /\ TablesComplete
  /\ PhysAuthorised

-------------------------------------------------------------------------------
(* Sets of numbers.                                                        *)

\* A set of numbers that is not empty has a least one.
LEMMA LeastExists ==
  ASSUME NEW S \in SUBSET Nat, S # {}
  PROVE  \E m \in S : \A n \in S : m <= n
  <1> DEFINE T == {0 .. n : n \in S}
             R == StrictSubsetOrdering(Nat)
  <1>1. \A n \in S : 0 .. n \in FiniteSubsetsOf(Nat)
    BY FS_Interval DEF FiniteSubsetsOf
  <1>2. T \subseteq FiniteSubsetsOf(Nat) /\ T # {}
    BY <1>1
  <1>3. IsWellFoundedOn(R, FiniteSubsetsOf(Nat))
    BY FS_StrictSubsetOrderingWellFounded
  <1> HIDE DEF T, R
  <1>4. PICK x \in T : \A y \in T : ~ (<<y, x>> \in R)
    BY <1>2, <1>3, WFMin
  <1>5. PICK m \in S : x = 0 .. m
    BY <1>4 DEF T
  <1>6. ASSUME NEW n \in S, n < m PROVE FALSE
    <2>1. 0 .. n \in T
      BY DEF T
    <2>2. 0 .. n \subseteq 0 .. m /\ m \in 0 .. m /\ m \notin 0 .. n
      BY <1>6
    <2>3. <<0 .. n, 0 .. m>> \in R
      <3>1. 0 .. n \in SUBSET Nat /\ 0 .. m \in SUBSET Nat
        OBVIOUS
      <3> QED BY <2>2, <3>1 DEF R, StrictSubsetOrdering
    <2> QED BY <1>4, <1>5, <2>1, <2>3
  <1> QED BY <1>6

\* The elements of S that have fewer than n others below them, by their keys k.
Few(S, k, n) == {x \in S : Cardinality({y \in S : k[y] < k[x]}) < n}

\* One more of them is the next larger one.
LEMMA FewMore ==
  ASSUME NEW S, IsFiniteSet(S), NEW k \in [S -> Nat], \A x, y \in S : k[x] = k[y] => x = y,
         NEW n \in Nat, Cardinality(Few(S, k, n)) = n, n < Cardinality(S)
  PROVE  Cardinality(Few(S, k, n + 1)) = n + 1
  <1> DEFINE F == Few(S, k, n)
             Below(x) == {y \in S : k[y] < k[x]}
             R == S \ F
  <1>0. \A x \in S : x \in F <=> Cardinality(Below(x)) < n
    BY DEF Few
  <1>1. F \in SUBSET S /\ \A x \in S : Below(x) \in SUBSET S
    BY DEF Few
  <1>2. \A x \in S : IsFiniteSet(Below(x)) /\ Cardinality(Below(x)) \in Nat
    BY <1>1, FS_Subset, FS_CardinalityType
  <1>3. IsFiniteSet(F)
    BY <1>1, FS_Subset
  <1>4. R # {}
    <2>1. R = {} => F = S
      BY <1>1
    <2>2. F = S => Cardinality(S) = n
      OBVIOUS
    <2>3. Cardinality(S) \in Nat
      BY FS_CardinalityType
    <2> QED BY <2>1, <2>2, <2>3
  <1> HIDE DEF F, R, Below
  <1>5. PICK m \in R : \A x \in R : k[m] <= k[x]
    <2> DEFINE K == {k[x] : x \in R}
    <2>1. K \in SUBSET Nat /\ K # {}
      BY <1>4 DEF R
    <2> HIDE DEF K
    <2>2. PICK j \in K : \A i \in K : j <= i
      BY <2>1, LeastExists
    <2> QED BY <2>2 DEF K
  <1>6. m \in S /\ m \notin F
    BY DEF R
  <1>7. ASSUME NEW x \in S, NEW y \in F, k[x] < k[y] PROVE x \in F
    <2>1. y \in S /\ Cardinality(Below(y)) < n
      BY <1>0, <1>1
    <2>2. Below(x) \in SUBSET Below(y)
      <3>1. k[x] \in Nat /\ k[y] \in Nat /\ \A z \in S : k[z] \in Nat
        BY <2>1
      <3> QED BY <1>7, <3>1 DEF Below
    <2>3. Cardinality(Below(x)) <= Cardinality(Below(y))
      BY <1>2, <2>1, <2>2, FS_Subset
    <2> QED BY <1>0, <1>2, <2>1, <2>3
  <1>8. Below(m) = F
    <2>1. ASSUME NEW x \in Below(m) PROVE x \in F
      <3>1. x \in S /\ k[x] < k[m] /\ k[x] \in Nat /\ k[m] \in Nat
        BY <1>6 DEF Below
      <3>2. x \notin R
        BY <1>5, <3>1
      <3> QED BY <3>1, <3>2 DEF R
    <2>2. ASSUME NEW x \in F PROVE x \in Below(m)
      <3>1. x \in S /\ k[x] \in Nat /\ k[m] \in Nat
        BY <1>1, <1>6
      <3>2. k[m] # k[x]
        BY <1>6, <3>1
      <3>3. ~ (k[m] < k[x])
        BY <1>6, <1>7
      <3> QED BY <3>1, <3>2, <3>3 DEF Below
    <2> QED BY <2>1, <2>2
  <1>9. Few(S, k, n + 1) = F \cup {m}
    <2>1. \A x \in S : x \in Few(S, k, n + 1) <=> Cardinality(Below(x)) < n + 1
      BY DEF Few, Below
    <2>2. Few(S, k, n + 1) \subseteq S
      BY DEF Few
    <2>3. Cardinality(Below(m)) = n
      BY <1>8 DEF F
    <2>4. ASSUME NEW x \in F PROVE x \in Few(S, k, n + 1)
      BY <1>0, <1>1, <1>2, <2>1
    <2>5. ASSUME NEW x \in S, x \notin F, x # m PROVE x \notin Few(S, k, n + 1)
      <3>1. x \in R /\ k[m] \in Nat /\ k[x] \in Nat
        BY <1>6, <2>5 DEF R
      <3>2. k[m] < k[x]
        BY <1>5, <1>6, <2>5, <3>1
      <3>3. F \cup {m} \in SUBSET Below(x)
        <4>1. \A y \in F : y \in S /\ k[y] < k[m] /\ k[y] \in Nat
          BY <1>8 DEF Below
        <4> QED BY <1>6, <3>1, <3>2, <4>1 DEF Below
      <3>4. Cardinality(F \cup {m}) = n + 1
        BY <1>3, <1>6, FS_AddElement DEF F
      <3>5. n + 1 <= Cardinality(Below(x))
        BY <1>2, <2>5, <3>3, <3>4, FS_Subset
      <3> QED BY <1>2, <2>1, <2>5, <3>5
    <2> QED BY <1>1, <1>6, <2>1, <2>2, <2>3, <2>4, <2>5
  <1> QED BY <1>3, <1>6, <1>9, FS_AddElement DEF F

\* Of a finite set there are n of them, and all of it when the set has no more than n.
LEMMA FewCount ==
  ASSUME NEW S, IsFiniteSet(S), NEW k \in [S -> Nat], \A x, y \in S : k[x] = k[y] => x = y,
         NEW n \in Nat
  PROVE  /\ n <= Cardinality(S) => Cardinality(Few(S, k, n)) = n
         /\ Cardinality(S) <= n => Few(S, k, n) = S
  <1>0. Cardinality(S) \in Nat
    BY FS_CardinalityType
  <1>1. \A i \in Nat : i <= Cardinality(S) => Cardinality(Few(S, k, i)) = i
    <2> DEFINE Bad == {i \in Nat : i <= Cardinality(S) /\ Cardinality(Few(S, k, i)) # i}
    <2> SUFFICES ASSUME Bad # {} PROVE FALSE
      OBVIOUS
    <2>1. PICK i \in Bad : \A j \in Bad : i <= j
      <3>1. Bad \in SUBSET Nat
        OBVIOUS
      <3> HIDE DEF Bad
      <3> QED BY <3>1, LeastExists
    <2>2. i # 0
      <3>1. \A x \in S : Cardinality({y \in S : k[y] < k[x]}) \in Nat
        <4> TAKE x \in S
        <4>1. IsFiniteSet({y \in S : k[y] < k[x]})
          BY FS_Subset
        <4> QED BY <4>1, FS_CardinalityType
      <3>2. Few(S, k, 0) = {}
        BY <3>1 DEF Few
      <3> QED BY <3>2, FS_EmptySet
    <2>3. i - 1 \in Nat /\ i - 1 \notin Bad /\ i - 1 < Cardinality(S)
      BY <1>0, <2>1, <2>2
    <2>4. Cardinality(Few(S, k, i - 1)) = i - 1
      BY <1>0, <2>3
    <2>5. Cardinality(Few(S, k, (i - 1) + 1)) = (i - 1) + 1
      BY <2>3, <2>4, FewMore
    <2> QED BY <2>1, <2>3, <2>5
  <1>2. ASSUME Cardinality(S) <= n PROVE Few(S, k, n) = S
    <2>1. ASSUME NEW x \in S PROVE Cardinality({y \in S : k[y] < k[x]}) < n
      <3> DEFINE B == {y \in S : k[y] < k[x]}
      <3>1. B \in SUBSET S /\ x \notin B
        OBVIOUS
      <3> HIDE DEF B
      <3>2. IsFiniteSet(B) /\ Cardinality(B) <= Cardinality(S) /\ Cardinality(B) # Cardinality(S)
        BY <3>1, FS_Subset
      <3>3. Cardinality(B) \in Nat
        BY <3>2, FS_CardinalityType
      <3>4. Cardinality(B) < n
        BY <1>0, <1>2, <3>2, <3>3
      <3> QED BY <3>4 DEF B
    <2> QED BY <2>1 DEF Few
  <1> QED BY <1>1, <1>2

LEMMA DisjointUnion ==
  ASSUME NEW S, NEW T, IsFiniteSet(S), IsFiniteSet(T), S \cap T = {}
  PROVE  IsFiniteSet(S \cup T) /\ Cardinality(S \cup T) = Cardinality(S) + Cardinality(T)
  <1>1. /\ IsFiniteSet(S \cup T)
        /\ Cardinality(S \cup T) = Cardinality(S) + Cardinality(T) - Cardinality(S \cap T)
    BY FS_Union
  <1>2. Cardinality(S \cap T) = 0
    BY FS_EmptySet
  <1>3. Cardinality(S) \in Nat /\ Cardinality(T) \in Nat
    BY FS_CardinalityType
  <1> QED BY <1>1, <1>2, <1>3

\* What Lowest takes from a set of frames.
LEMMA LowestFacts ==
  ASSUME NEW S \in SUBSET Frames, NEW n \in Nat
  PROVE  /\ Lowest(S, n) \in SUBSET S
         /\ IsFiniteSet(S) /\ IsFiniteSet(Lowest(S, n))
         /\ Cardinality(S) \in Nat
         /\ n <= Cardinality(S) => Cardinality(Lowest(S, n)) = n
         /\ Cardinality(S) <= n => Lowest(S, n) = S
  <1> DEFINE k == [x \in S |-> x]
  <1>1. S \in SUBSET Nat /\ IsFiniteSet(S)
    BY SpaceAssumption, FS_Subset
  <1>2. k \in [S -> Nat] /\ \A x, y \in S : k[x] = k[y] => x = y
    BY <1>1
  <1>3. Lowest(S, n) = Few(S, k, n)
    <2>1. \A x \in S : {g \in S : g < x} = {y \in S : k[y] < k[x]}
      OBVIOUS
    <2> HIDE DEF k
    <2> QED BY <2>1 DEF Lowest, Few
  <1> HIDE DEF k
  <1>4. Lowest(S, n) \in SUBSET S
    BY DEF Lowest
  <1>5. /\ n <= Cardinality(S) => Cardinality(Few(S, k, n)) = n
        /\ Cardinality(S) <= n => Few(S, k, n) = S
    BY <1>1, <1>2, FewCount
  <1>6. IsFiniteSet(Lowest(S, n)) /\ Cardinality(S) \in Nat
    BY <1>1, <1>4, FS_Subset, FS_CardinalityType
  <1> QED BY <1>1, <1>3, <1>4, <1>5, <1>6

\* The one frame taken for a page.
LEMMA LowestOne ==
  ASSUME NEW S \in SUBSET Frames, S # {}
  PROVE  \E x \in S : Lowest(S, 1) = {x}
  <1>1. Cardinality(S) \in Nat /\ IsFiniteSet(S) /\ Lowest(S, 1) \in SUBSET S
        /\ IsFiniteSet(Lowest(S, 1)) /\ (1 <= Cardinality(S) => Cardinality(Lowest(S, 1)) = 1)
    BY LowestFacts
  <1>2. Cardinality(S) # 0
    BY <1>1, FS_EmptySet
  <1>3. Cardinality(Lowest(S, 1)) = 1
    BY <1>1, <1>2
  <1>4. \E x : Lowest(S, 1) = {x}
    BY <1>1, <1>3, FS_Singleton
  <1> QED BY <1>1, <1>4

-------------------------------------------------------------------------------
(* Addresses.                                                              *)

LEMMA Divides ==
  ASSUME NEW a \in Nat, NEW b \in Nat \ {0}
  PROVE  /\ a \div b \in Nat
         /\ a % b = 0 => a = b * (a \div b)
  OBVIOUS

LEMMA DividesLess ==
  ASSUME NEW a \in Nat, NEW c \in Nat, NEW b \in Nat \ {0}, a <= c
  PROVE  a \div b <= c \div b
  OBVIOUS

LEMMA Wraps ==
  ASSUME NEW a \in Nat, NEW b \in Nat \ {0}, a < 2 * b
  PROVE  a % b = IF a < b THEN a ELSE a - b
  OBVIOUS

LEMMA Multiple ==
  ASSUME NEW b \in Nat \ {0}, NEW m \in Int, NEW y \in Nat, y = b * m
  PROVE  y % b = 0
  OBVIOUS

\* One less, in numbers below b.
LEMMA Before ==
  ASSUME NEW b \in Nat \ {0}, NEW a \in Nat, a < b
  PROVE  (a - 1) % b = IF a = 0 THEN b - 1 ELSE a - 1
  <1>1. CASE a = 0
    <2>1. (-1) % b = b - 1
      OBVIOUS
    <2>2. a - 1 = -1
      BY <1>1
    <2> QED BY <1>1, <2>1, <2>2
  <1>2. CASE a # 0
    <2> DEFINE c == a - 1
    <2>1. c \in Nat /\ c < b
      BY <1>2
    <2> HIDE DEF c
    <2>2. c % b = c
      BY <2>1
    <2> QED BY <1>2, <2>2 DEF c
  <1> QED BY <1>1, <1>2

\* The numbers behind the assumptions.
LEMMA Sizes ==
  /\ PageSize \in Nat /\ PageSize > 0
  /\ Canonical \in Nat /\ Canonical > 0 /\ Canonical % PageSize = 0
  /\ Top \in Nat /\ Top % PageSize = 0 /\ 4 * Canonical <= Top
  /\ PhysTop \in Nat /\ PhysTop > 0 /\ 4 * PhysTop <= Top
  BY AddressAssumption, SpaceAssumption

\* A page number below the end of the user half is a user page.
LEMMA UserPage ==
  ASSUME NEW a \in Nat, a < Canonical
  PROVE  a \div PageSize \in Pages
  <1> DEFINE c == Canonical \div PageSize
             q == a \div PageSize
  <1>1. c \in Nat /\ Canonical = PageSize * c
    BY Sizes, Divides
  <1>2. q \in Nat /\ PageSize * q <= a
    BY Sizes
  <1> HIDE DEF c, q
  <1>3. q < c
    BY <1>1, <1>2, Sizes
  <1>4. q \in 0 .. c - 1
    BY <1>1, <1>2, <1>3
  <1> QED BY <1>4 DEF Pages, c, q

\* An address without the bits above bit 47.
Low(x) == IF x < Canonical THEN x ELSE x - (Top - 2 * Canonical)

\* The page of an address whose bits from bit 47 on are equal.
LEMMA PageFacts ==
  ASSUME NEW x \in Nat, x < Top, x < Canonical \/ x >= Top - Canonical
  PROVE  /\ Low(x) \in Nat /\ page_of(x) = Low(x) \div PageSize
         /\ page_of(x) \in AllPages
         /\ x % PageSize = 0 => PageSize * page_of(x) = Low(x)
  <1> DEFINE c == Canonical \div PageSize
             t == Top \div PageSize
             y == Low(x)
             q == y \div PageSize
  <1>1. c \in Nat /\ Canonical = PageSize * c /\ t \in Nat /\ Top = PageSize * t
    BY Sizes, Divides
  <1>2. y \in Nat /\ y < 2 * Canonical /\ (y = x \/ y = x - (Top - 2 * Canonical))
    BY Sizes DEF Low
  <1>3. page_of(x) = q
    BY DEF page_of, Low
  <1> HIDE DEF y
  <1>4. q \in Nat /\ PageSize * q <= y
    BY <1>2, Sizes
  <1>5. ASSUME x % PageSize = 0 PROVE PageSize * q = y
    <2> DEFINE r == x \div PageSize
    <2>1. r \in Nat /\ x = PageSize * r
      BY <1>5, Sizes, Divides
    <2> HIDE DEF r, c, t
    <2>2. \E m \in Int : y = PageSize * m
      <3>1. CASE y = x
        BY <2>1, <3>1
      <3>2. CASE y = x - (Top - 2 * Canonical)
        <4>1. y = PageSize * r - (PageSize * t - 2 * (PageSize * c))
          BY <1>1, <2>1, <3>2
        <4>2. PageSize * (r - (t - 2 * c)) = PageSize * r - (PageSize * t - 2 * (PageSize * c))
          BY <1>1, <2>1, Sizes
        <4>3. r - (t - 2 * c) \in Int
          BY <1>1, <2>1
        <4> QED BY <4>1, <4>2, <4>3
      <3> QED BY <1>2, <3>1, <3>2
    <2>3. PICK m \in Int : y = PageSize * m
      BY <2>2
    <2>5. PageSize \in Nat \ {0}
      BY Sizes
    <2>4. y % PageSize = 0
      BY <1>2, <2>3, <2>5, Multiple
    <2> QED BY <1>2, <2>4, <2>5, Divides
  <1> HIDE DEF c, q
  <1>6. q < 2 * c
    <2>1. PageSize * q < 2 * (PageSize * c)
      BY <1>1, <1>2, <1>4, Sizes
    <2>2. 2 * (PageSize * c) = PageSize * (2 * c)
      BY <1>1, Sizes
    <2> QED BY <1>1, <1>4, <2>1, <2>2, Sizes
  <1>7. q \in 0 .. 2 * c - 1
    BY <1>1, <1>4, <1>6
  <1> QED BY <1>2, <1>3, <1>5, <1>7 DEF AllPages, c, q, y

\* A range of pages.
LEMMA RangeFacts ==
  ASSUME NEW a \in Nat, NEW b \in Nat, b - 1 \in AllPages \/ b <= a
  PROVE  /\ PageRange(a, b) \in Seq(AllPages)
         /\ PageRange(a, b) # <<>> => b > a /\ Len(PageRange(a, b)) = b - a
  <1> DEFINE n == IF b >= a THEN b - a ELSE 0
  <1>1. n \in Nat /\ 1 .. (b - a) = 1 .. n /\ (b > a => n = b - a) /\ (~ (b > a) => n = 0)
    OBVIOUS
  <1>2. ASSUME NEW i \in 1 .. n PROVE a + i - 1 \in AllPages
    <2>1. b > a /\ i <= b - a
      BY <1>1
    <2> QED BY <2>1, <1>1, Sizes DEF AllPages
  <1> HIDE DEF n
  <1>3. PageRange(a, b) = [i \in 1 .. n |-> a + i - 1]
    BY <1>1 DEF PageRange
  <1> HIDE DEF AllPages
  <1>4. [i \in 1 .. n |-> a + i - 1] \in Seq(AllPages) /\ Len([i \in 1 .. n |-> a + i - 1]) = n
    BY <1>1, <1>2
  <1>5. n = 0 => [i \in 1 .. n |-> a + i - 1] = <<>>
    BY <1>1
  <1> QED BY <1>1, <1>3, <1>4, <1>5

\* What the checks of parse_page_range leave: a range of pages, no longer than len
\* says (shorter where the sum wrapped twice), and a length that is not too large.
LEMMA ParseFacts ==
  ASSUME NEW at \in Addrs, NEW len \in Lens, parse_page_range(at, len).code = "Ok"
  PROVE  LET o == parse_page_range(at, len)
         IN  /\ o.pages \in Seq(AllPages)
             /\ o.pages # <<>> => PageSize * Len(o.pages) <= len /\ len <= 3 * Canonical
  <1> DEFINE o == parse_page_range(at, len)
             from == extend(at)
             to == (from + len) % Top
             sum == (at + len - 1) % Top
             last == extend(to)
             a == page_of(from)
             b == page_of(last)
  <1>1. at \in Nat /\ at < Top /\ len \in Nat /\ len < Top
    BY SpaceAssumption, Sizes
  <1>2. /\ check_addr_userspace(at) /\ check_addr_userspace(sum) /\ VirtAddr(at) /\ VirtAddr(to)
        /\ from % PageSize = 0 /\ to % PageSize = 0
        /\ o.pages = PageRange(a, b)
    BY DEF parse_page_range, Outcome
  <1>3. /\ at < 2 * Canonical
        /\ from \in Nat /\ from < Top /\ (from < Canonical \/ from >= Top - Canonical)
        /\ (at < Canonical => from = at)
        /\ (~ (at < Canonical) => from = at + (Top - 2 * Canonical))
        /\ Low(from) = at
    <2>1. at < Top \div 2 /\ (at < 2 * Canonical \/ at >= Top - Canonical)
      BY <1>2 DEF check_addr_userspace, VirtAddr
    <2>2. at < 2 * Canonical
      BY <1>1, <2>1, Sizes
    <2> QED BY <1>1, <2>2, Sizes DEF extend, Low
  <1> HIDE DEF o, from
  <1>0. to = (from + len) % Top
    OBVIOUS
  <1> HIDE DEF to
  <1>4. /\ to \in Nat /\ to < Top
        /\ (from + len < Top => to = from + len)
        /\ (~ (from + len < Top) => to = from + len - Top)
    <2> DEFINE x == from + len
    <2>1. x \in Nat /\ x < 2 * Top /\ Top \in Nat \ {0}
      BY <1>1, <1>3, Sizes
    <2>2. to = x % Top
      BY <1>0
    <2> HIDE DEF x
    <2>3. to = IF x < Top THEN x ELSE x - Top
      BY <2>1, <2>2, Wraps
    <2>4. to \in Nat /\ to < Top
      BY <2>1, <2>3, Sizes
    <2>5. (x < Top => to = x) /\ (~ (x < Top) => to = x - Top)
      BY <2>3
    <2> QED BY <1>1, <1>3, <2>1, <2>4, <2>5, Sizes DEF x
  <1>5. /\ last \in Nat /\ last < Top /\ (last < Canonical \/ last >= Top - Canonical)
        /\ (to < 2 * Canonical => Low(last) = to)
        /\ (~ (to < 2 * Canonical) => to >= Top - Canonical /\ Low(last) = to - (Top - 2 * Canonical))
        /\ (last = to \/ last = to + (Top - 2 * Canonical))
    <2>1. to < 2 * Canonical \/ to >= Top - Canonical
      BY <1>2 DEF VirtAddr
    <2> QED BY <1>4, <2>1, Sizes DEF extend, Low
  <1>6. last % PageSize = 0
    <2> DEFINE c == Canonical \div PageSize
               t == Top \div PageSize
               r == to \div PageSize
    <2>1. /\ c \in Nat /\ Canonical = PageSize * c /\ t \in Nat /\ Top = PageSize * t
          /\ r \in Nat /\ to = PageSize * r
      BY <1>2, <1>4, Sizes, Divides
    <2> HIDE DEF c, t, r, last
    <2>2. \E m \in Int : last = PageSize * m
      <3>1. CASE last = to
        BY <2>1, <3>1
      <3>2. CASE last = to + (Top - 2 * Canonical)
        <4>1. last = PageSize * r + (PageSize * t - 2 * (PageSize * c))
          BY <2>1, <3>2
        <4>2. PageSize * (r + (t - 2 * c)) = PageSize * r + (PageSize * t - 2 * (PageSize * c))
          BY <2>1, Sizes
        <4>3. r + (t - 2 * c) \in Int
          BY <2>1
        <4> QED BY <4>1, <4>2, <4>3
      <3> QED BY <1>5, <3>1, <3>2
    <2>3. PICK m \in Int : last = PageSize * m
      BY <2>2
    <2> QED BY <1>5, <2>3, Sizes
  <1> HIDE DEF last
  <1>7. /\ a \in AllPages /\ PageSize * a = at
        /\ b \in AllPages /\ PageSize * b = Low(last)
    BY <1>2, <1>3, <1>5, <1>6, PageFacts
  <1> HIDE DEF a, b
  <1>8. a \in Nat /\ b \in Nat /\ (b - 1 \in AllPages \/ b <= a)
    BY <1>7, Sizes DEF AllPages
  <1>9. /\ o.pages \in Seq(AllPages)
        /\ o.pages # <<>> => b > a /\ Len(o.pages) = b - a
    BY <1>2, <1>8, RangeFacts
  <1>10. ASSUME o.pages # <<>> PROVE PageSize * Len(o.pages) <= len /\ len <= 3 * Canonical
    <2>1. b > a /\ Len(o.pages) = b - a
      BY <1>9, <1>10
    <2>2. PageSize * b > PageSize * a
      BY <1>8, <2>1, Sizes
    <2>3. Low(last) > at
      BY <1>7, <2>2
    <2>4. Low(last) - at <= len /\ len <= 3 * Canonical
      <3>1. CASE at < Canonical /\ from + len < Top
        <4>1. from = at /\ to = at + len
          BY <1>3, <1>4, <3>1
        <4>2. to < 2 * Canonical
          <5> SUFFICES ASSUME ~ (to < 2 * Canonical) PROVE FALSE
            OBVIOUS
          <5>1. to >= Top - Canonical
            BY <1>5
          <5>2. at + len - 1 \in Nat /\ at + len - 1 < Top
            BY <1>1, <1>4, <4>1, <5>1, Sizes
          <5>3. sum = at + len - 1
            BY <5>2, Sizes
          <5>4. at + len - 1 < Top \div 2
            BY <1>2, <5>3 DEF check_addr_userspace
          <5> QED BY <1>1, <4>1, <5>1, <5>4, Sizes
        <4> QED BY <1>1, <1>5, <4>1, <4>2, Sizes
      <3>2. CASE at < Canonical /\ ~ (from + len < Top)
        <4>1. to = at + len - Top
          BY <1>3, <1>4, <3>2
        <4> QED BY <1>1, <1>4, <1>5, <2>3, <3>2, <4>1, Sizes
      <3>3. CASE ~ (at < Canonical) /\ from + len < Top
        <4>1. from = at + (Top - 2 * Canonical) /\ to = from + len
          BY <1>3, <1>4, <3>3
        <4> QED BY <1>1, <1>3, <1>5, <3>3, <4>1, Sizes
      <3>4. CASE ~ (at < Canonical) /\ ~ (from + len < Top)
        <4>1. from = at + (Top - 2 * Canonical) /\ to = from + len - Top
          BY <1>3, <1>4, <3>4
        <4> QED BY <1>1, <1>3, <1>5, <2>3, <3>4, <4>1, Sizes
      <3> QED BY <3>1, <3>2, <3>3, <3>4
    <2>5. PageSize * (b - a) = PageSize * b - PageSize * a
      BY <1>8, Sizes
    <2> QED BY <1>7, <2>1, <2>4, <2>5
  <1> QED BY <1>9, <1>10 DEF o

-------------------------------------------------------------------------------
(* The pages of a program.                                                 *)

\* The sequence r begins with s.
Begins(s, r) == Len(s) <= Len(r) /\ \A k \in 1 .. Len(s) : r[k] = s[k]

LEMMA BeginsFacts ==
  ASSUME NEW P, NEW s \in Seq(P), NEW r \in Seq(P)
  PROVE  /\ s \o r \in Seq(P)
         /\ Len(s) \in Nat /\ Len(r) \in Nat /\ Len(s \o r) = Len(s) + Len(r)
         /\ Begins(s, s) /\ Begins(s, s \o r)
         /\ \A k \in 1 .. Len(r) : (s \o r)[Len(s) + k] = r[k]
  BY DEF Begins

LEMMA BeginsOn ==
  ASSUME NEW P, NEW s \in Seq(P), NEW r \in Seq(P), NEW q \in Seq(P), Begins(s, r), Begins(r, q)
  PROVE  Begins(s, q)
  BY DEF Begins

\* Sequences put one behind the other: fl[n] is the first n of them, and begins with
\* what was there before.
LEMMA Joined ==
  ASSUME NEW P, NEW N \in Nat, N # 0, NEW ss, NEW fl, \A i \in 1 .. N : ss[i] \in Seq(P),
         fl[1] = ss[1], \A i \in 1 .. N : i # 1 => fl[i] = fl[i - 1] \o ss[i]
  PROVE  /\ \A n \in 1 .. N : fl[n] \in Seq(P)
         /\ \A n \in 1 .. N : \A m \in 1 .. n : Begins(fl[m], fl[n])
  <1> DEFINE Good(n) == fl[n] \in Seq(P) /\ \A m \in 1 .. n : fl[m] \in Seq(P) /\ Begins(fl[m], fl[n])
             Bad == {n \in Nat : n \in 1 .. N /\ ~ Good(n)}
  <1> SUFFICES ASSUME Bad # {} PROVE FALSE
    <2>1. ASSUME NEW n \in 1 .. N, Good(n), NEW m \in 1 .. n PROVE Begins(fl[m], fl[n])
      BY <2>1
    <2>2. \A n \in 1 .. N : Good(n) => fl[n] \in Seq(P)
      OBVIOUS
    <2> HIDE DEF Good
    <2>3. ASSUME Bad = {} PROVE \A n \in 1 .. N : Good(n)
      BY <2>3
    <2> HIDE DEF Bad
    <2>4. ASSUME Bad = {}, NEW n \in 1 .. N, NEW m \in 1 .. n PROVE Begins(fl[m], fl[n])
      BY <2>1, <2>3, <2>4
    <2> QED BY <2>2, <2>3, <2>4
  <1> HIDE DEF Good
  <1>1. PICK n \in Bad : \A m \in Bad : n <= m
    <2>1. Bad \in SUBSET Nat
      OBVIOUS
    <2> HIDE DEF Bad
    <2> QED BY <2>1, LeastExists
  <1>2. n \in Nat /\ n \in 1 .. N /\ ~ Good(n)
    OBVIOUS
  <1>3. CASE n = 1
    <2>1. fl[1] \in Seq(P)
      BY <1>2, <1>3
    <2>2. Begins(fl[1], fl[1])
      BY <2>1, BeginsFacts
    <2>3. \A m \in 1 .. 1 : m = 1
      OBVIOUS
    <2>4. Good(1)
      BY <2>1, <2>2, <2>3 DEF Good
    <2> QED BY <1>2, <1>3, <2>4
  <1>4. CASE n # 1
    <2> DEFINE l == n - 1
    <2>0. l \in Nat /\ l \in 1 .. N /\ ~ (n <= l)
      BY <1>2, <1>4
    <2>1. l \notin Bad
      BY <1>1, <2>0
    <2>2. Good(l)
      BY <2>0, <2>1
    <2>3. \A m \in 1 .. n : m = n \/ m \in 1 .. l
      BY <1>2
    <2>4. fl[n] = fl[l] \o ss[n] /\ ss[n] \in Seq(P)
      BY <1>2, <1>4
    <2> HIDE DEF l, Bad
    <2>5. fl[l] \in Seq(P) /\ \A m \in 1 .. l : fl[m] \in Seq(P) /\ Begins(fl[m], fl[l])
      BY <2>2 DEF Good
    <2>6. fl[n] \in Seq(P) /\ Begins(fl[l], fl[n])
      BY <2>4, <2>5, BeginsFacts
    <2>7. Begins(fl[n], fl[n])
      BY <2>6, BeginsFacts
    <2>8. ASSUME NEW m \in 1 .. l PROVE Begins(fl[m], fl[n])
      BY <2>5, <2>6, BeginsOn
    <2>9. Good(n)
      BY <2>3, <2>5, <2>6, <2>7, <2>8 DEF Good
    <2> QED BY <1>2, <2>9
  <1> QED BY <1>3, <1>4

\* The function FlattenSeq chooses exists.
LEMMA JoinExists ==
  ASSUME NEW ss, NEW N \in Nat, N # 0
  PROVE  \E g : g = [i \in 1 .. N |-> IF i = 1 THEN ss[i] ELSE g[i - 1] \o ss[i]]
  <1> DEFINE Rec(g, n) == g = [i \in 1 .. n |-> IF i = 1 THEN ss[i] ELSE g[i - 1] \o ss[i]]
             Bad == {n \in Nat : n \in 1 .. N /\ ~ \E g : Rec(g, n)}
  <1> SUFFICES ASSUME Bad # {} PROVE FALSE
    <2>1. N \in 1 .. N
      OBVIOUS
    <2>2. \E g : Rec(g, N)
      <3> HIDE DEF Rec
      <3> QED BY <2>1
    <2> QED BY <2>2
  <1> HIDE DEF Rec
  <1>1. PICK n \in Bad : \A m \in Bad : n <= m
    <2>1. Bad \in SUBSET Nat
      OBVIOUS
    <2> HIDE DEF Bad
    <2> QED BY <2>1, LeastExists
  <1>2. n \in Nat /\ n \in 1 .. N /\ ~ \E g : Rec(g, n)
    OBVIOUS
  <1>3. CASE n = 1
    <2> DEFINE g == [i \in 1 .. 1 |-> ss[1]]
    <2>1. Rec(g, 1)
      BY DEF Rec
    <2> HIDE DEF g
    <2> QED BY <1>2, <1>3, <2>1
  <1>4. CASE n # 1
    <2> DEFINE l == n - 1
    <2>0. l \in Nat /\ l \in 1 .. N /\ ~ (n <= l) /\ \A i \in 1 .. l : i \in 1 .. n
      BY <1>2, <1>4
    <2>1. l \notin Bad
      BY <1>1, <2>0
    <2>2. PICK g : Rec(g, l)
      BY <2>0, <2>1
    <2> DEFINE h == [i \in 1 .. n |-> IF i = 1 THEN ss[i] ELSE g[i - 1] \o ss[i]]
    <2>3. \A i \in 1 .. n : i # 1 => i - 1 \in 1 .. l
      BY <1>2
    <2> HIDE DEF l
    <2>4. ASSUME NEW i \in 1 .. l PROVE h[i] = g[i]
      BY <2>0, <2>2 DEF Rec
    <2>5. Rec(h, n)
      <3>1. \A i \in 1 .. n : i # 1 => g[i - 1] = h[i - 1]
        <4> HIDE DEF h
        <4> QED BY <2>3, <2>4
      <3>2. \A i \in 1 .. n : (IF i = 1 THEN ss[i] ELSE g[i - 1] \o ss[i])
                              = (IF i = 1 THEN ss[i] ELSE h[i - 1] \o ss[i])
        <4> HIDE DEF h
        <4> QED BY <3>1
      <3>3. h = [i \in 1 .. n |-> IF i = 1 THEN ss[i] ELSE h[i - 1] \o ss[i]]
        BY <3>2, Zenon
      <3> QED BY <3>3 DEF Rec
    <2> HIDE DEF h
    <2> QED BY <1>2, <2>5
  <1> QED BY <1>3, <1>4

\* FlattenSeq puts the sequences one behind the other: the i-th one begins behind
\* place at[i], and where the ones before it end.
LEMMA Flattened ==
  ASSUME NEW P, NEW ss \in Seq(Seq(P))
  PROVE  /\ FlattenSeq(ss) \in Seq(P)
         /\ \E at \in [1 .. Len(ss) -> Nat] :
              /\ \A i \in 1 .. Len(ss) : /\ at[i] + Len(ss[i]) <= Len(FlattenSeq(ss))
                                         /\ \A k \in 1 .. Len(ss[i]) :
                                              FlattenSeq(ss)[at[i] + k] = ss[i][k]
              /\ \A i, j \in 1 .. Len(ss) : i < j => at[i] + Len(ss[i]) <= at[j]
  <1> DEFINE N == Len(ss)
             Rec(g) == g = [i \in 1 .. N |-> IF i = 1 THEN ss[i] ELSE g[i - 1] \o ss[i]]
             fl == CHOOSE g : Rec(g)
  <1>0. N \in Nat /\ \A i \in 1 .. N : ss[i] \in Seq(P) /\ Len(ss[i]) \in Nat
    OBVIOUS
  <1>1. CASE N = 0
    <2>1. FlattenSeq(ss) = ss
      BY <1>1 DEF FlattenSeq
    <2>2. ss = <<>> /\ <<>> \in Seq(P)
      BY <1>1
    <2>3. 1 .. N = {}
      BY <1>1
    <2>4. [i \in 1 .. N |-> 0] \in [1 .. N -> Nat]
      OBVIOUS
    <2>5. FlattenSeq(ss) \in Seq(P)
      BY <2>1, <2>2
    <2> DEFINE at == [i \in 1 .. N |-> 0]
    <2> HIDE DEF N, at
    <2> QED BY <2>3, <2>4, <2>5 DEF N, at
  <1>2. CASE N # 0
    <2>1. FlattenSeq(ss) = fl[N]
      BY <1>2, Zenon DEF FlattenSeq
    <2> HIDE DEF fl
    <2>2. \E g : Rec(g)
      BY <1>0, <1>2, JoinExists
    <2>3. Rec(fl)
      <3> HIDE DEF Rec
      <3> QED BY <2>2, Zenon DEF fl
    <2>4. fl[1] = ss[1] /\ \A i \in 1 .. N : i # 1 => fl[i] = fl[i - 1] \o ss[i]
      <3>0. 1 \in 1 .. N
        BY <1>0, <1>2
      <3>1. \A i \in 1 .. N : fl[i] = IF i = 1 THEN ss[i] ELSE fl[i - 1] \o ss[i]
        <4> HIDE DEF N
        <4> QED BY <2>3
      <3> HIDE DEF N, Rec
      <3> QED BY <3>0, <3>1
    <2> HIDE DEF Rec, N
    <2>5. \A n \in 1 .. N : fl[n] \in Seq(P) /\ \A m \in 1 .. n : Begins(fl[m], fl[n])
      BY <1>0, <1>2, <2>4, Joined
    <2> DEFINE at == [i \in 1 .. N |-> IF i = 1 THEN 0 ELSE Len(fl[i - 1])]
    <2>6. ASSUME NEW i \in 1 .. N
          PROVE  /\ at[i] \in Nat /\ Len(fl[i]) = at[i] + Len(ss[i])
                 /\ \A k \in 1 .. Len(ss[i]) : fl[i][at[i] + k] = ss[i][k]
      <3>1. CASE i = 1
        <4>1. at[i] = 0
          BY <3>1
        <4>2. fl[i] = ss[i] /\ Len(ss[i]) \in Nat
          BY <1>0, <2>4, <3>1
        <4> HIDE DEF at
        <4>3. \A k \in 1 .. Len(ss[i]) : 0 + k = k
          BY <4>2
        <4> QED BY <4>1, <4>2, <4>3
      <3>2. CASE i # 1
        <4>1. i - 1 \in 1 .. N
          BY <1>0, <3>2
        <4>2. fl[i] = fl[i - 1] \o ss[i] /\ ss[i] \in Seq(P) /\ fl[i - 1] \in Seq(P)
          BY <1>0, <2>4, <2>5, <3>2, <4>1
        <4>3. at[i] = Len(fl[i - 1])
          BY <3>2
        <4> HIDE DEF at
        <4> DEFINE u == fl[i - 1]
                   r == ss[i]
        <4>4. at[i] = Len(u) /\ fl[i] = u \o r /\ u \in Seq(P) /\ r \in Seq(P)
          BY <4>2, <4>3
        <4> HIDE DEF u, r
        <4>5. /\ Len(u) \in Nat /\ Len(u \o r) = Len(u) + Len(r)
              /\ \A k \in 1 .. Len(r) : (u \o r)[Len(u) + k] = r[k]
          BY <4>4, BeginsFacts
        <4>6. /\ at[i] \in Nat /\ Len(fl[i]) = at[i] + Len(r)
              /\ \A k \in 1 .. Len(r) : fl[i][at[i] + k] = r[k]
          BY <4>4, <4>5, Zenon
        <4> QED BY <4>6, Zenon DEF r
      <3> QED BY <3>1, <3>2
    <2>7. at \in [1 .. N -> Nat]
      <3>1. at = [i \in 1 .. N |-> at[i]]
        OBVIOUS
      <3> HIDE DEF at
      <3> QED BY <2>6, <3>1
    <2>8. \A i, j \in 1 .. N : i < j => j - 1 \in 1 .. N /\ i \in 1 .. j - 1 /\ at[j] = Len(fl[j - 1])
      BY <1>0
    <2> HIDE DEF at
    <2>9. ASSUME NEW i \in 1 .. N
          PROVE  /\ at[i] + Len(ss[i]) <= Len(fl[N])
                 /\ \A k \in 1 .. Len(ss[i]) : fl[N][at[i] + k] = ss[i][k]
      <3>1. Begins(fl[i], fl[N])
        BY <1>0, <1>2, <2>5
      <3>2. at[i] \in Nat /\ Len(ss[i]) \in Nat
        BY <1>0, <2>6
      <3>3. \A k \in 1 .. Len(ss[i]) : at[i] + k \in 1 .. Len(fl[i])
        BY <2>6, <3>2
      <3> QED BY <2>6, <3>1, <3>3 DEF Begins
    <2>10. ASSUME NEW i \in 1 .. N, NEW j \in 1 .. N, i < j PROVE at[i] + Len(ss[i]) <= at[j]
      <3>1. Begins(fl[i], fl[j - 1]) /\ at[j] = Len(fl[j - 1])
        BY <2>5, <2>8, <2>10
      <3>2. Len(fl[i]) = at[i] + Len(ss[i])
        BY <2>6
      <3> QED BY <3>1, <3>2 DEF Begins
    <2>11. fl[N] \in Seq(P)
      BY <1>0, <1>2, <2>5
    <2>12. /\ \A i \in 1 .. N : /\ at[i] + Len(ss[i]) <= Len(FlattenSeq(ss))
                                /\ \A k \in 1 .. Len(ss[i]) : FlattenSeq(ss)[at[i] + k] = ss[i][k]
           /\ \A i, j \in 1 .. N : i < j => at[i] + Len(ss[i]) <= at[j]
      BY <2>1, <2>9, <2>10
    <2>13. FlattenSeq(ss) \in Seq(P)
      BY <2>1, <2>11
    <2> QED BY <2>7, <2>12, <2>13 DEF N
  <1> QED BY <1>1, <1>2

\* The headers the loader accepts are the first ones of the file.
LEMMA AcceptedFacts ==
  ASSUME NEW f \in Programs
  PROVE  /\ Accepted(f) \in Seq(HeaderT)
         /\ \A i \in 1 .. Len(Accepted(f)) : /\ i \in 1 .. Len(f.headers)
                                             /\ Accepted(f)[i] = f.headers[i]
                                             /\ ~ Rejected(f, Accepted(f)[i])
  <1> DEFINE H == f.headers
             I == {i \in 1 .. Len(H) : Rejected(f, H[i])}
             b == Min(I)
             R == HeaderT
  <1>1. H \in Seq(R) /\ Len(H) \in Nat
    BY SpaceAssumption DEF FileT
  <1> HIDE DEF R
  <1>2. Accepted(f) = IF I = {} THEN H ELSE IF b = 0 THEN H ELSE SubSeq(H, 1, b - 1)
    BY DEF Accepted, SelectInSeq
  <1>3. CASE I = {}
    <2>1. Accepted(f) = H
      BY <1>2, <1>3
    <2>2. \A i \in 1 .. Len(H) : ~ Rejected(f, H[i])
      BY <1>3
    <2> HIDE DEF H, I, b
    <2> QED BY <1>1, <2>1, <2>2 DEF H, R
  <1>4. CASE I # {}
    <2>1. I \in SUBSET Nat
      BY <1>1
    <2>2. \E m \in I : \A n \in I : m <= n
      <3> HIDE DEF I
      <3> QED BY <1>4, <2>1, LeastExists
    <2>3. b \in I /\ \A n \in I : b <= n
      <3> HIDE DEF I
      <3> QED BY <2>2 DEF Min
    <2>4. b \in 1 .. Len(H)
      BY <2>3
    <2>5. ASSUME NEW i \in 1 .. b - 1 PROVE i \in 1 .. Len(H) /\ ~ Rejected(f, H[i])
      <3>1. i \in 1 .. Len(H) /\ ~ (b <= i)
        BY <1>1, <2>4
      <3> QED BY <2>3, <3>1
    <2> HIDE DEF I, b, H
    <2>6. Accepted(f) = SubSeq(H, 1, b - 1)
      BY <1>2, <1>4, <2>4
    <2>7. /\ SubSeq(H, 1, b - 1) \in Seq(R) /\ Len(SubSeq(H, 1, b - 1)) = b - 1
          /\ \A i \in 1 .. b - 1 : SubSeq(H, 1, b - 1)[i] = H[i]
      <3>1. b - 1 \in Nat /\ b - 1 <= Len(H) /\ 1 .. b - 1 \subseteq 1 .. Len(H)
        BY <1>1, <2>4
      <3>2. b - 1 = 0 \/ b - 1 \in 1 .. Len(H)
        BY <1>1, <2>4
      <3> QED BY <1>1, <2>4, <3>1, <3>2
    <2> QED BY <2>5, <2>6, <2>7 DEF H, R
  <1> QED BY <1>3, <1>4

\* An accepted segment starts at a user page; unless it wraps it ends there too, and
\* its pages are those its addresses are in.
LEMMA SegmentFacts ==
  ASSUME NEW f \in Programs, NEW i \in 1 .. Len(Accepted(f)), Mounted(Accepted(f)[i])
  PROVE  LET h == Accepted(f)[i]
         IN  /\ h \in HeaderT
             /\ h.vaddr \in Nat /\ h.vaddr < Canonical /\ from_page(h) = h.vaddr \div PageSize
             /\ from_page(h) \in Pages /\ to_page(h) \in AllPages
             /\ ~ wraps(h) => /\ h.vaddr + h.memsz < Canonical
                              /\ to_page(h) = (h.vaddr + h.memsz - 1) \div PageSize
                              /\ from_page(h) <= to_page(h)
                              /\ \A p \in from_page(h) .. to_page(h) : p \in Pages
  <1> DEFINE hd == Accepted(f)[i]
             v == hd.vaddr
             w == hd.memsz
             R == HeaderT
  <1>1. hd \in R /\ ~ Rejected(f, hd)
    <2>1. Accepted(f) \in Seq(R)
      BY AcceptedFacts
    <2> HIDE DEF R
    <2> QED BY <2>1, AcceptedFacts
  <1>2. hd \in HeaderT
    BY <1>1
  <1>3. v \in Nat /\ v < Top /\ w \in Nat /\ w < Top /\ w > 0
    <2>1. w > 0
      BY DEF Mounted
    <2> HIDE DEF hd
    <2>2. v \in 0 .. Top - 1 /\ w \in 0 .. Top - 1
      BY <1>2 DEF HeaderT
    <2> QED BY <2>1, <2>2, Sizes
  <1> DEFINE e == to_addr(hd)
  <1>4. \A x \in {v, e} : VirtAddr(x) /\ check_addr_userspace(extend(x))
    BY <1>1 DEF Rejected
  <1> HIDE DEF hd
  <1>5. /\ e \in Nat /\ e < Top
        /\ ~ wraps(hd) => e = v + w
    <2> DEFINE x == v + w
    <2>1. x \in Nat /\ x < 2 * Top /\ Top \in Nat \ {0}
      BY <1>3, Sizes
    <2>2. e = x % Top /\ (wraps(hd) <=> x >= Top)
      BY DEF to_addr, wraps
    <2> HIDE DEF x, e, v, w
    <2>3. e = IF x < Top THEN x ELSE x - Top
      BY <2>1, <2>2, Wraps
    <2>4. e \in Nat /\ e < Top
      BY <2>1, <2>3, Sizes
    <2>5. ~ wraps(hd) => e = x
      BY <2>1, <2>2, <2>3
    <2> QED BY <1>1, <1>3, <2>1, <2>4, <2>5, Sizes DEF x
  <1>6. v < Canonical /\ e < Canonical
    <2>1. ASSUME NEW x \in Nat, x < Top, VirtAddr(x), check_addr_userspace(extend(x)) PROVE x < Canonical
      BY <2>1, Sizes DEF VirtAddr, check_addr_userspace, extend
    <2> HIDE DEF v, e
    <2> QED BY <1>3, <1>4, <1>5, <2>1
  <1> HIDE DEF e
  <1>7. from_page(hd) = v \div PageSize
    BY <1>3, <1>6, PageFacts DEF from_page, Low
  <1>8. from_page(hd) \in Pages
    <2> HIDE DEF v
    <2> QED BY <1>3, <1>6, <1>7, UserPage
  <1> DEFINE l == (e - 1) % Top
  <1>9. l \in Nat /\ l < Top /\ (l < Canonical \/ l >= Top - Canonical) /\ (e > 0 => l = e - 1)
    <2>1. e < Top /\ Top \in Nat \ {0}
      BY <1>5, Sizes
    <2>2. l = IF e = 0 THEN Top - 1 ELSE e - 1
      BY <1>5, <2>1, Before
    <2> HIDE DEF l
    <2> QED BY <1>5, <1>6, <2>2, Sizes
  <1>10. to_page(hd) = page_of(l)
    BY DEF to_page, e
  <1> HIDE DEF l
  <1>11. to_page(hd) \in AllPages /\ (l < Canonical => to_page(hd) = l \div PageSize)
    BY <1>9, <1>10, PageFacts DEF Low
  <1>12. ASSUME ~ wraps(hd)
         PROVE  /\ v + w < Canonical
                /\ to_page(hd) = (v + w - 1) \div PageSize
                /\ from_page(hd) <= to_page(hd)
                /\ \A p \in from_page(hd) .. to_page(hd) : p \in Pages
    <2> DEFINE m == v + w - 1
    <2>1. e = v + w /\ e > 0
      <3>1. e = v + w
        BY <1>5, <1>12
      <3> HIDE DEF v, w
      <3> QED BY <1>3, <3>1
    <2> HIDE DEF v, w
    <2>2. m = l /\ m \in Nat /\ m < Canonical /\ v <= m
      <3>1. v \in Nat /\ w \in Nat /\ w > 0 /\ e = v + w /\ e < Canonical /\ l = e - 1
        BY <1>3, <1>6, <1>9, <2>1
      <3>2. Canonical \in Nat
        BY Sizes
      <3> QED BY <3>1, <3>2
    <2>3. to_page(hd) = m \div PageSize
      BY <1>11, <2>2
    <2>4. v + w < Canonical
      BY <1>6, <2>1
    <2> HIDE DEF m, v
    <2>5. m \div PageSize \in Pages /\ PageSize \in Nat \ {0}
      BY <2>2, UserPage, Sizes
    <2>6. v \div PageSize <= m \div PageSize
      BY <1>3, <2>2, <2>5, DividesLess
    <2> DEFINE a == from_page(hd)
               z == to_page(hd)
    <2>7. a <= z /\ a \in Pages /\ z \in Pages
      BY <1>7, <1>8, <2>3, <2>5, <2>6
    <2> HIDE DEF a, z
    <2>8. \A p \in a .. z : p \in Pages
      BY <2>7, Sizes DEF Pages
    <2> QED BY <2>3, <2>4, <2>7, <2>8 DEF a, z, m, v, w
  <1> QED BY <1>2, <1>3, <1>6, <1>7, <1>8, <1>11, <1>12 DEF hd

\* Every page of an accepted segment is among
\* the pages of the program, and a page that two segments reach is there twice.
LEMMA ElfPagesFacts ==
  ASSUME NEW f \in Programs
  PROVE  /\ ElfPages(f) \in Seq(AllPages)
         /\ \E at \in [1 .. Len(Accepted(f)) -> Nat] :
              /\ \A i \in 1 .. Len(Accepted(f)) :
                   LET s == PagesOf(Accepted(f)[i])
                   IN  /\ Len(s) \in Nat
                       /\ at[i] + Len(s) <= Len(ElfPages(f))
                       /\ \A k \in 1 .. Len(s) : ElfPages(f)[at[i] + k] = s[k]
              /\ \A i, j \in 1 .. Len(Accepted(f)) :
                   i < j => at[i] + Len(PagesOf(Accepted(f)[i])) <= at[j]
  <1> DEFINE N == Len(Accepted(f))
             ss == [i \in 1 .. N |-> PagesOf(Accepted(f)[i])]
  <1>1. N \in Nat
    <2> DEFINE R == HeaderT
    <2>1. Accepted(f) \in Seq(R)
      BY AcceptedFacts
    <2> HIDE DEF R
    <2> QED BY <2>1
  <1> HIDE DEF N
  <1>2. ASSUME NEW i \in 1 .. N PROVE PagesOf(Accepted(f)[i]) \in Seq(AllPages)
    <2> DEFINE hd == Accepted(f)[i]
    <2>1. CASE Mounted(hd)
      <3> DEFINE a == from_page(hd)
                 z == to_page(hd)
      <3>1. PagesOf(hd) = PageRange(a, z + 1)
        BY <2>1 DEF PagesOf
      <3>2. a \in Pages /\ z \in AllPages
        BY <2>1, SegmentFacts DEF N
      <3> HIDE DEF a, z, hd
      <3>3. a \in Nat /\ z + 1 \in Nat /\ (z + 1) - 1 \in AllPages
        BY <3>2, Sizes DEF Pages, AllPages
      <3>4. PagesOf(hd) \in Seq(AllPages)
        BY <3>1, <3>3, RangeFacts
      <3> QED BY <3>4 DEF hd
    <2>2. CASE ~ Mounted(hd)
      <3>1. PagesOf(hd) = <<>>
        BY <2>2 DEF PagesOf
      <3> HIDE DEF hd, AllPages
      <3>2. PagesOf(hd) \in Seq(AllPages)
        BY <3>1
      <3> QED BY <3>2 DEF hd
    <2> QED BY <2>1, <2>2
  <1> DEFINE S == Seq(AllPages)
  <1>3. ss \in Seq(S) /\ Len(ss) = N /\ \A i \in 1 .. N : ss[i] = PagesOf(Accepted(f)[i])
    <2>1. \A i \in 1 .. N : PagesOf(Accepted(f)[i]) \in S
      BY <1>2
    <2> HIDE DEF S
    <2> QED BY <1>1, <2>1
  <1>4. ElfPages(f) = FlattenSeq(ss)
    BY DEF ElfPages, N
  <1> HIDE DEF ss, AllPages
  <1>5. /\ FlattenSeq(ss) \in Seq(AllPages)
        /\ \E at \in [1 .. Len(ss) -> Nat] :
             /\ \A i \in 1 .. Len(ss) : /\ at[i] + Len(ss[i]) <= Len(FlattenSeq(ss))
                                        /\ \A k \in 1 .. Len(ss[i]) :
                                             FlattenSeq(ss)[at[i] + k] = ss[i][k]
             /\ \A i, j \in 1 .. Len(ss) : i < j => at[i] + Len(ss[i]) <= at[j]
    <2> HIDE DEF N
    <2> QED BY <1>3, Flattened
  <1>6. PICK at \in [1 .. N -> Nat] :
             /\ \A i \in 1 .. N : /\ at[i] + Len(ss[i]) <= Len(ElfPages(f))
                                  /\ \A k \in 1 .. Len(ss[i]) : ElfPages(f)[at[i] + k] = ss[i][k]
             /\ \A i, j \in 1 .. N : i < j => at[i] + Len(ss[i]) <= at[j]
    <2>1. PICK at \in [1 .. Len(ss) -> Nat] :
             /\ \A i \in 1 .. Len(ss) : /\ at[i] + Len(ss[i]) <= Len(FlattenSeq(ss))
                                        /\ \A k \in 1 .. Len(ss[i]) :
                                             FlattenSeq(ss)[at[i] + k] = ss[i][k]
             /\ \A i, j \in 1 .. Len(ss) : i < j => at[i] + Len(ss[i]) <= at[j]
      BY <1>5
    <2>2. Len(ss) = N
      BY <1>3
    <2>3. at \in [1 .. N -> Nat]
      BY <2>1, <2>2
    <2>4. /\ \A i \in 1 .. N : /\ at[i] + Len(ss[i]) <= Len(ElfPages(f))
                               /\ \A k \in 1 .. Len(ss[i]) : ElfPages(f)[at[i] + k] = ss[i][k]
          /\ \A i, j \in 1 .. N : i < j => at[i] + Len(ss[i]) <= at[j]
      BY <1>4, <2>1, <2>2
    <2> QED BY <2>3, <2>4
  <1>7. \A i \in 1 .. N : Len(ss[i]) \in Nat
    BY <1>3
  <1>8. ElfPages(f) \in Seq(AllPages)
    BY <1>4, <1>5
  <1>9. /\ \A i \in 1 .. N :
             LET s == PagesOf(Accepted(f)[i])
             IN  /\ Len(s) \in Nat
                 /\ at[i] + Len(s) <= Len(ElfPages(f))
                 /\ \A k \in 1 .. Len(s) : ElfPages(f)[at[i] + k] = s[k]
        /\ \A i, j \in 1 .. N : i < j => at[i] + Len(PagesOf(Accepted(f)[i])) <= at[j]
    <2>1. \A i \in 1 .. N : ss[i] = PagesOf(Accepted(f)[i])
      BY <1>3
    <2> HIDE DEF N
    <2> QED BY <1>6, <1>7, <2>1, Zenon
  <1> QED BY <1>6, <1>8, <1>9 DEF N

-------------------------------------------------------------------------------
(* Page tables.                                                            *)

\* The recursion that Span is defined by has a solution.
LEMMA SpanExists ==
  \E g : g = [l \in 0 .. Depth |-> IF l = 0 THEN 1 ELSE Fanout * g[l - 1]]
  <1> DEFINE Rec(g, n) == g = [l \in 0 .. n |-> IF l = 0 THEN 1 ELSE Fanout * g[l - 1]]
             Bad == {n \in Nat : ~ \E g : Rec(g, n)}
  <1> SUFFICES ASSUME Bad # {} PROVE FALSE
    <2>1. Depth \in Nat
      BY SpaceAssumption
    <2>2. \E g : Rec(g, Depth)
      <3> HIDE DEF Rec
      <3> QED BY <2>1
    <2> QED BY <2>2
  <1> HIDE DEF Rec
  <1>1. PICK n \in Bad : \A m \in Bad : n <= m
    <2>1. Bad \in SUBSET Nat
      OBVIOUS
    <2> HIDE DEF Bad
    <2> QED BY <2>1, LeastExists
  <1>2. n \in Nat /\ ~ \E g : Rec(g, n)
    OBVIOUS
  <1>3. CASE n = 0
    <2> DEFINE g == [l \in 0 .. 0 |-> 1]
    <2>1. Rec(g, 0)
      BY DEF Rec
    <2> HIDE DEF g
    <2> QED BY <1>2, <1>3, <2>1
  <1>4. CASE n # 0
    <2> DEFINE l == n - 1
    <2>0. l \in Nat /\ ~ (n <= l) /\ \A i \in 0 .. l : i \in 0 .. n
      BY <1>2, <1>4
    <2>1. l \notin Bad
      BY <1>1, <2>0
    <2>2. PICK g : Rec(g, l)
      BY <2>0, <2>1
    <2> DEFINE h == [i \in 0 .. n |-> IF i = 0 THEN 1 ELSE Fanout * g[i - 1]]
    <2>3. \A i \in 0 .. n : i # 0 => i - 1 \in 0 .. l
      BY <1>2
    <2> HIDE DEF l
    <2>4. ASSUME NEW i \in 0 .. l PROVE h[i] = g[i]
      BY <2>0, <2>2 DEF Rec
    <2>5. Rec(h, n)
      <3>1. \A i \in 0 .. n : i # 0 => g[i - 1] = h[i - 1]
        <4> HIDE DEF h
        <4> QED BY <2>3, <2>4
      <3>2. \A i \in 0 .. n : (IF i = 0 THEN 1 ELSE Fanout * g[i - 1])
                              = (IF i = 0 THEN 1 ELSE Fanout * h[i - 1])
        <4> HIDE DEF h
        <4> QED BY <3>1
      <3>3. h = [i \in 0 .. n |-> IF i = 0 THEN 1 ELSE Fanout * h[i - 1]]
        BY <3>2, Zenon
      <3> QED BY <3>3 DEF Rec
    <2> HIDE DEF h
    <2> QED BY <1>2, <2>5
  <1> QED BY <1>3, <1>4

LEMMA SpanPositive ==
  \A l \in 0 .. Depth : Span[l] \in Nat \ {0}
  <1> DEFINE Rec(g) == g = [l \in 0 .. Depth |-> IF l = 0 THEN 1 ELSE Fanout * g[l - 1]]
             s == CHOOSE g : Rec(g)
  <1>1. Span = s
    BY Zenon DEF Span
  <1>2. \E g : Rec(g)
    BY SpanExists
  <1>3. Rec(s)
    <2> HIDE DEF Rec
    <2> QED BY <1>2, Zenon
  <1>4. \A l \in 0 .. Depth : Span[l] = IF l = 0 THEN 1 ELSE Fanout * Span[l - 1]
    <2> HIDE DEF s
    <2> QED BY <1>1, <1>3
  <1> HIDE DEF Rec, s
  <1> DEFINE Bad == {l \in Nat : l \in 0 .. Depth /\ Span[l] \notin Nat \ {0}}
  <1> SUFFICES ASSUME Bad # {} PROVE FALSE
    BY SpaceAssumption
  <1>5. PICK l \in Bad : \A m \in Bad : l <= m
    <2>1. Bad \in SUBSET Nat
      OBVIOUS
    <2> HIDE DEF Bad
    <2> QED BY <2>1, LeastExists
  <1>6. l \in 0 .. Depth /\ l \in Nat /\ Span[l] \notin Nat \ {0} /\ Fanout \in Nat \ {0} /\ Depth \in Nat
    BY SpaceAssumption
  <1>7. CASE l = 0
    BY <1>4, <1>6, <1>7
  <1>8. CASE l # 0
    <2>1. l - 1 \in 0 .. Depth /\ l - 1 \in Nat /\ l - 1 \notin Bad
      BY <1>5, <1>6, <1>8
    <2> DEFINE x == Span[l - 1]
    <2>2. x \in Nat \ {0} /\ Span[l] = Fanout * x
      BY <1>4, <1>6, <1>8, <2>1
    <2> HIDE DEF x
    <2>3. Fanout * x \in Nat /\ Fanout * x # 0
      BY <1>6, <2>2
    <2> QED BY <1>6, <2>2, <2>3
  <1> QED BY <1>7, <1>8

\* One table on every level.
LEMMA TablesFacts ==
  ASSUME NEW p \in Pages
  PROVE  /\ TablesOf(p) \in SUBSET Table
         /\ IsFiniteSet(TablesOf(p))
         /\ Cardinality(TablesOf(p)) = Depth
         /\ \A x, y \in TablesOf(p) : x[1] = y[1] => x = y
  <1>0. Depth \in Nat /\ p \in Nat
    BY SpaceAssumption, Sizes DEF Pages
  <1>1. \A l \in 1 .. Depth : p \div Span[l] \in Nat
    <2> TAKE l \in 1 .. Depth
    <2> DEFINE s == Span[l]
    <2>1. s \in Nat \ {0}
      BY <1>0, SpanPositive
    <2> HIDE DEF s
    <2>2. p \div s \in Nat
      BY <1>0, <2>1
    <2> QED BY <2>2 DEF s
  <1> DEFINE F == [l \in 1 .. Depth |-> <<l, p \div Span[l]>>]
  <1>2. TablesOf(p) = {F[l] : l \in 1 .. Depth}
    BY DEF TablesOf
  <1>3. \A l \in 1 .. Depth : F[l] \in Table /\ F[l][1] = l
    BY <1>1 DEF Table
  <1> HIDE DEF F
  <1>4. TablesOf(p) \in SUBSET Table /\ \A x, y \in TablesOf(p) : x[1] = y[1] => x = y
    BY <1>2, <1>3
  <1>5. F \in Bijection(1 .. Depth, TablesOf(p))
    <2>1. F = [l \in 1 .. Depth |-> F[l]]
      BY DEF F
    <2>2. F \in [1 .. Depth -> TablesOf(p)]
      BY <1>2, <2>1
    <2>3. \A k, l \in 1 .. Depth : F[k] = F[l] => k = l
      BY <1>3
    <2>4. \A x \in TablesOf(p) : \E l \in 1 .. Depth : F[l] = x
      BY <1>2
    <2> QED BY <2>2, <2>3, <2>4 DEF Bijection, Injection, Surjection, IsInjective
  <1>6. ExistsBijection(1 .. Depth, TablesOf(p))
    BY <1>5 DEF ExistsBijection
  <1>7. IsFiniteSet(1 .. Depth) /\ Cardinality(1 .. Depth) = Depth
    BY <1>0, FS_Interval
  <1>8. IsFiniteSet(TablesOf(p)) /\ Cardinality(TablesOf(p)) = Cardinality(1 .. Depth)
    BY <1>6, <1>7, FS_Bijection
  <1> QED BY <1>4, <1>7, <1>8

-------------------------------------------------------------------------------
(* The step of the mapping loop, in parts.                                 *)

\* The frame taken for the page, if any; the tables missing on the way to it, the ones
\* of them that are made, and the frames these get.
OwnFrame  == IF job.kind = "phys" THEN {} ELSE Lowest(free, 1)
Miss == TablesOf(Head(job.pages)) \ tables[job.task]
Made == {x \in Miss : Cardinality({y \in Miss : y[1] > x[1]}) < Cardinality(free \ OwnFrame)}
New  == Lowest(free \ OwnFrame, Cardinality(Miss))

TakesFrames ==
  /\ tables' = [tables EXCEPT ![job.task] = @ \cup Made]
  /\ tframes' = [tframes EXCEPT ![job.task] = @ \cup New]
  /\ free' = (free \ OwnFrame) \ New

\* The page is mapped to frame x and the loop goes on, or ends with the last page.
MapsPage(x) ==
  /\ Head(job.pages) \notin DOMAIN leaf[job.task]
  /\ ~ (Cardinality(free \ OwnFrame) < Cardinality(Miss))
  /\ leaf' = [leaf EXCEPT ![job.task] =
       [q \in DOMAIN @ \cup {Head(job.pages)} |-> IF q # Head(job.pages) THEN @[q] ELSE x]]
  /\ ram' = IF job.kind = "phys" THEN ram ELSE [ram EXCEPT ![job.task] = @ \cup {Head(job.pages)}]
  /\ image' = IF job.kind # "elf" THEN image
              ELSE [image EXCEPT ![job.task] =
                [q \in DOMAIN @ \cup {Head(job.pages)} |->
                   IF q # Head(job.pages) THEN @[q] ELSE copied(HeaderOf(job.program, Head(job.pages)))]]
  /\ \/ Len(job.pages) = 1 /\ Finish("Ok")
     \/ /\ Len(job.pages) # 1
        /\ job' = [job EXCEPT !.pages = Tail(@), !.frame = @ + 1]
        /\ UNCHANGED <<entry, halted>>

\* The frames the step takes are free, and it makes as many tables as it takes frames
\* for: all that are missing, if there are frames enough.
LEMMA TakenFacts ==
  ASSUME Shape, JobAt, job # Idle, Head(job.pages) \in Pages, IsFiniteSet(tables[job.task])
  PROVE  /\ OwnFrame \in SUBSET free /\ New \in SUBSET free /\ OwnFrame \cap New = {}
         /\ free \in SUBSET Frames /\ IsFiniteSet(New) /\ IsFiniteSet(Made)
         /\ job.kind # "phys" => OwnFrame = {} \/ \E x \in free : OwnFrame = {x}
         /\ Made \in SUBSET TablesOf(Head(job.pages)) /\ Made \cap tables[job.task] = {}
         /\ Cardinality(Made) = Cardinality(New)
         /\ ~ (Cardinality(free \ OwnFrame) < Cardinality(Miss)) => Made = Miss
  <1>1. free \in SUBSET Frames /\ job.task \in Tasks
    BY DEF Shape, JobAt
  <1>3. /\ IsFiniteSet(TablesOf(Head(job.pages)))
        /\ TablesOf(Head(job.pages)) \in SUBSET Table
        /\ \A x, y \in TablesOf(Head(job.pages)) : x[1] = y[1] => x = y
    BY TablesFacts
  <1>4. Miss \in SUBSET TablesOf(Head(job.pages)) /\ Miss \cap tables[job.task] = {}
    BY DEF Miss
  <1>5. IsFiniteSet(Miss) /\ Cardinality(Miss) \in Nat
    BY <1>3, <1>4, FS_Subset, FS_CardinalityType
  <1>6. OwnFrame \in SUBSET free /\ (job.kind # "phys" => OwnFrame = {} \/ \E x \in free : OwnFrame = {x})
    <2>1. Lowest(free, 1) \in SUBSET free
      BY <1>1, LowestFacts
    <2>2. free = {} => Lowest(free, 1) = {}
      BY <2>1
    <2>3. free # {} => \E x \in free : Lowest(free, 1) = {x}
      BY <1>1, LowestOne
    <2> QED BY <2>1, <2>2, <2>3 DEF OwnFrame
  <1> DEFINE rest == free \ OwnFrame
             n == Cardinality(Miss)
  <1>7. rest \in SUBSET Frames /\ n \in Nat
    BY <1>1, <1>5
  <1>8. New = Lowest(rest, n)
    BY DEF New
  <1>9. /\ New \in SUBSET rest /\ IsFiniteSet(rest) /\ IsFiniteSet(New) /\ Cardinality(rest) \in Nat
        /\ n <= Cardinality(rest) => Cardinality(New) = n
        /\ Cardinality(rest) <= n => New = rest
    <2> HIDE DEF rest, n
    <2> QED BY <1>7, <1>8, LowestFacts
  <1> DEFINE k == [x \in Miss |-> Depth - x[1]]
  <1>10. k \in [Miss -> Nat] /\ \A x, y \in Miss : k[x] = k[y] => x = y
    <2>1. \A x \in Miss : x[1] \in 1 .. Depth
      BY <1>3, <1>4 DEF Table
    <2>2. Depth \in Nat
      BY SpaceAssumption
    <2>3. \A x, y \in Miss : x[1] = y[1] => x = y
      BY <1>3, <1>4
    <2> QED BY <2>1, <2>2, <2>3
  <1>11. Made = Few(Miss, k, Cardinality(rest))
    <2>1. \A x \in Miss : {y \in Miss : y[1] > x[1]} = {y \in Miss : k[y] < k[x]}
      <3>1. \A x \in Miss : x[1] \in 1 .. Depth
        BY <1>3, <1>4 DEF Table
      <3>2. Depth \in Nat
        BY SpaceAssumption
      <3>3. \A x, y \in Miss : y[1] > x[1] <=> k[y] < k[x]
        BY <3>1, <3>2
      <3> QED BY <3>3
    <2> HIDE DEF k
    <2> QED BY <2>1 DEF Made, Few
  <1> HIDE DEF k, rest, n
  <1>12. /\ Cardinality(rest) <= Cardinality(Miss) => Cardinality(Made) = Cardinality(rest)
         /\ Cardinality(Miss) <= Cardinality(rest) => Made = Miss
    BY <1>5, <1>9, <1>10, <1>11, FewCount
  <1>13. Cardinality(Made) = Cardinality(New)
    BY <1>7, <1>9, <1>12 DEF n
  <1>14. Made \in SUBSET Miss /\ IsFiniteSet(Made)
    BY <1>5, FS_Subset DEF Made
  <1>15. ~ (Cardinality(rest) < Cardinality(Miss)) => Made = Miss
    BY <1>5, <1>9, <1>12
  <1> QED BY <1>1, <1>4, <1>6, <1>9, <1>13, <1>14, <1>15 DEF rest

\* What the step does: it finds no frame for the page; it fails after it took frames;
\* or it maps the page, to the given frame or to the one it took.
LEMMA PageCases ==
  ASSUME Shape, JobAt, map_page
  PROVE  /\ job # Idle /\ Head(job.pages) \in Pages
         /\ UNCHANGED <<alive, root, ustack, mixed>>
         /\ \/ /\ UNCHANGED <<tables, tframes, leaf, ram, free, image>>
               /\ job.kind # "phys" /\ Finish("NoMemory")
            \/ /\ TakesFrames /\ UNCHANGED <<leaf, ram, image>>
               /\ \E c \in {"NoMemory", "MemoryAlreadyMapped"} : Finish(c)
            \/ /\ TakesFrames
               /\ job.kind = "phys" /\ OwnFrame = {} /\ MapsPage(job.frame)
            \/ /\ TakesFrames
               /\ job.kind # "phys" /\ \E x \in free : OwnFrame = {x} /\ MapsPage(x)
  <1>1. job # Idle /\ Head(job.pages) \in Pages /\ UNCHANGED <<alive, root, ustack, mixed>>
    BY DEF map_page, stack
  <1>2. CASE job.kind # "phys" /\ OwnFrame = {}
    BY <1>1, <1>2 DEF map_page, OwnFrame
  <1>3. CASE ~ (job.kind # "phys" /\ OwnFrame = {})
    <2>1. TakesFrames
      BY <1>3 DEF map_page, TakesFrames, OwnFrame, Miss, Made, New, table_frames
    <2> DEFINE fails == Cardinality(free \ OwnFrame) < Cardinality(Miss)
                        \/ Head(job.pages) \in DOMAIN leaf[job.task]
    <2>2. CASE fails
      <3>1. UNCHANGED <<leaf, ram, image>>
        BY <1>3, <2>2 DEF map_page, OwnFrame, Miss
      <3>2. \E c \in {"NoMemory", "MemoryAlreadyMapped"} : Finish(c)
        <4>1. Finish(IF Cardinality(free \ OwnFrame) < Cardinality(Miss) THEN "NoMemory" ELSE "MemoryAlreadyMapped")
          BY <1>3, <2>2 DEF map_page, OwnFrame, Miss
        <4> HIDE DEF fails
        <4> QED BY <4>1
      <3> QED BY <1>1, <2>1, <3>1, <3>2
    <2>3. CASE ~ fails
      <3> DEFINE x == IF job.kind = "phys" THEN job.frame ELSE CHOOSE f \in OwnFrame : TRUE
      <3>1. MapsPage(x)
        BY <1>3, <2>3 DEF map_page, MapsPage, OwnFrame, Miss
      <3>2. CASE job.kind = "phys"
        BY <1>1, <2>1, <3>1, <3>2 DEF OwnFrame
      <3>3. CASE job.kind # "phys"
        <4>1. PICK y \in free : OwnFrame = {y}
          <5>1. free = {} => OwnFrame = {}
            BY DEF OwnFrame, Lowest
          <5>2. free \in SUBSET Frames
            BY DEF Shape
          <5> QED BY <1>3, <3>3, <5>1, <5>2, LowestOne DEF OwnFrame
        <4>2. x = y
          BY <3>3, <4>1
        <4> QED BY <1>1, <2>1, <3>1, <3>3, <4>1, <4>2
      <3> QED BY <3>2, <3>3
    <2> QED BY <2>2, <2>3
  <1> QED BY <1>2, <1>3

-------------------------------------------------------------------------------
(* Frames have one use.                                                    *)

ApartIn(t) ==
  /\ tframes[t] \cap (RamFrames(t) \cup Stack(t)) = {}
  /\ \A p, q \in ram[t] \cup ustack[t] : leaf[t][p] = leaf[t][q] => p = q

LEMMA ExclusiveIs ==
  FramesExclusive <=>
    /\ free \cap mixed = {}
    /\ \A t \in Tasks : /\ Own(t) \cap (free \cup mixed) = {} /\ ApartIn(t)
                        /\ \A u \in Tasks : t # u => Own(t) \cap Own(u) = {}
  BY DEF FramesExclusive, ApartIn

\* A task whose mappings stay keeps its frames, as long as its stack fills the frames
\* it filled.
LEMMA SameFrames ==
  ASSUME NEW t, tframes'[t] = tframes[t], leaf'[t] = leaf[t], ram'[t] = ram[t],
         ustack'[t] = ustack[t], mixed' \cap Stack(t) = mixed \cap Stack(t)
  PROVE  /\ RamFrames(t)' = RamFrames(t) /\ Stack(t)' = Stack(t)
         /\ Own(t)' = Own(t) /\ (ApartIn(t) => ApartIn(t)')
  <1>1. RamFrames(t)' = RamFrames(t)
    BY DEF RamFrames
  <1>2. Stack(t)' = Stack(t)
    BY DEF Stack
  <1>3. (Stack(t) \ mixed)' = Stack(t) \ mixed
    BY <1>2
  <1>4. Own(t)' = Own(t)
    BY <1>1, <1>3 DEF Own
  <1>5. ASSUME ApartIn(t) PROVE ApartIn(t)'
    BY <1>1, <1>2, <1>5 DEF ApartIn
  <1> QED BY <1>1, <1>2, <1>4, <1>5

\* A stack has no frame that is free.
LEMMA StackFrames ==
  ASSUME FramesExclusive, NEW t \in Tasks
  PROVE  Stack(t) \cap free = {}
  BY ExclusiveIs DEF Own

\* A step that changes what is the task's in T only (there is one, or none), by taking
\* frames that were free and giving back frames that were the task's.
LEMMA ExclusiveKept ==
  ASSUME FramesExclusive, NEW T \in SUBSET Tasks, \A t, u \in T : t = u, NEW A \in SUBSET free,
         \A u \in Tasks \ T : Own(u)' = Own(u) /\ (ApartIn(u) => ApartIn(u)'),
         \A t \in T : /\ Own(t)' \subseteq Own(t) \cup A /\ ApartIn(t)'
                      /\ Own(t)' \cap (free' \cup mixed') = {},
         free' \cap mixed' = {},
         free' \cup mixed' \subseteq free \cup mixed \cup UNION {Own(t) : t \in T}
  PROVE  FramesExclusive'
  <1>1. \A u \in Tasks : /\ Own(u) \cap (free \cup mixed) = {} /\ ApartIn(u)
                         /\ \A w \in Tasks : u # w => Own(u) \cap Own(w) = {}
    BY ExclusiveIs
  <1>2. ASSUME NEW u \in Tasks PROVE Own(u)' \cap (free' \cup mixed') = {} /\ ApartIn(u)'
    <2>1. CASE u \in T
      BY <2>1
    <2>2. CASE u \notin T
      <3>1. Own(u)' = Own(u) /\ ApartIn(u)'
        BY <1>1, <2>2
      <3>2. \A t \in T : Own(u) \cap Own(t) = {}
        BY <1>1, <2>2
      <3>3. Own(u) \cap (free' \cup mixed') = {}
        BY <1>1, <3>2
      <3> QED BY <3>1, <3>3
    <2> QED BY <2>1, <2>2
  <1>3. ASSUME NEW u \in Tasks, NEW w \in Tasks, u # w PROVE Own(u)' \cap Own(w)' = {}
    <2>0. Own(u) \cap Own(w) = {} /\ Own(u) \cap free = {} /\ Own(w) \cap free = {}
      BY <1>1, <1>3
    <2>1. CASE u \in T
      <3>1. w \notin T
        BY <1>3, <2>1
      <3>2. Own(w)' = Own(w) /\ Own(u)' \subseteq Own(u) \cup A
        BY <2>1, <3>1
      <3> QED BY <2>0, <3>2
    <2>2. CASE u \notin T /\ w \in T
      <3>1. Own(u)' = Own(u) /\ Own(w)' \subseteq Own(w) \cup A
        BY <2>2
      <3> QED BY <2>0, <3>1
    <2>3. CASE u \notin T /\ w \notin T
      <3>1. Own(u)' = Own(u) /\ Own(w)' = Own(w)
        BY <2>3
      <3> QED BY <2>0, <3>1
    <2> QED BY <2>1, <2>2, <2>3
  <1>4. FramesExclusive' <=>
          /\ free' \cap mixed' = {}
          /\ \A u \in Tasks : /\ Own(u)' \cap (free' \cup mixed') = {} /\ ApartIn(u)'
                              /\ \A w \in Tasks : u # w => Own(u)' \cap Own(w)' = {}
    BY DEF FramesExclusive, ApartIn
  <1> QED BY <1>2, <1>3, <1>4

\* The mappings of the task, and of the others, after a page was mapped.
LEMMA MapFacts ==
  ASSUME Shape, JobAt, job # Idle, NEW x, MapsPage(x)
  PROVE  LET t == job.task
             p == Head(job.pages)
         IN  /\ t \in Tasks /\ p \notin DOMAIN leaf[t]
             /\ leaf' = [u \in Tasks |-> leaf'[u]]
             /\ DOMAIN leaf'[t] = DOMAIN leaf[t] \cup {p}
             /\ leaf'[t][p] = x
             /\ \A q \in DOMAIN leaf[t] : leaf'[t][q] = leaf[t][q]
             /\ \A u \in Tasks : u # t => leaf'[u] = leaf[u] /\ ram'[u] = ram[u]
             /\ ram'[t] = IF job.kind = "phys" THEN ram[t] ELSE ram[t] \cup {p}
  <1>1. job.task \in Tasks /\ leaf = [u \in Tasks |-> leaf[u]] /\ ram \in [Tasks -> SUBSET Pages]
    BY DEF Shape, JobAt
  <1> DEFINE t == job.task
             p == Head(job.pages)
             L == leaf[t]
             M == [q \in DOMAIN L \cup {p} |-> IF q # p THEN L[q] ELSE x]
  <1>2. leaf' = [leaf EXCEPT ![t] = M] /\ p \notin DOMAIN L
    BY DEF MapsPage
  <1>3. ram' = IF job.kind = "phys" THEN ram ELSE [ram EXCEPT ![t] = @ \cup {p}]
    BY DEF MapsPage
  <1>4. DOMAIN M = DOMAIN L \cup {p} /\ M[p] = x /\ \A q \in DOMAIN L : q # p => M[q] = L[q]
    OBVIOUS
  <1>5. t \in Tasks
    BY <1>1
  <1> HIDE DEF M, p, t
  <1>6. leaf'[t] = M /\ (\A u \in Tasks : u # t => leaf'[u] = leaf[u]) /\ leaf' = [u \in Tasks |-> leaf'[u]]
    BY <1>1, <1>2, <1>5
  <1>7. ram'[t] = (IF job.kind = "phys" THEN ram[t] ELSE ram[t] \cup {p})
        /\ \A u \in Tasks : u # t => ram'[u] = ram[u]
    <2>1. CASE job.kind = "phys"
      BY <1>1, <1>3, <1>5, <2>1
    <2>2. CASE job.kind # "phys"
      BY <1>1, <1>3, <1>5, <2>2
    <2> QED BY <2>1, <2>2
  <1>8. \A q \in DOMAIN L : q # p
    BY <1>2
  <1>9. /\ DOMAIN leaf'[t] = DOMAIN leaf[t] \cup {p} /\ leaf'[t][p] = x
        /\ \A q \in DOMAIN leaf[t] : leaf'[t][q] = leaf[t][q]
    BY <1>4, <1>6, <1>8
  <1> QED BY <1>2, <1>5, <1>6, <1>7, <1>9 DEF t, p

-------------------------------------------------------------------------------
(* The steps keep the invariant.                                           *)

\* The mapping loop sets the program of its own task only.
LEMMA EntryFacts ==
  ASSUME Shape, JobAt, job # Idle, (\E c : Finish(c)) \/ UNCHANGED entry
  PROVE  /\ entry' \in [Tasks -> Programs \cup {NoProgram}]
         /\ \A u \in Tasks : u # job.task => entry'[u] = entry[u]
  <1>1. entry \in [Tasks -> Programs \cup {NoProgram}] /\ job.task \in Tasks
    BY DEF Shape, JobAt
  <1>2. entry' = entry \/ (job.kind = "elf" /\ entry' = [entry EXCEPT ![job.task] = job.program])
    BY DEF Finish, Loaded
  <1>3. CASE entry' = entry
    BY <1>1, <1>3
  <1>4. CASE job.kind = "elf" /\ entry' = [entry EXCEPT ![job.task] = job.program]
    <2>1. job.program \in Programs
      BY <1>4 DEF JobAt
    <2> QED BY <1>1, <1>4, <2>1
  <1> QED BY <1>2, <1>3, <1>4

\* A step that leaves the address spaces alone.
LEMMA SpacesKept ==
  ASSUME IInv, UNCHANGED <<alive, tables, tframes, leaf, ram, free, image, root, ustack, mixed>>,
         entry' \in [Tasks -> Programs \cup {NoProgram}],
         \A t \in Tasks : t \notin alive => entry'[t] = NoProgram,
         JobAt'
  PROVE  IInv'
  <1>1. Shape'
    BY DEF IInv, Shape
  <1>2. \A t \in Tasks : SpaceAt(t)'
    BY DEF IInv, SpaceAt
  <1>3. FramesExclusive'
    <2>1. FramesExclusive
      BY DEF IInv
    <2>2. \A t \in Tasks : Own(t)' = Own(t) /\ (ApartIn(t) => ApartIn(t)')
      BY SameFrames
    <2> DEFINE T == {}
               A == {}
    <2>3. /\ T \in SUBSET Tasks /\ A \in SUBSET free /\ free' \cap mixed' = {}
          /\ free' \cup mixed' \subseteq free \cup mixed \cup UNION {Own(t) : t \in T}
          /\ \A t \in T : FALSE
      BY <2>1, ExclusiveIs
    <2> HIDE DEF T, A
    <2> QED BY <2>1, <2>2, <2>3, ExclusiveKept
  <1>4. TablesComplete'
    <2>1. TablesComplete
      BY DEF IInv
    <2> QED BY <2>1 DEF TablesComplete
  <1>5. PhysAuthorised'
    <2>1. PhysAuthorised
      BY DEF IInv
    <2> QED BY <2>1 DEF PhysAuthorised
  <1> QED BY <1>1, <1>2, <1>3, <1>4, <1>5 DEF IInv

LEMMA IdleJob ==
  ASSUME job' = Idle
  PROVE  JobAt'
  BY DEF JobAt

LEMMA Unchanged ==
  ASSUME IInv, UNCHANGED <<alive, tables, tframes, leaf, ram, free, image, entry, job, root, ustack, mixed>>
  PROVE  IInv'
  <1>1. JobAt'
    BY DEF IInv, JobAt, Allowed
  <1>2. entry' \in [Tasks -> Programs \cup {NoProgram}] /\ \A t \in Tasks : t \notin alive => entry'[t] = NoProgram
    BY DEF IInv, Shape, SpaceAt
  <1> QED BY <1>1, <1>2, SpacesKept

LEMMA Returns ==
  ASSUME IInv, NEW code, Return(code)
  PROVE  IInv'
  BY Unchanged DEF Return, stack

\* The loop starts with pages of the machine and frames the task may map.
LEMMA Starts ==
  ASSUME IInv, NEW t \in alive, NEW kind \in {"virt", "phys"}, NEW pages \in Seq(AllPages),
         NEW frame \in Nat, Start(t, kind, pages, frame),
         kind = "phys" => \A i \in 1 .. Len(pages) : Allowed(t, frame + i - 1)
  PROVE  IInv'
  <1>1. CASE pages = <<>>
    BY <1>1, Returns DEF Start
  <1>2. CASE pages # <<>>
    <2> DEFINE P == Seq(AllPages)
    <2>0. pages \in P
      OBVIOUS
    <2> HIDE DEF P
    <2>1. /\ job' = [Idle EXCEPT !.task = t, !.kind = kind, !.pages = pages, !.frame = frame]
          /\ UNCHANGED <<alive, tables, tframes, leaf, ram, free, image, entry, halted, root, ustack, mixed>>
      BY <1>2 DEF Start, stack
    <2>2. job'.task = t /\ job'.kind = kind /\ job'.pages = pages /\ job'.frame = frame
      BY <2>1 DEF Idle
    <2>3. JobAt'
      <3>1. t \in alive'
        BY <2>1
      <3>2. job'.kind = "phys" => \A i \in 1 .. Len(job'.pages) : Allowed(job'.task, job'.frame + i - 1)
        BY <2>2
      <3>3. job'.pages \in Seq(AllPages)
        BY <2>0, <2>2 DEF P
      <3> QED BY <1>2, <2>2, <3>1, <3>2, <3>3 DEF JobAt
    <2>4. entry' \in [Tasks -> Programs \cup {NoProgram}] /\ \A u \in Tasks : u \notin alive => entry'[u] = NoProgram
      BY <2>1 DEF IInv, Shape, SpaceAt
    <2> QED BY <2>1, <2>3, <2>4, SpacesKept
  <1> QED BY <1>1, <1>2

\* Where a stack lies: on frames of its own, but for the ends that are mixed.
LEMMA PlaceFacts ==
  ASSUME NEW room, NEW s \in Places, Fits(s, room)
  PROVE  LET S == {s[p] : p \in DOMAIN s}
         IN  /\ DOMAIN s \in SUBSET Pages /\ IsFiniteSet(DOMAIN s)
             /\ S \in SUBSET Frames /\ S \subseteq room \cup mixed
             /\ Ends(s) \subseteq S /\ S \ Ends(s) \subseteq room
             /\ \A p, q \in DOMAIN s : s[p] = s[q] => p = q
  <1> DEFINE last == StackPage + StackPages
             S == {s[p] : p \in DOMAIN s}
             c == Canonical \div PageSize
  <1>1. StackPage \in Nat /\ StackPages \in Nat /\ StackPages > 0 /\ last < c
    BY SpaceAssumption
  <1>2. c \in Nat
    BY Sizes, Divides
  <1>3. /\ \/ DOMAIN s = StackPage .. last - 1
           \/ DOMAIN s = StackPage .. last
        /\ \A p \in DOMAIN s : s[p] \in Frames
        /\ \A p, q \in DOMAIN s : p < q => s[p] < s[q]
    <2> DEFINE In(f) == \A p \in DOMAIN f : \A q \in DOMAIN f : p < q =>
                 f[p] < f[q] /\ (q = p + 1 => \A g \in Frames : ~ (f[p] < g /\ g < f[q]))
    <2>0. StackPage + StackPages - 1 = last - 1
      BY <1>1
    <2>1. Places = {f \in [StackPage .. last - 1 -> Frames] \cup [StackPage .. last -> Frames] : In(f)}
      BY <2>0, Zenon DEF Places
    <2> HIDE DEF last
    <2>2. In(s)
      <3> HIDE DEF In
      <3> QED BY <2>1, Zenon
    <2>3. s \in [StackPage .. last - 1 -> Frames] \/ s \in [StackPage .. last -> Frames]
      <3> HIDE DEF In
      <3> QED BY <2>1, Zenon
    <2>4. \A p, q \in DOMAIN s : p < q => s[p] < s[q]
      BY <2>2, Zenon
    <2> HIDE DEF In
    <2>5. /\ DOMAIN s = StackPage .. last - 1 \/ DOMAIN s = StackPage .. last
          /\ \A p \in DOMAIN s : s[p] \in Frames
      BY <2>3, Zenon
    <2> QED BY <2>4, <2>5, Zenon
  <1> HIDE DEF c
  <1>4. StackPage .. last \subseteq 0 .. c - 1 /\ IsFiniteSet(StackPage .. last) /\ StackPage .. last - 1 \subseteq StackPage .. last
    <2>1. IsFiniteSet(StackPage .. last)
      BY <1>1, FS_Interval
    <2> QED BY <1>1, <1>2, <2>1
  <1>5. DOMAIN s \in SUBSET Pages /\ IsFiniteSet(DOMAIN s) /\ StackPage \in DOMAIN s /\ DOMAIN s \in SUBSET Nat
    <2>1. DOMAIN s \subseteq StackPage .. last
      BY <1>3, <1>4
    <2>2. StackPage \in DOMAIN s
      BY <1>1, <1>3
    <2>3. IsFiniteSet(DOMAIN s)
      BY <1>4, <2>1, FS_Subset
    <2>4. DOMAIN s \in SUBSET Pages /\ DOMAIN s \in SUBSET Nat
      BY <1>2, <1>4, <2>1 DEF Pages, c
    <2> QED BY <2>2, <2>3, <2>4
  <1>6. ASSUME NEW p \in DOMAIN s, NEW q \in DOMAIN s, s[p] = s[q] PROVE p = q
    <2>1. p \in Nat /\ q \in Nat /\ s[p] \in Nat /\ s[q] \in Nat
      BY <1>3, <1>5, SpaceAssumption
    <2>2. ~ (p < q) /\ ~ (q < p)
      BY <1>3, <1>6, <2>1
    <2> QED BY <2>1, <2>2
  <1>7. Ends(s) \subseteq S
    BY <1>5 DEF Ends
  <1>8. \A p \in DOMAIN s : s[p] \in room \/ (s[p] \in mixed /\ s[p] \in Ends(s))
    BY DEF Fits
  <1> QED BY <1>3, <1>5, <1>6, <1>7, <1>8

\* The address space made for t: its stack in s, its tables, the frames of the root
\* and of the tables.
Created(t, s, made, top, got) ==
  /\ alive' = alive \cup {t}
  /\ tables' = [tables EXCEPT ![t] = made]
  /\ tframes' = [tframes EXCEPT ![t] = top \cup got]
  /\ root' = [root EXCEPT ![t] = top]
  /\ leaf' = [leaf EXCEPT ![t] = s]
  /\ ustack' = [ustack EXCEPT ![t] = DOMAIN s]
  /\ free' = ((free \ top) \ {s[p] : p \in DOMAIN s}) \ got
  /\ mixed' = mixed \cup Ends(s)
  /\ UNCHANGED <<ram, image, entry, job, halted>>

LEMMA CreateFacts ==
  ASSUME IInv, NEW t \in Tasks, create(t), ~ \E c : Return(c)
  PROVE  \E s, made, top, got :
           LET S == {s[p] : p \in DOMAIN s}
           IN  /\ Created(t, s, made, top, got)
               /\ top \in SUBSET free /\ IsFiniteSet(top) /\ Cardinality(top) = 1
               /\ got \in SUBSET ((free \ top) \ S) /\ IsFiniteSet(got)
               /\ Cardinality(got) = Cardinality(made)
               /\ made \in SUBSET Table /\ IsFiniteSet(made)
               /\ \A p \in DOMAIN s : TablesOf(p) \subseteq made
               /\ DOMAIN s \in SUBSET Pages
               /\ S \in SUBSET Frames /\ S \subseteq (free \ top) \cup mixed
               /\ Ends(s) \subseteq S /\ S \ Ends(s) \subseteq free \ top
               /\ \A p, q \in DOMAIN s : s[p] = s[q] => p = q
  <1> DEFINE top == Lowest(free, 1)
             room == free \ top
             made(s) == UNION {TablesOf(p) : p \in DOMAIN s}
             left(s) == room \ {s[p] : p \in DOMAIN s}
             got(s) == Lowest(left(s), Cardinality(made(s)))
  <1>1. PICK s \in FirstFit(room) : /\ free # {} /\ ~ (Cardinality(left(s)) < Cardinality(made(s)))
                                    /\ Created(t, s, made(s), top, got(s))
    BY DEF create, Created
  <1>2. s \in Places /\ Fits(s, room)
    BY DEF FirstFit
  <1> DEFINE S == {s[p] : p \in DOMAIN s}
  <1>3. /\ DOMAIN s \in SUBSET Pages /\ IsFiniteSet(DOMAIN s)
        /\ S \in SUBSET Frames /\ S \subseteq room \cup mixed
        /\ Ends(s) \subseteq S /\ S \ Ends(s) \subseteq room
        /\ \A p, q \in DOMAIN s : s[p] = s[q] => p = q
    <2> HIDE DEF room
    <2> QED BY <1>2, PlaceFacts
  <1>4. free \in SUBSET Frames
    BY DEF IInv, Shape
  <1>5. top \in SUBSET free /\ IsFiniteSet(top) /\ Cardinality(top) = 1
    <2>1. PICK x \in free : top = {x}
      BY <1>1, <1>4, LowestOne
    <2> HIDE DEF top
    <2> QED BY <2>1, FS_Singleton
  <1>6. made(s) \in SUBSET Table /\ IsFiniteSet(made(s))
    <2> DEFINE T == {TablesOf(p) : p \in DOMAIN s}
               F == [p \in DOMAIN s |-> TablesOf(p)]
    <2>1. \A p \in DOMAIN s : TablesOf(p) \in SUBSET Table /\ IsFiniteSet(TablesOf(p))
      BY <1>3, TablesFacts
    <2>2. F \in Surjection(DOMAIN s, T)
      BY DEF Surjection
    <2>3. IsFiniteSet(T)
      <3> HIDE DEF F, T
      <3> QED BY <1>3, <2>2, FS_Surjection
    <2>4. \A X \in T : IsFiniteSet(X)
      BY <2>1
    <2>5. IsFiniteSet(UNION T)
      <3> HIDE DEF T
      <3> QED BY <2>3, <2>4, FS_UNION
    <2> QED BY <2>1, <2>5
  <1>7. \A p \in DOMAIN s : TablesOf(p) \subseteq made(s)
    OBVIOUS
  <1>8. got(s) \in SUBSET left(s) /\ IsFiniteSet(got(s)) /\ Cardinality(got(s)) = Cardinality(made(s))
    <2> DEFINE L == left(s)
               n == Cardinality(made(s))
    <2>1. L \in SUBSET Frames /\ n \in Nat
      BY <1>4, <1>6, FS_CardinalityType
    <2>2. ~ (Cardinality(L) < n)
      BY <1>1
    <2> HIDE DEF L, n
    <2>3. /\ Lowest(L, n) \in SUBSET L /\ IsFiniteSet(Lowest(L, n)) /\ Cardinality(L) \in Nat
          /\ n <= Cardinality(L) => Cardinality(Lowest(L, n)) = n
      BY <2>1, LowestFacts
    <2>4. Lowest(L, n) \in SUBSET L /\ IsFiniteSet(Lowest(L, n)) /\ Cardinality(Lowest(L, n)) = n
      BY <2>1, <2>2, <2>3
    <2> QED BY <2>4 DEF L, n
  <1> DEFINE m == made(s)
             g == got(s)
             r == top
  <1>9. /\ Created(t, s, m, r, g) /\ r \in SUBSET free /\ IsFiniteSet(r) /\ Cardinality(r) = 1
        /\ g \in SUBSET ((free \ r) \ S) /\ IsFiniteSet(g) /\ Cardinality(g) = Cardinality(m)
        /\ m \in SUBSET Table /\ IsFiniteSet(m) /\ \A p \in DOMAIN s : TablesOf(p) \subseteq m
        /\ S \subseteq (free \ r) \cup mixed /\ S \ Ends(s) \subseteq free \ r
    BY <1>1, <1>3, <1>5, <1>6, <1>7, <1>8
  <1> HIDE DEF m, g, r
  <1> QED BY <1>3, <1>9

LEMMA CreateInv ==
  ASSUME IInv, NEW t \in Tasks, create(t)
  PROVE  IInv'
  <1>0. t \notin alive /\ job = Idle
    BY DEF create, Ready
  <1>1. CASE \E c : Return(c)
    BY <1>1, Returns
  <1>2. CASE ~ \E c : Return(c)
    <2>1. PICK s, made, top, got :
            LET S == {s[p] : p \in DOMAIN s}
            IN  /\ Created(t, s, made, top, got)
                /\ top \in SUBSET free /\ IsFiniteSet(top) /\ Cardinality(top) = 1
                /\ got \in SUBSET ((free \ top) \ S) /\ IsFiniteSet(got)
                /\ Cardinality(got) = Cardinality(made)
                /\ made \in SUBSET Table /\ IsFiniteSet(made)
                /\ \A p \in DOMAIN s : TablesOf(p) \subseteq made
                /\ DOMAIN s \in SUBSET Pages
                /\ S \in SUBSET Frames /\ S \subseteq (free \ top) \cup mixed
                /\ Ends(s) \subseteq S /\ S \ Ends(s) \subseteq free \ top
                /\ \A p, q \in DOMAIN s : s[p] = s[q] => p = q
      BY <1>2, CreateFacts
    <2> DEFINE S == {s[p] : p \in DOMAIN s}
    <2>2. Shape /\ SpaceAt(t) /\ FramesExclusive /\ free \in SUBSET Frames
      BY DEF IInv, Shape
    <2>3. /\ tables'[t] = made /\ tframes'[t] = top \cup got /\ leaf'[t] = s /\ ustack'[t] = DOMAIN s
          /\ ram'[t] = ram[t] /\ image'[t] = image[t] /\ entry'[t] = entry[t]
          /\ \A u \in Tasks : u # t => /\ tables'[u] = tables[u] /\ tframes'[u] = tframes[u]
                                       /\ leaf'[u] = leaf[u] /\ ram'[u] = ram[u] /\ ustack'[u] = ustack[u]
                                       /\ image'[u] = image[u] /\ entry'[u] = entry[u]
                                       /\ (u \in alive' <=> u \in alive)
      BY <2>1, <2>2 DEF Shape, Created
    <2>4. ram[t] = {} /\ DOMAIN image[t] = {} /\ tframes[t] = {}
      BY <1>0, <2>2 DEF SpaceAt
    <2>5. Shape'
      <3>1. tables' \in [Tasks -> SUBSET Table] /\ ustack' \in [Tasks -> SUBSET Pages]
        BY <2>1, <2>2 DEF Shape, Created
      <3>2. tframes' \in [Tasks -> SUBSET Frames] /\ root' \in [Tasks -> SUBSET Frames]
        <4>1. top \cup got \in SUBSET Frames /\ top \in SUBSET Frames
          BY <2>1, <2>2
        <4> QED BY <2>1, <2>2, <4>1 DEF Shape, Created
      <3>3. leaf' = [u \in Tasks |-> leaf'[u]]
        BY <2>1, <2>2 DEF Shape, Created
      <3>4. free' \subseteq Frames /\ mixed' \subseteq Frames /\ alive' \subseteq Tasks
        BY <2>1, <2>2 DEF Shape, Created
      <3> QED BY <2>1, <2>2, <3>1, <3>2, <3>3, <3>4 DEF Shape, Created
    <2>6. ASSUME NEW u \in Tasks PROVE SpaceAt(u)'
      <3>1. CASE u = t
        <4>1. t \in alive' /\ \A p \in DOMAIN s : s[p] \in Frames
          BY <2>1 DEF Created
        <4> QED BY <2>1, <2>3, <2>4, <3>1, <4>1 DEF SpaceAt
      <3>2. CASE u # t
        <4>1. SpaceAt(u)
          BY DEF IInv
        <4> QED BY <2>3, <3>2, <4>1 DEF SpaceAt
      <3> QED BY <3>1, <3>2
    <2>7. FramesExclusive'
      <3>0. free \cap mixed = {} /\ free' = ((free \ top) \ S) \ got /\ mixed' = mixed \cup Ends(s)
        BY <2>1, <2>2, ExclusiveIs DEF Created
      <3>1. ASSUME NEW u \in Tasks, u # t PROVE Own(u)' = Own(u) /\ (ApartIn(u) => ApartIn(u)')
        <4>1. Stack(u) \cap free = {}
          BY <2>2, StackFrames
        <4>2. mixed' \cap Stack(u) = mixed \cap Stack(u)
          BY <2>1, <3>0, <4>1
        <4> QED BY <2>3, <3>1, <4>2, SameFrames
      <3>2. RamFrames(t)' = {} /\ Stack(t)' = S
        BY <2>3, <2>4 DEF RamFrames, Stack
      <3>3. Own(t)' = top \cup got \cup (S \ mixed')
        BY <2>3, <3>2 DEF Own
      <3>4. (top \cup got) \cap S = {}
        BY <2>1, <3>0
      <3>5. ApartIn(t)'
        BY <2>1, <2>3, <2>4, <3>2, <3>4 DEF ApartIn
      <3>6. S \ mixed' \subseteq free /\ Ends(s) \subseteq S
        BY <2>1, <3>0
      <3>7. Own(t)' \subseteq free
        BY <2>1, <3>3, <3>6
      <3>8. Own(t)' \cap (free' \cup mixed') = {}
        BY <2>1, <3>0, <3>3, <3>4, <3>6
      <3>9. free' \cap mixed' = {} /\ free' \cup mixed' \subseteq free \cup mixed
        BY <2>1, <3>0
      <3> DEFINE T == {t}
                 A == free
      <3>10. /\ T \in SUBSET Tasks /\ (\A u, w \in T : u = w) /\ A \in SUBSET free
             /\ \A u \in Tasks \ T : Own(u)' = Own(u) /\ (ApartIn(u) => ApartIn(u)')
             /\ \A u \in T : /\ Own(u)' \subseteq Own(u) \cup A /\ ApartIn(u)'
                             /\ Own(u)' \cap (free' \cup mixed') = {}
             /\ free' \cup mixed' \subseteq free \cup mixed \cup UNION {Own(u) : u \in T}
        BY <3>1, <3>5, <3>7, <3>8, <3>9
      <3> HIDE DEF T, A
      <3> QED BY <2>2, <3>9, <3>10, ExclusiveKept
    <2>8. TablesComplete'
      <3>1. Cardinality(top \cup got) = Cardinality(made) + 1
        <4>1. Cardinality(top \cup got) = Cardinality(top) + Cardinality(got)
          BY <2>1, DisjointUnion
        <4>2. Cardinality(made) \in Nat
          BY <2>1, FS_CardinalityType
        <4> QED BY <2>1, <4>1, <4>2
      <3>2. ASSUME NEW u \in alive'
            PROVE  /\ \A p \in DOMAIN leaf'[u] : TablesOf(p) \subseteq tables'[u]
                   /\ Cardinality(tframes'[u]) = Cardinality(tables'[u]) + 1
        <4>1. CASE u = t
          BY <2>1, <2>3, <3>1, <4>1
        <4>2. CASE u # t
          <5>1. u \in alive /\ u \in Tasks
            BY <2>1, <2>2, <4>2 DEF Shape, Created
          <5> QED BY <2>3, <4>2, <5>1 DEF IInv, TablesComplete
        <4> QED BY <4>1, <4>2
      <3> QED BY <3>2 DEF TablesComplete, TablesOf
    <2>9. PhysAuthorised'
      <3>1. ASSUME NEW u \in alive', u # t PROVE u \in alive /\ u \in Tasks
        BY <2>1, <2>2, <3>1 DEF Shape, Created
      <3>2. DOMAIN leaf'[t] \ (ram'[t] \cup ustack'[t]) = {}
        BY <2>3
      <3> QED BY <2>3, <3>1, <3>2 DEF IInv, PhysAuthorised
    <2>10. JobAt'
      BY <1>0, <2>1, IdleJob DEF Created
    <2> QED BY <2>5, <2>6, <2>7, <2>8, <2>9, <2>10 DEF IInv
  <1> QED BY <1>1, <1>2

\* The address space of t is given up: the ends of its stack in gone are free again.
Dropped(t, gone) ==
  /\ alive' = alive \ {t}
  /\ free' = free \cup returned(t) \cup gone
  /\ mixed' = mixed \ gone
  /\ tables' = [tables EXCEPT ![t] = {}]
  /\ tframes' = [tframes EXCEPT ![t] = {}]
  /\ root' = [root EXCEPT ![t] = {}]
  /\ leaf' = [leaf EXCEPT ![t] = EmptyFun]
  /\ ram' = [ram EXCEPT ![t] = {}]
  /\ ustack' = [ustack EXCEPT ![t] = {}]
  /\ image' = [image EXCEPT ![t] = EmptyFun]
  /\ entry' = [entry EXCEPT ![t] = NoProgram]
  /\ UNCHANGED <<job, halted>>

LEMMA DropFacts ==
  ASSUME IInv, NEW t \in Tasks, drop(t), ~ \E c : Return(c)
  PROVE  \E gone \in SUBSET (Stack(t) \cap mixed) :
           /\ Dropped(t, gone) /\ returned(t) = tframes[t] \cup (Stack(t) \ mixed)
           /\ \A u \in Tasks : u # t => gone \cap Stack(u) = {}
  <1> DEFINE ends == {f \in Stack(t) \cap mixed : \A u \in Tasks : f \in Stack(u) => u = t}
  <1>1. PICK gone \in SUBSET ends : Dropped(t, gone)
    BY DEF drop, Dropped
  <1>2. gone \in SUBSET (Stack(t) \cap mixed) /\ \A u \in Tasks : u # t => gone \cap Stack(u) = {}
    BY <1>1
  <1> QED BY <1>1, <1>2 DEF returned

LEMMA DropInv ==
  ASSUME IInv, NEW t \in Tasks, drop(t)
  PROVE  IInv'
  <1> SUFFICES ASSUME ~ \E c : Return(c) PROVE IInv'
    BY Returns
  <1>0. t \in alive /\ job = Idle /\ Shape /\ SpaceAt(t) /\ FramesExclusive
    BY DEF drop, Ready, IInv
  <1>1. PICK gone \in SUBSET (Stack(t) \cap mixed) :
          /\ Dropped(t, gone) /\ returned(t) = tframes[t] \cup (Stack(t) \ mixed)
          /\ \A u \in Tasks : u # t => gone \cap Stack(u) = {}
    BY DropFacts
  <1>2. returned(t) \in SUBSET Frames /\ returned(t) \subseteq Own(t)
    BY <1>0 DEF returned, Own, Stack, SpaceAt, Shape
  <1>11. gone \in SUBSET Frames
    BY <1>0, <1>1 DEF Shape
  <1>3. /\ tables'[t] = {} /\ tframes'[t] = {} /\ leaf'[t] = EmptyFun /\ ram'[t] = {} /\ ustack'[t] = {}
        /\ image'[t] = EmptyFun /\ entry'[t] = NoProgram
        /\ \A u \in Tasks : u # t => /\ tables'[u] = tables[u] /\ tframes'[u] = tframes[u]
                                     /\ leaf'[u] = leaf[u] /\ ram'[u] = ram[u] /\ ustack'[u] = ustack[u]
                                     /\ image'[u] = image[u] /\ entry'[u] = entry[u]
                                     /\ (u \in alive' <=> u \in alive)
    BY <1>0, <1>1 DEF Shape, Dropped
  <1>4. DOMAIN EmptyFun = {}
    BY DEF EmptyFun
  <1>5. Shape'
    <2>1. leaf' = [u \in Tasks |-> leaf'[u]] /\ image' = [u \in Tasks |-> image'[u]]
      BY <1>0, <1>1 DEF Shape, Dropped
    <2>2. tables' \in [Tasks -> SUBSET Table] /\ tframes' \in [Tasks -> SUBSET Frames]
          /\ ram' \in [Tasks -> SUBSET Pages] /\ ustack' \in [Tasks -> SUBSET Pages]
          /\ root' \in [Tasks -> SUBSET Frames]
      BY <1>0, <1>1 DEF Shape, Dropped
    <2>3. entry' \in [Tasks -> Programs \cup {NoProgram}]
      BY <1>0, <1>1 DEF Shape, Dropped
    <2>4. free' \subseteq Frames /\ mixed' \subseteq Frames /\ alive' \subseteq Tasks
      BY <1>0, <1>1, <1>2, <1>11 DEF Shape, Dropped
    <2> QED BY <2>1, <2>2, <2>3, <2>4 DEF Shape
  <1>6. ASSUME NEW u \in Tasks PROVE SpaceAt(u)'
    <2>1. CASE u = t
      <3>1. IsFiniteSet({}) /\ u \notin alive'
        BY <1>1, <2>1, FS_EmptySet DEF Dropped
      <3> QED BY <1>3, <1>4, <2>1, <3>1 DEF SpaceAt
    <2>2. CASE u # t
      <3>1. SpaceAt(u)
        BY DEF IInv
      <3> QED BY <1>3, <2>2, <3>1 DEF SpaceAt
    <2> QED BY <2>1, <2>2
  <1>7. FramesExclusive'
    <2>0. /\ free \cap mixed = {} /\ Own(t) \cap (free \cup mixed) = {}
          /\ free' = free \cup returned(t) \cup gone /\ mixed' = mixed \ gone
      BY <1>0, <1>1, ExclusiveIs DEF Dropped
    <2>1. ASSUME NEW u \in Tasks, u # t PROVE Own(u)' = Own(u) /\ (ApartIn(u) => ApartIn(u)')
      <3>1. mixed' \cap Stack(u) = mixed \cap Stack(u)
        BY <1>1, <2>0, <2>1
      <3> QED BY <1>3, <2>1, <3>1, SameFrames
    <2>2. RamFrames(t)' = {} /\ Stack(t)' = {}
      BY <1>3 DEF RamFrames, Stack
    <2>3. Own(t)' = {}
      BY <1>3, <2>2 DEF Own
    <2>4. ApartIn(t)'
      BY <1>3, <2>2 DEF ApartIn
    <2>5. free' \cap mixed' = {} /\ free' \cup mixed' \subseteq free \cup mixed \cup Own(t)
      BY <1>1, <1>2, <2>0
    <2> DEFINE T == {t}
               A == {}
    <2>6. /\ T \in SUBSET Tasks /\ (\A u, w \in T : u = w) /\ A \in SUBSET free
          /\ \A u \in Tasks \ T : Own(u)' = Own(u) /\ (ApartIn(u) => ApartIn(u)')
          /\ \A u \in T : /\ Own(u)' \subseteq Own(u) \cup A /\ ApartIn(u)'
                          /\ Own(u)' \cap (free' \cup mixed') = {}
          /\ free' \cup mixed' \subseteq free \cup mixed \cup UNION {Own(u) : u \in T}
      BY <2>1, <2>3, <2>4, <2>5
    <2> HIDE DEF T, A
    <2> QED BY <1>0, <2>5, <2>6, ExclusiveKept
  <1>8. TablesComplete'
    <2>1. ASSUME NEW u \in alive'
          PROVE  /\ \A p \in DOMAIN leaf'[u] : TablesOf(p) \subseteq tables'[u]
                 /\ Cardinality(tframes'[u]) = Cardinality(tables'[u]) + 1
      <3>1. u \in alive /\ u \in Tasks /\ u # t
        BY <1>0, <1>1 DEF Shape, Dropped
      <3> QED BY <1>3, <3>1 DEF IInv, TablesComplete
    <2> QED BY <2>1 DEF TablesComplete, TablesOf
  <1>9. PhysAuthorised'
    <2>1. ASSUME NEW u \in alive' PROVE u \in alive /\ u \in Tasks /\ u # t
      BY <1>0, <1>1 DEF Shape, Dropped
    <2> QED BY <1>3, <2>1 DEF IInv, PhysAuthorised
  <1>10. JobAt'
    BY <1>0, <1>1, IdleJob DEF Dropped
  <1> QED BY <1>5, <1>6, <1>7, <1>8, <1>9, <1>10 DEF IInv

\* What the rest of the kernel takes and gives back is no task's.
LEMMA KernelInv ==
  ASSUME IInv, kernel_alloc \/ \E f \in Frames : kernel_free(f)
  PROVE  IInv'
  <1>1. /\ UNCHANGED <<alive, tables, tframes, leaf, ram, image, entry, job, halted, root, ustack>>
        /\ Shape /\ FramesExclusive /\ job = Idle
    BY DEF kernel_alloc, kernel_free, IInv, Ready
  <1>2. /\ free' \cup mixed' = free \cup mixed /\ free' \cap mixed' = {}
        /\ \A t \in Tasks : mixed' \cap Stack(t) = mixed \cap Stack(t)
    <2>0. free \cap mixed = {} /\ \A t \in Tasks : Stack(t) \cap free = {}
      BY <1>1, ExclusiveIs, StackFrames
    <2>1. CASE kernel_alloc
      <3> DEFINE L == Lowest(free, 1)
      <3>1. L \in SUBSET free
        BY DEF Lowest
      <3>2. free' = free \ L /\ mixed' = mixed \cup L
        BY <2>1 DEF kernel_alloc
      <3> HIDE DEF L
      <3> QED BY <2>0, <3>1, <3>2
    <2>2. ASSUME NEW f \in Frames, kernel_free(f)
          PROVE  /\ free' \cup mixed' = free \cup mixed /\ free' \cap mixed' = {}
                 /\ \A t \in Tasks : mixed' \cap Stack(t) = mixed \cap Stack(t)
      <3>1. f \in mixed /\ free' = free \cup {f} /\ mixed' = mixed \ {f} /\ \A t \in Tasks : f \notin Stack(t)
        BY <2>2 DEF kernel_free
      <3> QED BY <2>0, <3>1
    <2> QED BY <2>1, <2>2
  <1>3. Shape'
    <2>1. free' \subseteq Frames /\ mixed' \subseteq Frames
      BY <1>1, <1>2 DEF Shape
    <2> QED BY <1>1, <2>1 DEF Shape
  <1>4. \A t \in Tasks : SpaceAt(t)'
    BY <1>1 DEF IInv, SpaceAt
  <1>5. FramesExclusive'
    <2>1. \A t \in Tasks : Own(t)' = Own(t) /\ (ApartIn(t) => ApartIn(t)')
      BY <1>1, <1>2, SameFrames
    <2> DEFINE T == {}
               A == {}
    <2>2. /\ T \in SUBSET Tasks /\ A \in SUBSET free /\ \A t \in T : FALSE
          /\ free' \cup mixed' \subseteq free \cup mixed \cup UNION {Own(t) : t \in T}
      BY <1>2
    <2> HIDE DEF T, A
    <2> QED BY <1>1, <1>2, <2>1, <2>2, ExclusiveKept
  <1>6. TablesComplete'
    BY <1>1 DEF IInv, TablesComplete
  <1>7. PhysAuthorised'
    BY <1>1 DEF IInv, PhysAuthorised
  <1>8. JobAt'
    BY <1>1, IdleJob
  <1> QED BY <1>3, <1>4, <1>5, <1>6, <1>7, <1>8 DEF IInv

LEMMA KernelPageInv ==
  ASSUME IInv, kernel_page
  PROVE  IInv'
  <1>1. UNCHANGED <<alive, tables, tframes, leaf, ram, free, image, entry, root, ustack, mixed>> /\ job' = Idle
    BY DEF kernel_page, stack
  <1>2. entry' \in [Tasks -> Programs \cup {NoProgram}] /\ \A u \in Tasks : u \notin alive => entry'[u] = NoProgram
    BY <1>1 DEF IInv, Shape, SpaceAt
  <1> QED BY <1>1, <1>2, IdleJob, SpacesKept

LEMMA LoadInv ==
  ASSUME IInv, NEW t \in Tasks, NEW f \in Programs, NEW exec \in BOOLEAN, load_elf(t, f, exec)
  PROVE  IInv'
  <1>0. t \in alive /\ job = Idle /\ Shape
    BY DEF load_elf, Ready, IInv
  <1>1. CASE ~ new(f)
    BY <1>1, Returns DEF load_elf
  <1>2. CASE new(f) /\ ElfPages(f) = <<>>
    <2>1. Loaded(t, f) /\ UNCHANGED <<alive, tables, tframes, leaf, ram, free, image, job, root, ustack, mixed>>
      BY <1>2 DEF load_elf, stack
    <2>2. entry' = entry \/ entry' = [entry EXCEPT ![t] = f]
      BY <2>1 DEF Loaded
    <2>3. entry' \in [Tasks -> Programs \cup {NoProgram}]
      BY <1>0, <2>2 DEF Shape
    <2>4. \A u \in Tasks : u \notin alive => entry'[u] = NoProgram
      <3>1. \A u \in Tasks : u \notin alive => entry[u] = NoProgram
        BY DEF IInv, SpaceAt
      <3> QED BY <1>0, <2>2, <3>1 DEF Shape
    <2>5. JobAt'
      BY <1>0, <2>1, IdleJob
    <2> QED BY <2>1, <2>3, <2>4, <2>5, SpacesKept
  <1>3. CASE new(f) /\ ElfPages(f) # <<>>
    <2>1. /\ job' = [Idle EXCEPT !.task = t, !.kind = "elf", !.pages = ElfPages(f), !.program = f]
          /\ UNCHANGED <<alive, tables, tframes, leaf, ram, free, image, entry, halted, root, ustack, mixed>>
      BY <1>3 DEF load_elf, stack
    <2>2. job'.task = t /\ job'.kind = "elf" /\ job'.pages = ElfPages(f) /\ job'.frame = 0 /\ job'.program = f
      BY <2>1 DEF Idle
    <2>3. ElfPages(f) \in Seq(AllPages)
      BY ElfPagesFacts
    <2>4. JobAt'
      <3> DEFINE P == Seq(AllPages)
      <3>1. job'.pages \in P
        BY <2>2, <2>3
      <3> HIDE DEF P
      <3>2. t \in alive'
        BY <1>0, <2>1
      <3> QED BY <1>3, <2>2, <3>1, <3>2 DEF JobAt, P
    <2>5. entry' \in [Tasks -> Programs \cup {NoProgram}] /\ \A u \in Tasks : u \notin alive => entry'[u] = NoProgram
      BY <2>1 DEF IInv, Shape, SpaceAt
    <2> QED BY <2>1, <2>4, <2>5, SpacesKept
  <1> QED BY <1>1, <1>2, <1>3

LEMMA VirtInv ==
  ASSUME IInv, NEW t \in Tasks, NEW at \in Addrs, NEW len \in Lens, NEW read \in BOOLEAN,
         map_virt(t, at, len, read)
  PROVE  IInv'
  <1> DEFINE o == parse_page_range(at, len)
  <1>1. IF o.code # "Ok" THEN Return(o.code)
        ELSE IF t \notin RamCap THEN Return("WrongCapability")
        ELSE IF ~ read THEN Return("WrongParameters")
        ELSE Start(t, "virt", o.pages, 0)
    BY DEF map_virt
  <1> HIDE DEF o
  <1>2. t \in alive
    BY DEF map_virt, Running
  <1>3. CASE \E code : Return(code)
    BY <1>3, Returns
  <1>4. CASE o.code = "Ok" /\ Start(t, "virt", o.pages, 0)
    <2>1. o.pages \in Seq(AllPages)
      BY <1>4, ParseFacts DEF o
    <2> QED BY <1>2, <1>4, <2>1, Starts
  <1> QED BY <1>1, <1>3, <1>4

\* The range check of map_phys covers the last byte of the last page.
LEMMA RangeAllowed ==
  ASSUME NEW t \in Tasks, NEW from \in Nat, NEW n \in Nat \ {0}, from % PageSize = 0,
         NEW end \in Nat, from + PageSize * n <= end, authorised(t, from, end - 1)
  PROVE  \A i \in 1 .. n : Allowed(t, from \div PageSize + i - 1)
  <1> DEFINE q == from \div PageSize
  <1>1. q \in Nat /\ from = PageSize * q /\ PageSize \in Nat /\ PageSize > 0
    BY Sizes, Divides
  <1>2. PICK r \in PhysCap[t] : r[1] <= from /\ r[2] >= end - 1
    BY DEF authorised
  <1>3. r \in Nat \X Nat
    BY SpaceAssumption
  <1>4. r[1] \in Nat /\ r[2] \in Nat
    BY <1>3
  <1> HIDE DEF q
  <1>5. ASSUME NEW i \in 1 .. n PROVE Allowed(t, q + i - 1)
    <2> DEFINE g == q + i - 1
               a == r[1]
               z == r[2]
    <2>1. g \in Nat /\ q <= g /\ g + 1 <= q + n
      BY <1>1
    <2>2. a \in Nat /\ z \in Nat /\ a <= PageSize * q /\ z >= PageSize * q + PageSize * n - 1
      <3>1. PageSize * n \in Nat
        BY <1>1
      <3> QED BY <1>1, <1>2, <1>4, <3>1
    <2> HIDE DEF g, a, z
    <2>3. PageSize * q <= g * PageSize /\ (g + 1) * PageSize <= (q + n) * PageSize
      BY <1>1, <2>1
    <2>4. (q + n) * PageSize = PageSize * q + PageSize * n /\ (g + 1) * PageSize = g * PageSize + PageSize
      BY <1>1, <2>1
    <2>5. a <= g * PageSize /\ g * PageSize + PageSize - 1 <= z
      BY <1>1, <2>1, <2>2, <2>3, <2>4
    <2> QED BY <1>2, <2>5 DEF Allowed, g, a, z
  <1> QED BY <1>5 DEF q

LEMMA PhysInv ==
  ASSUME IInv, NEW t \in Tasks, NEW at \in Addrs, NEW len \in Lens, NEW read \in BOOLEAN,
         NEW phys \in Physs, map_phys(t, at, len, read, phys)
  PROVE  IInv'
  <1> DEFINE from == phys % PhysTop
             end == (from + len) % Top
             o == parse_page_range(at, len)
  <1>1. \/ \E code : Return(code)
        \/ /\ o.code = "Ok" /\ from % PageSize = 0 /\ authorised(t, from, end - 1)
           /\ Start(t, "phys", o.pages, from \div PageSize)
    BY DEF map_phys
  <1>2. t \in alive
    BY DEF map_phys, Running
  <1>3. from \in Nat /\ from < PhysTop /\ len \in Nat /\ len < Top
    BY SpaceAssumption, Sizes
  <1> HIDE DEF from
  <1>4. CASE \E code : Return(code)
    BY <1>4, Returns
  <1>5. CASE /\ o.code = "Ok" /\ from % PageSize = 0 /\ authorised(t, from, end - 1)
             /\ Start(t, "phys", o.pages, from \div PageSize)
    <2>1. /\ o.pages \in Seq(AllPages)
          /\ o.pages # <<>> => PageSize * Len(o.pages) <= len /\ len <= 3 * Canonical
      BY <1>5, ParseFacts
    <2>2. from \div PageSize \in Nat
      BY <1>3, Sizes, Divides
    <2> HIDE DEF o
    <2>3. ASSUME o.pages # <<>> PROVE \A i \in 1 .. Len(o.pages) : Allowed(t, from \div PageSize + i - 1)
      <3> DEFINE n == Len(o.pages)
                 P == AllPages
      <3>1. n \in Nat \ {0}
        <4>1. o.pages \in Seq(P)
          BY <2>1
        <4> HIDE DEF P
        <4> QED BY <2>3, <4>1
      <3>2. end = from + len /\ end \in Nat
        <4> DEFINE x == from + len
        <4>1. x \in Nat /\ x < Top /\ Top \in Nat \ {0}
          BY <1>3, <2>1, <2>3, Sizes
        <4> HIDE DEF x
        <4>2. x % Top = x
          BY <4>1
        <4> QED BY <4>1, <4>2 DEF x
      <3>3. PageSize * n <= len
        BY <2>1, <2>3
      <3> HIDE DEF n, end
      <3>4. from + PageSize * n <= end
        <4>1. PageSize * n \in Nat
          BY <3>1, Sizes
        <4> QED BY <1>3, <3>2, <3>3, <4>1
      <3>5. \A i \in 1 .. n : Allowed(t, from \div PageSize + i - 1)
        BY <1>3, <1>5, <3>1, <3>2, <3>4, RangeAllowed
      <3> QED BY <3>5 DEF n
    <2>4. CASE o.pages # <<>>
      BY <1>2, <1>5, <2>1, <2>2, <2>3, <2>4, Starts
    <2>5. CASE o.pages = <<>>
      BY <1>5, <2>5, Returns DEF Start
    <2> QED BY <2>4, <2>5
  <1> QED BY <1>1, <1>4, <1>5

\* The frames taken and the tables made in a step of the loop.
LEMMA TakingFacts ==
  ASSUME IInv, job # Idle, Head(job.pages) \in Pages, TakesFrames
  PROVE  LET t == job.task
         IN  /\ tables' \in [Tasks -> SUBSET Table] /\ tframes' \in [Tasks -> SUBSET Frames]
             /\ free' \subseteq Frames
             /\ tables'[t] = tables[t] \cup Made /\ tframes'[t] = tframes[t] \cup New
             /\ IsFiniteSet(tables'[t])
             /\ Cardinality(tframes'[t]) = Cardinality(tables'[t]) + 1
             /\ \A u \in Tasks : u # t => tables'[u] = tables[u] /\ tframes'[u] = tframes[u]
  <1> DEFINE t == job.task
  <1>1. Shape /\ JobAt /\ t \in Tasks /\ t \in alive /\ SpaceAt(t) /\ TablesComplete /\ FramesExclusive
    BY DEF IInv, Shape, JobAt
  <1>2. IsFiniteSet(tables[t])
    BY <1>1 DEF SpaceAt
  <1>3. /\ New \in SUBSET free /\ free \in SUBSET Frames /\ IsFiniteSet(New) /\ IsFiniteSet(Made)
        /\ Made \in SUBSET TablesOf(Head(job.pages)) /\ Made \cap tables[t] = {}
        /\ Cardinality(Made) = Cardinality(New)
    BY <1>1, <1>2, TakenFacts
  <1>4. Made \in SUBSET Table
    BY <1>3, TablesFacts
  <1>5. /\ tables' = [tables EXCEPT ![t] = @ \cup Made] /\ tframes' = [tframes EXCEPT ![t] = @ \cup New]
        /\ free' \subseteq free
    BY DEF TakesFrames
  <1> HIDE DEF t
  <1>6. /\ tables' \in [Tasks -> SUBSET Table] /\ tframes' \in [Tasks -> SUBSET Frames]
        /\ tables'[t] = tables[t] \cup Made /\ tframes'[t] = tframes[t] \cup New
        /\ \A u \in Tasks : u # t => tables'[u] = tables[u] /\ tframes'[u] = tframes[u]
    BY <1>1, <1>3, <1>4, <1>5 DEF Shape
  <1>7. IsFiniteSet(tframes[t]) /\ tframes[t] \cap New = {}
    <2>1. tframes[t] \in SUBSET Frames
      BY <1>1 DEF Shape
    <2>2. IsFiniteSet(tframes[t])
      BY <2>1, SpaceAssumption, FS_Subset
    <2>3. tframes[t] \cap free = {}
      BY <1>1 DEF FramesExclusive, Own
    <2> QED BY <1>3, <2>2, <2>3
  <1>8. /\ IsFiniteSet(tables[t] \cup Made)
        /\ Cardinality(tables[t] \cup Made) = Cardinality(tables[t]) + Cardinality(Made)
        /\ Cardinality(tframes[t] \cup New) = Cardinality(tframes[t]) + Cardinality(New)
    <2>1. tables[t] \cap Made = {}
      BY <1>3 DEF t
    <2> QED BY <1>2, <1>3, <1>7, <2>1, DisjointUnion DEF t
  <1>9. Cardinality(tframes[t]) = Cardinality(tables[t]) + 1
    BY <1>1 DEF TablesComplete
  <1>10. Cardinality(tables[t]) \in Nat /\ Cardinality(Made) \in Nat
    BY <1>2, <1>3, FS_CardinalityType DEF t
  <1>11. Cardinality(tframes'[t]) = Cardinality(tables'[t]) + 1
    BY <1>3, <1>6, <1>8, <1>9, <1>10
  <1> QED BY <1>3, <1>5, <1>6, <1>8, <1>11 DEF t

LEMMA PageInv ==
  ASSUME IInv, map_page, NEW t, NEW p, t = job.task, p = Head(job.pages)
  PROVE  IInv'
  <1>0. Shape /\ JobAt /\ TablesComplete /\ PhysAuthorised /\ FramesExclusive
    BY DEF IInv
  <1>1. job # Idle /\ alive' = alive /\ root' = root /\ ustack' = ustack /\ mixed' = mixed /\ p \in Pages
    BY <1>0, PageCases
  <1>2. t \in Tasks /\ t \in alive /\ SpaceAt(t) /\ IsFiniteSet(tables[t]) /\ p \in Pages
    <2>1. t \in Tasks /\ t \in alive
      BY <1>0, <1>1 DEF JobAt, Shape
    <2>2. SpaceAt(t)
      BY <2>1 DEF IInv
    <2>3. IsFiniteSet(tables[t])
      BY <2>2 DEF SpaceAt
    <2> QED BY <1>1, <2>1, <2>2, <2>3
  <1>3. CASE UNCHANGED <<tables, tframes, leaf, ram, free, image>> /\ \E c : Finish(c)
    <2>1. entry' \in [Tasks -> Programs \cup {NoProgram}] /\ \A u \in Tasks : u # t => entry'[u] = entry[u]
      BY <1>0, <1>1, <1>3, EntryFacts
    <2>2. \A u \in Tasks : u \notin alive => entry'[u] = NoProgram
      BY <1>2, <2>1 DEF IInv, SpaceAt
    <2>3. JobAt'
      BY <1>3, IdleJob DEF Finish
    <2> QED BY <1>1, <1>3, <2>1, <2>2, <2>3, SpacesKept
  <1>4. ASSUME TakesFrames, NEW B \in SUBSET OwnFrame,
               (\E c : Finish(c)) \/ UNCHANGED entry, JobAt',
               leaf' = [u \in Tasks |-> leaf'[u]], ram' \in [Tasks -> SUBSET Pages],
               image' = [u \in Tasks |-> image'[u]],
               \A u \in Tasks : u # t => leaf'[u] = leaf[u] /\ ram'[u] = ram[u] /\ image'[u] = image[u],
               DOMAIN leaf[t] \subseteq DOMAIN leaf'[t], DOMAIN leaf'[t] \subseteq DOMAIN leaf[t] \cup {p},
               \A q \in DOMAIN leaf[t] : leaf'[t][q] = leaf[t][q],
               DOMAIN image'[t] \subseteq ram'[t], ram'[t] \subseteq DOMAIN leaf'[t],
               ram'[t] \cap ustack[t] = {},
               \A q \in ram'[t] : q \in ram[t] \/ (q = p /\ p \notin ram[t] /\ B = {leaf'[t][p]}),
               ram[t] \subseteq ram'[t],
               p \in DOMAIN leaf'[t] => TablesOf(p) \subseteq tables'[t],
               p \notin DOMAIN leaf[t] /\ p \in DOMAIN leaf'[t] \ ram'[t] => Allowed(t, leaf'[t][p])
        PROVE  IInv'
    <2>1. /\ tables' \in [Tasks -> SUBSET Table] /\ tframes' \in [Tasks -> SUBSET Frames]
          /\ free' \subseteq Frames
          /\ tables'[t] = tables[t] \cup Made /\ tframes'[t] = tframes[t] \cup New
          /\ IsFiniteSet(tables'[t])
          /\ Cardinality(tframes'[t]) = Cardinality(tables'[t]) + 1
          /\ \A u \in Tasks : u # t => tables'[u] = tables[u] /\ tframes'[u] = tframes[u]
      BY <1>1, <1>4, TakingFacts
    <2>2. /\ OwnFrame \in SUBSET free /\ New \in SUBSET free /\ OwnFrame \cap New = {} /\ free \in SUBSET Frames
      BY <1>0, <1>1, <1>2, TakenFacts
    <2>3. free' = (free \ OwnFrame) \ New
      BY <1>4 DEF TakesFrames
    <2>4. entry' \in [Tasks -> Programs \cup {NoProgram}] /\ \A u \in Tasks : u # t => entry'[u] = entry[u]
      BY <1>0, <1>1, <1>4, EntryFacts
    <2>5. Shape'
      BY <1>0, <1>1, <1>4, <2>1, <2>4 DEF Shape
    <2>6. ASSUME NEW q \in ram'[t] PROVE leaf'[t][q] \in Frames
      <3>1. CASE q \in ram[t]
        BY <1>2, <1>4, <3>1 DEF SpaceAt
      <3>2. CASE q \notin ram[t]
        BY <1>4, <2>2, <3>2
      <3> QED BY <3>1, <3>2
    <2>7. ASSUME NEW u \in Tasks PROVE SpaceAt(u)'
      <3>1. SpaceAt(u)
        BY DEF IInv
      <3>2. CASE u = t
        <4>1. /\ DOMAIN leaf[t] \subseteq Pages /\ ustack[t] \subseteq DOMAIN leaf[t]
              /\ \A q \in ustack[t] : leaf[t][q] \in Frames
          BY <1>2 DEF SpaceAt
        <4>2. DOMAIN leaf'[t] \subseteq Pages
          BY <1>2, <1>4, <4>1
        <4>3. ustack'[t] \subseteq DOMAIN leaf'[t] /\ \A q \in ustack'[t] : leaf'[t][q] \in Frames
          BY <1>1, <1>4, <4>1
        <4> QED BY <1>1, <1>2, <1>4, <2>1, <2>6, <3>2, <4>2, <4>3 DEF SpaceAt
      <3>3. CASE u # t
        BY <1>1, <1>4, <2>1, <2>4, <3>1, <3>3 DEF SpaceAt
      <3> QED BY <3>2, <3>3
    <2>8. FramesExclusive'
      <3>1. \A u \in Tasks : u # t => Own(u)' = Own(u) /\ (ApartIn(u) => ApartIn(u)')
        BY <1>1, <1>4, <2>1, SameFrames
      <3>2. Own(t) \cap (free \cup mixed) = {} /\ ApartIn(t) /\ free \cap mixed = {} /\ Stack(t) \cap free = {}
        BY <1>0, <1>2, ExclusiveIs, StackFrames
      <3>3. Stack(t)' = Stack(t) /\ \A q \in ustack[t] : leaf'[t][q] = leaf[t][q] /\ leaf[t][q] \in Stack(t)
        BY <1>1, <1>2, <1>4 DEF Stack, SpaceAt
      <3>4. \A q \in ram[t] : leaf'[t][q] = leaf[t][q] /\ leaf[t][q] \in RamFrames(t)
        BY <1>2, <1>4 DEF SpaceAt, RamFrames
      <3>5. RamFrames(t)' \subseteq RamFrames(t) \cup B
        <4>1. ASSUME NEW q \in ram'[t] PROVE leaf'[t][q] \in RamFrames(t) \cup B
          BY <1>4, <3>4
        <4> QED BY <4>1 DEF RamFrames
      <3>6. Own(t)' \subseteq Own(t) \cup (OwnFrame \cup New)
        <4>1. (Stack(t) \ mixed)' = Stack(t) \ mixed
          BY <1>1, <3>3
        <4> QED BY <1>4, <2>1, <3>5, <4>1 DEF Own
      <3>7. Own(t)' \cap (free' \cup mixed') = {}
        BY <1>1, <2>2, <2>3, <3>2, <3>6
      <3>8. ApartIn(t)'
        <4>1. RamFrames(t) \cap free = {} /\ tframes[t] \cap free = {}
          BY <3>2 DEF Own
        <4>2. /\ tframes[t] \cap (RamFrames(t) \cup Stack(t)) = {}
              /\ \A q, r \in ram[t] \cup ustack[t] : leaf[t][q] = leaf[t][r] => q = r
          BY <3>2 DEF ApartIn
        <4>3. tframes'[t] \cap (RamFrames(t)' \cup Stack(t)') = {}
          BY <1>4, <2>1, <2>2, <3>2, <3>3, <3>5, <4>1, <4>2
        <4> DEFINE Old == ram[t] \cup ustack[t]
        <4>4. \A q \in Old : leaf'[t][q] = leaf[t][q] /\ leaf[t][q] \notin free
          BY <3>2, <3>3, <3>4, <4>1
        <4>5. \A q \in ram'[t] \cup ustack'[t] : q \in Old \/ (q = p /\ leaf'[t][q] \in free)
          BY <1>1, <1>4, <2>2
        <4>6. \A q, r \in Old : leaf[t][q] = leaf[t][r] => q = r
          BY <4>2
        <4> HIDE DEF Old
        <4>7. ASSUME NEW q \in ram'[t] \cup ustack'[t], NEW r \in ram'[t] \cup ustack'[t], leaf'[t][q] = leaf'[t][r]
              PROVE  q = r
          <5>1. CASE q \in Old /\ r \in Old
            BY <4>4, <4>6, <4>7, <5>1
          <5>2. CASE q \in Old /\ r \notin Old
            BY <4>4, <4>5, <4>7, <5>2
          <5>3. CASE q \notin Old /\ r \in Old
            BY <4>4, <4>5, <4>7, <5>3
          <5>4. CASE q \notin Old /\ r \notin Old
            BY <4>5, <5>4
          <5> QED BY <5>1, <5>2, <5>3, <5>4
        <4> QED BY <4>3, <4>7 DEF ApartIn
      <3> DEFINE T == {t}
                 A == OwnFrame \cup New
      <3>9. /\ T \in SUBSET Tasks /\ (\A u, w \in T : u = w) /\ A \in SUBSET free
            /\ \A u \in Tasks \ T : Own(u)' = Own(u) /\ (ApartIn(u) => ApartIn(u)')
            /\ \A u \in T : /\ Own(u)' \subseteq Own(u) \cup A /\ ApartIn(u)'
                            /\ Own(u)' \cap (free' \cup mixed') = {}
            /\ free' \cap mixed' = {}
            /\ free' \cup mixed' \subseteq free \cup mixed \cup UNION {Own(u) : u \in T}
        BY <1>1, <1>2, <2>2, <2>3, <3>1, <3>2, <3>6, <3>7, <3>8
      <3> HIDE DEF T, A
      <3> QED BY <1>0, <3>9, ExclusiveKept
    <2>9. TablesComplete'
      <3>1. ASSUME NEW u \in alive'
            PROVE  /\ \A q \in DOMAIN leaf'[u] : TablesOf(q) \subseteq tables'[u]
                   /\ Cardinality(tframes'[u]) = Cardinality(tables'[u]) + 1
        <4>1. u \in alive /\ u \in Tasks
          BY <1>0, <1>1 DEF Shape
        <4>2. /\ \A q \in DOMAIN leaf[u] : TablesOf(q) \subseteq tables[u]
              /\ Cardinality(tframes[u]) = Cardinality(tables[u]) + 1
          BY <1>0, <4>1 DEF TablesComplete
        <4>3. CASE u = t
          BY <1>4, <2>1, <4>2, <4>3
        <4>4. CASE u # t
          BY <1>4, <2>1, <4>1, <4>2, <4>4
        <4> QED BY <4>3, <4>4
      <3> QED BY <3>1 DEF TablesComplete, TablesOf
    <2>10. PhysAuthorised'
      <3>1. ASSUME NEW u \in alive', NEW q \in DOMAIN leaf'[u] \ (ram'[u] \cup ustack'[u])
            PROVE  Allowed(u, leaf'[u][q])
        <4>1. u \in alive /\ u \in Tasks
          BY <1>0, <1>1 DEF Shape
        <4>2. \A w \in DOMAIN leaf[u] \ (ram[u] \cup ustack[u]) : Allowed(u, leaf[u][w])
          BY <1>0, <4>1 DEF PhysAuthorised, Allowed
        <4>3. CASE u # t
          BY <1>1, <1>4, <4>1, <4>2, <4>3
        <4>4. CASE u = t /\ q \in DOMAIN leaf[t]
          BY <1>1, <1>4, <4>2, <4>4
        <4>5. CASE u = t /\ q \notin DOMAIN leaf[t]
          BY <1>4, <4>5
        <4> QED BY <4>3, <4>4, <4>5
      <3> QED BY <3>1 DEF PhysAuthorised, Allowed
    <2> QED BY <1>4, <2>5, <2>7, <2>8, <2>9, <2>10 DEF IInv
  <1>5. CASE TakesFrames /\ UNCHANGED <<leaf, ram, image>> /\ \E c : Finish(c)
    <2> DEFINE B == {}
    <2>1. JobAt'
      BY <1>5, IdleJob DEF Finish
    <2>2. leaf' = [u \in Tasks |-> leaf'[u]] /\ image' = [u \in Tasks |-> image'[u]]
          /\ ram' \in [Tasks -> SUBSET Pages]
      BY <1>0, <1>5 DEF Shape
    <2>3. DOMAIN image'[t] \subseteq ram'[t] /\ ram'[t] \subseteq DOMAIN leaf'[t] /\ ram'[t] \cap ustack[t] = {}
      BY <1>2, <1>5 DEF SpaceAt
    <2>4. p \in DOMAIN leaf'[t] => TablesOf(p) \subseteq tables'[t]
      <3>1. tables'[t] = tables[t] \cup Made
        BY <1>1, <1>5, TakingFacts
      <3> QED BY <1>0, <1>2, <1>5, <3>1 DEF TablesComplete
    <2>5. B \in SUBSET OwnFrame
      OBVIOUS
    <2> HIDE DEF B
    <2> QED BY <1>4, <1>5, <2>1, <2>2, <2>3, <2>4, <2>5
  <1>6. ASSUME TakesFrames, NEW x, MapsPage(x),
               \/ job.kind = "phys" /\ x = job.frame
               \/ job.kind # "phys" /\ OwnFrame = {x}
        PROVE  IInv'
    <2>1. /\ p \notin DOMAIN leaf[t]
          /\ leaf' = [u \in Tasks |-> leaf'[u]]
          /\ DOMAIN leaf'[t] = DOMAIN leaf[t] \cup {p}
          /\ leaf'[t][p] = x
          /\ \A q \in DOMAIN leaf[t] : leaf'[t][q] = leaf[t][q]
          /\ \A u \in Tasks : u # t => leaf'[u] = leaf[u] /\ ram'[u] = ram[u]
          /\ ram'[t] = IF job.kind = "phys" THEN ram[t] ELSE ram[t] \cup {p}
      BY <1>0, <1>1, <1>6, MapFacts
    <2>2. ram' \in [Tasks -> SUBSET Pages]
      <3>1. ram' = IF job.kind = "phys" THEN ram ELSE [ram EXCEPT ![t] = @ \cup {p}]
        BY <1>6 DEF MapsPage
      <3> QED BY <1>0, <1>2, <3>1 DEF Shape
    <2>3. /\ image' = [u \in Tasks |-> image'[u]] /\ \A u \in Tasks : u # t => image'[u] = image[u]
          /\ DOMAIN image'[t] \subseteq IF job.kind = "elf" THEN DOMAIN image[t] \cup {p} ELSE DOMAIN image[t]
      <3> DEFINE M == [q \in DOMAIN image[t] \cup {p} |->
                         IF q # p THEN image[t][q] ELSE copied(HeaderOf(job.program, p))]
      <3>1. image' = IF job.kind # "elf" THEN image ELSE [image EXCEPT ![t] = M]
        BY <1>6 DEF MapsPage
      <3>2. DOMAIN M = DOMAIN image[t] \cup {p}
        OBVIOUS
      <3> HIDE DEF M
      <3>3. CASE job.kind # "elf"
        BY <1>0, <3>1, <3>3 DEF Shape
      <3>4. CASE job.kind = "elf"
        BY <1>0, <1>2, <3>1, <3>2, <3>4 DEF Shape
      <3> QED BY <3>3, <3>4
    <2>4. DOMAIN image'[t] \subseteq ram'[t] /\ ram'[t] \subseteq DOMAIN leaf'[t] /\ ram'[t] \cap ustack[t] = {}
      <3>1. /\ DOMAIN image[t] \subseteq ram[t] /\ ram[t] \subseteq DOMAIN leaf[t]
            /\ ustack[t] \subseteq DOMAIN leaf[t] /\ ram[t] \cap ustack[t] = {}
        BY <1>2 DEF SpaceAt
      <3>2. p \notin ustack[t]
        BY <2>1, <3>1
      <3>3. CASE job.kind = "phys"
        <4>1. ram'[t] = ram[t] /\ DOMAIN image'[t] \subseteq DOMAIN image[t]
          BY <2>1, <2>3, <3>3
        <4> QED BY <2>1, <3>1, <4>1
      <3>4. CASE job.kind # "phys"
        <4>1. ram'[t] = ram[t] \cup {p} /\ DOMAIN image'[t] \subseteq DOMAIN image[t] \cup {p}
          BY <2>1, <2>3, <3>4
        <4> QED BY <2>1, <3>1, <3>2, <4>1
      <3> QED BY <3>3, <3>4
    <2>5. p \notin ram[t]
      BY <1>2, <2>1 DEF SpaceAt
    <2>6. TablesOf(p) \subseteq tables'[t]
      <3>1. Made = Miss
        <4>1. ~ (Cardinality(free \ OwnFrame) < Cardinality(Miss))
          BY <1>6 DEF MapsPage
        <4> QED BY <1>0, <1>1, <1>2, <4>1, TakenFacts
      <3>2. tables'[t] = tables[t] \cup Made
        BY <1>1, <1>6, TakingFacts
      <3> QED BY <3>1, <3>2 DEF Miss
    <2>7. /\ job.pages \in Seq(AllPages) /\ job.pages # <<>> /\ job.frame \in Nat
          /\ job.kind = "phys" => \A i \in 1 .. Len(job.pages) : Allowed(t, job.frame + i - 1)
      BY <1>0, <1>1 DEF JobAt
    <2> DEFINE P == AllPages
    <2>8. job.pages \in Seq(P)
      BY <2>7
    <2> HIDE DEF P
    <2>9. job.kind = "phys" => Allowed(t, job.frame)
      <3>1. 1 \in 1 .. Len(job.pages) /\ job.frame + 1 - 1 = job.frame
        BY <2>7, <2>8
      <3> QED BY <2>7, <3>1
    <2>10. ((\E c : Finish(c)) \/ UNCHANGED entry) /\ JobAt'
      <3>1. CASE Finish("Ok")
        BY <3>1, IdleJob DEF Finish
      <3>2. CASE /\ Len(job.pages) # 1
                 /\ job' = [job EXCEPT !.pages = Tail(@), !.frame = @ + 1]
                 /\ UNCHANGED <<entry, halted>>
        <4>1. /\ job'.task = job.task /\ job'.kind = job.kind /\ job'.program = job.program
              /\ job'.pages = Tail(job.pages) /\ job'.frame = job.frame + 1
          BY <3>2
        <4>2. Tail(job.pages) \in Seq(P) /\ Tail(job.pages) # <<>> /\ Len(Tail(job.pages)) = Len(job.pages) - 1
          <5> DEFINE s == job.pages
          <5>1. s \in Seq(P) /\ s # <<>> /\ Len(s) # 1
            BY <2>7, <2>8, <3>2
          <5> HIDE DEF s
          <5>2. Tail(s) \in Seq(P) /\ Tail(s) # <<>> /\ Len(Tail(s)) = Len(s) - 1
            <6>1. Len(s) \in Nat /\ Len(s) >= 1 /\ Tail(s) \in Seq(P) /\ Len(Tail(s)) = Len(s) - 1
              BY <5>1
            <6>2. Len(Tail(s)) # 0
              BY <5>1, <6>1
            <6>3. Len(<<>>) = 0
              OBVIOUS
            <6>4. Tail(s) # <<>>
              BY <6>2, <6>3, Zenon
            <6> QED BY <6>1, <6>4
          <5> QED BY <5>2 DEF s
        <4>3. ASSUME job.kind = "phys", NEW i \in 1 .. Len(Tail(job.pages))
              PROVE Allowed(t, job.frame + 1 + i - 1)
          <5>1. i + 1 \in 1 .. Len(job.pages) /\ job.frame + (i + 1) - 1 = job.frame + 1 + i - 1
            BY <2>7, <2>8, <4>2
          <5> QED BY <2>7, <4>3, <5>1
        <4>4. job'.kind = "phys" => \A i \in 1 .. Len(job'.pages) : Allowed(job'.task, job'.frame + i - 1)
          <5>1. job'.kind = "phys" => job.kind = "phys"
            BY <4>1
          <5>2. job'.pages = Tail(job.pages) /\ job'.task = t /\ job'.frame = job.frame + 1
            BY <4>1
          <5> QED BY <4>3, <5>1, <5>2
        <4>5. job'.task \in alive' /\ job'.kind \in {"virt", "phys", "elf"}
              /\ (job'.kind = "elf" => job'.program \in Programs)
          BY <1>0, <1>1, <4>1 DEF JobAt
        <4>6. job'.pages \in Seq(AllPages) /\ job'.pages # <<>> /\ job'.frame \in Nat
          BY <2>7, <4>1, <4>2 DEF P
        <4>7. JobAt'
          BY <4>4, <4>5, <4>6 DEF JobAt
        <4> QED BY <3>2, <4>7
      <3> QED BY <1>6, <3>1, <3>2 DEF MapsPage
    <2>11. CASE job.kind = "phys"
      <3> DEFINE B == {}
      <3>1. B \in SUBSET OwnFrame /\ ram'[t] = ram[t]
        BY <2>1, <2>11
      <3>2. Allowed(t, leaf'[t][p])
        BY <1>6, <2>1, <2>9, <2>11
      <3> HIDE DEF B
      <3> QED BY <1>4, <1>6, <2>1, <2>2, <2>3, <2>4, <2>6, <2>10, <3>1, <3>2
    <2>12. CASE job.kind # "phys"
      <3> DEFINE B == OwnFrame
      <3>1. B \in SUBSET OwnFrame /\ ram'[t] = ram[t] \cup {p} /\ B = {leaf'[t][p]}
        BY <1>6, <2>1, <2>12
      <3> HIDE DEF B
      <3>2. p \notin DOMAIN leaf'[t] \ ram'[t]
        BY <3>1
      <3> QED BY <1>4, <1>6, <2>1, <2>2, <2>3, <2>4, <2>5, <2>6, <2>10, <3>1, <3>2
    <2> QED BY <2>11, <2>12
  <1>7. \/ UNCHANGED <<tables, tframes, leaf, ram, free, image>> /\ \E c : Finish(c)
        \/ TakesFrames /\ UNCHANGED <<leaf, ram, image>> /\ \E c : Finish(c)
        \/ TakesFrames /\ \E x : /\ MapsPage(x)
                                 /\ \/ job.kind = "phys" /\ x = job.frame
                                    \/ job.kind # "phys" /\ OwnFrame = {x}
    BY <1>0, PageCases
  <1> QED BY <1>3, <1>5, <1>6, <1>7

LEMMA InitInv ==
  Init => IInv
  <1> SUFFICES ASSUME Init PROVE IInv
    OBVIOUS
  <1>1. Shape
    BY DEF Init, Shape
  <1>2. DOMAIN EmptyFun = {} /\ IsFiniteSet({})
    BY FS_EmptySet DEF EmptyFun
  <1>3. \A t \in Tasks : SpaceAt(t)
    BY <1>2 DEF Init, SpaceAt
  <1>4. FramesExclusive
    <2>1. \A t \in Tasks : tframes[t] = {} /\ RamFrames(t) = {} /\ Stack(t) = {} /\ ram[t] \cup ustack[t] = {}
      BY DEF Init, RamFrames, Stack
    <2>2. \A t \in Tasks : Own(t) = {}
      BY <2>1 DEF Own
    <2> QED BY <2>1, <2>2 DEF FramesExclusive, Init
  <1> QED BY <1>1, <1>3, <1>4 DEF Init, JobAt, TablesComplete, PhysAuthorised, IInv

LEMMA StepInv ==
  IInv /\ [Next]_vars => IInv'
  <1> SUFFICES ASSUME IInv, [Next]_vars PROVE IInv'
    OBVIOUS
  <1>1. ASSUME NEW t \in Tasks, create(t) PROVE IInv'
    BY <1>1, CreateInv
  <1>2. ASSUME NEW t \in Tasks, drop(t) PROVE IInv'
    BY <1>2, DropInv
  <1>3. ASSUME NEW t \in Tasks, NEW f \in Programs, NEW exec \in BOOLEAN, load_elf(t, f, exec) PROVE IInv'
    BY <1>3, LoadInv
  <1>4. ASSUME NEW t \in Tasks, NEW at \in Addrs, NEW len \in Lens, NEW read \in BOOLEAN,
               map_virt(t, at, len, read)
        PROVE  IInv'
    BY <1>4, VirtInv
  <1>5. ASSUME NEW t \in Tasks, NEW at \in Addrs, NEW len \in Lens, NEW read \in BOOLEAN,
               NEW phys \in Physs, map_phys(t, at, len, read, phys)
        PROVE  IInv'
    BY <1>5, PhysInv
  <1>6. ASSUME NEW t \in Tasks, unmap(t) PROVE IInv'
    BY <1>6, Returns DEF unmap
  <1>7. CASE map_page
    BY <1>7, PageInv
  <1>8. CASE Halted
    BY <1>8, Unchanged DEF Halted, vars, stack
  <1>9. CASE UNCHANGED vars
    BY <1>9, Unchanged DEF vars, stack
  <1>10. CASE kernel_alloc \/ \E f \in Frames : kernel_free(f)
    BY <1>10, KernelInv
  <1>11. CASE kernel_page
    BY <1>11, KernelPageInv
  <1> QED BY <1>1, <1>2, <1>3, <1>4, <1>5, <1>6, <1>7, <1>8, <1>9, <1>10, <1>11 DEF Next

LEMMA Invariant ==
  Spec => []IInv
  BY InitInv, StepInv, PTL DEF Spec

-------------------------------------------------------------------------------
(* Theorems.                                                               *)

\* The state stays in its domain whatever the arguments, wrapped sums and addresses
\* that are extended into the kernel half included: what a task has mapped in its own
\* tables is in the user half, what a loop is still to map may be of either half.
THEOREM TypeCorrect ==
  Spec => []TypeOK
  <1>1. IInv => TypeOK
    BY DEF IInv, Shape, SpaceAt, JobAt, TypeOK
  <1> QED BY <1>1, Invariant, PTL

\* A frame has one use, through failing calls, dropped tasks and tasks created after:
\* also where a user stack begins or ends inside a frame that holds other objects.
THEOREM FramesHaveOneUse ==
  Spec => []FramesExclusive
  <1>1. IInv => FramesExclusive
    BY DEF IInv
  <1> QED BY <1>1, Invariant, PTL

\* The way to every mapped page is there and every table has a frame of its own, so
\* that the drop of a page table finds every table.
THEOREM DropFindsTables ==
  Spec => []TablesComplete
  <1>1. IInv => TablesComplete
    BY DEF IInv
  <1> QED BY <1>1, Invariant, PTL

\* map_phys maps no byte of memory that no capability of the task covers.
THEOREM PhysOnlyByCapability ==
  Spec => []PhysAuthorised
  <1>1. IInv => PhysAuthorised
    BY DEF IInv
  <1> QED BY <1>1, Invariant, PTL

-------------------------------------------------------------------------------
(* Frames that are lost.                                                   *)

LEMMA LostIs ==
  Lost = {x \in Frames : x \notin free \cup mixed /\ \A t \in Tasks : x \notin Own(t)}
  BY DEF Lost

LEMMA LostKept ==
  ASSUME UNCHANGED <<tframes, leaf, ram, free, ustack, mixed>>
  PROVE  Lost' = Lost
  BY DEF Lost, Own, RamFrames, Stack

\* When one task's frames change, what was free or the task's and is neither any more
\* is lost.
LEMMA LostStep ==
  ASSUME Shape, FramesExclusive, NEW t \in Tasks, NEW D,
         \A u \in Tasks : u # t => Own(u)' = Own(u),
         D \subseteq free \cup mixed \cup Own(t),
         free' \cup mixed' \cup Own(t)' = (free \cup mixed \cup Own(t)) \ D,
         D \subseteq Frames
  PROVE  Lost' = Lost \cup D /\ Lost \cap D = {}
  <1>1. \A u \in Tasks : /\ Own(u) \cap (free \cup mixed) = {}
                         /\ \A w \in Tasks : u # w => Own(u) \cap Own(w) = {}
    BY ExclusiveIs
  <1>2. Lost' = {x \in Frames : x \notin free' \cup mixed' /\ \A u \in Tasks : x \notin Own(u)'}
    BY DEF Lost
  <1>3. \A x \in Frames : x \in Lost <=> x \notin free \cup mixed /\ \A u \in Tasks : x \notin Own(u)
    BY LostIs
  <1>4. \A x \in Frames : x \in Lost' <=> x \notin free' \cup mixed' /\ \A u \in Tasks : x \notin Own(u)'
    BY <1>2
  <1>5. Lost \subseteq Frames /\ Lost' \subseteq Frames
    BY <1>2, LostIs
  <1>6. ASSUME NEW x \in D PROVE x \in Lost' /\ x \notin Lost
    <2>1. x \in free \cup mixed \/ x \in Own(t)
      OBVIOUS
    <2>2. \A u \in Tasks : u # t => x \notin Own(u)
      BY <1>1, <2>1
    <2>3. x \notin free' \cup mixed' /\ x \notin Own(t)'
      OBVIOUS
    <2> QED BY <1>3, <1>4, <2>1, <2>2, <2>3
  <1>7. ASSUME NEW x \in Frames, x \notin D PROVE x \in Lost' <=> x \in Lost
    <2>1. x \in free' \cup mixed' \/ x \in Own(t)' <=> x \in free \cup mixed \/ x \in Own(t)
      BY <1>7
    <2> QED BY <1>3, <1>4, <2>1
  <1> QED BY <1>5, <1>6, <1>7

LEMMA LossStep ==
  ASSUME IInv, Next
  PROVE  \/ Lost' = Lost
         \/ job # Idle /\ job' = Idle /\ Cardinality(Lost' \ Lost) = 1
         \/ \E t \in alive : t \notin alive' /\ Lost' \ Lost \subseteq RamFrames(t)
  <1>0. Shape /\ JobAt /\ FramesExclusive
    BY DEF IInv
  <1>1. CASE UNCHANGED <<tframes, leaf, ram, free, ustack, mixed>>
    BY <1>1, LostKept
  <1>2. ASSUME NEW t \in Tasks, create(t) PROVE Lost' = Lost
    <2>1. CASE \E c : Return(c)
      BY <1>1, <2>1 DEF Return, stack
    <2>2. CASE ~ \E c : Return(c)
      <3>1. PICK s, made, top, got :
              LET S == {s[p] : p \in DOMAIN s}
              IN  /\ Created(t, s, made, top, got)
                  /\ top \in SUBSET free /\ got \in SUBSET ((free \ top) \ S)
                  /\ S \subseteq (free \ top) \cup mixed
                  /\ Ends(s) \subseteq S /\ S \ Ends(s) \subseteq free \ top
        BY <1>2, <2>2, CreateFacts
      <3> DEFINE S == {s[p] : p \in DOMAIN s}
      <3>2. tframes[t] = {} /\ ram[t] = {} /\ ustack[t] = {}
        BY <1>2 DEF create, IInv, SpaceAt
      <3>3. Own(t) = {}
        BY <3>2 DEF Own, RamFrames, Stack
      <3>4. /\ tframes'[t] = top \cup got /\ leaf'[t] = s /\ ustack'[t] = DOMAIN s /\ ram'[t] = {}
            /\ free' = ((free \ top) \ S) \ got /\ mixed' = mixed \cup Ends(s)
            /\ \A u \in Tasks : u # t => /\ tframes'[u] = tframes[u] /\ leaf'[u] = leaf[u]
                                         /\ ram'[u] = ram[u] /\ ustack'[u] = ustack[u]
        BY <1>0, <3>1, <3>2 DEF Shape, Created
      <3>5. Own(t)' = top \cup got \cup (S \ mixed')
        <4>1. RamFrames(t)' = {} /\ Stack(t)' = S
          BY <3>4 DEF RamFrames, Stack
        <4> QED BY <3>4, <4>1 DEF Own
      <3>6. ASSUME NEW u \in Tasks, u # t PROVE Own(u)' = Own(u)
        <4>1. Stack(u) \cap free = {}
          BY <1>0, StackFrames
        <4>2. mixed' \cap Stack(u) = mixed \cap Stack(u)
          BY <3>1, <3>4, <4>1
        <4> QED BY <3>4, <3>6, <4>2, SameFrames
      <3> DEFINE D == {}
      <3>7. free' \cup mixed' \cup Own(t)' = free \cup mixed
        BY <3>1, <3>4, <3>5
      <3>8. /\ D \subseteq free \cup mixed \cup Own(t) /\ D \subseteq Frames
            /\ free' \cup mixed' \cup Own(t)' = (free \cup mixed \cup Own(t)) \ D
        BY <3>3, <3>7
      <3>9. Lost' = Lost \cup D
        <4> HIDE DEF D
        <4> QED BY <1>0, <3>6, <3>8, LostStep
      <3> QED BY <3>9
    <2> QED BY <2>1, <2>2
  <1>3. ASSUME NEW t \in Tasks, drop(t)
        PROVE  Lost' = Lost \/ (t \in alive /\ t \notin alive' /\ Lost' \ Lost \subseteq RamFrames(t))
    <2>1. CASE \E c : Return(c)
      BY <1>1, <2>1 DEF Return, stack
    <2>2. CASE ~ \E c : Return(c)
      <3>1. PICK gone \in SUBSET (Stack(t) \cap mixed) :
              /\ Dropped(t, gone) /\ returned(t) = tframes[t] \cup (Stack(t) \ mixed)
              /\ \A u \in Tasks : u # t => gone \cap Stack(u) = {}
        BY <1>3, <2>2, DropFacts
      <3>2. /\ tframes'[t] = {} /\ ram'[t] = {} /\ ustack'[t] = {} /\ t \in alive /\ t \notin alive'
            /\ free' = free \cup returned(t) \cup gone /\ mixed' = mixed \ gone
            /\ \A u \in Tasks : u # t => /\ tframes'[u] = tframes[u] /\ leaf'[u] = leaf[u]
                                         /\ ram'[u] = ram[u] /\ ustack'[u] = ustack[u]
        BY <1>0, <1>3, <3>1 DEF Shape, Dropped, drop
      <3>3. Own(t)' = {}
        BY <3>2 DEF Own, RamFrames, Stack
      <3>4. ASSUME NEW u \in Tasks, u # t PROVE Own(u)' = Own(u)
        <4>1. mixed' \cap Stack(u) = mixed \cap Stack(u)
          BY <3>1, <3>2, <3>4
        <4> QED BY <3>2, <3>4, <4>1, SameFrames
      <3>5. Own(t) \cap (free \cup mixed) = {} /\ ApartIn(t) /\ SpaceAt(t)
        BY <1>0, ExclusiveIs DEF IInv
      <3>6. RamFrames(t) \subseteq Frames /\ RamFrames(t) \subseteq Own(t)
        BY <3>5 DEF RamFrames, Own, SpaceAt
      <3>7. RamFrames(t) \cap Stack(t) = {} /\ RamFrames(t) \cap tframes[t] = {}
        BY <3>5 DEF ApartIn, SpaceAt, RamFrames, Stack
      <3> DEFINE R == RamFrames(t)
                 K == Stack(t)
      <3>8. free' \cup mixed' \cup Own(t)' = (free \cup mixed \cup Own(t)) \ R
        <4>1. Own(t) = tframes[t] \cup R \cup (K \ mixed)
          BY DEF Own
        <4>2. R \cap K = {} /\ R \cap tframes[t] = {} /\ R \cap (free \cup mixed) = {}
          BY <3>5, <3>6, <3>7
        <4>3. free' \cup mixed' = free \cup mixed \cup tframes[t] \cup (K \ mixed)
          BY <3>1, <3>2
        <4> HIDE DEF R, K
        <4> QED BY <3>3, <4>1, <4>2, <4>3
      <3>9. Lost' = Lost \cup R
        <4>1. R \subseteq free \cup mixed \cup Own(t) /\ R \subseteq Frames
          BY <3>6
        <4> HIDE DEF R
        <4> QED BY <1>0, <3>4, <3>8, <4>1, LostStep
      <3> QED BY <3>2, <3>9
    <2> QED BY <2>1, <2>2
  <1>4. ASSUME map_page, NEW t, NEW p, t = job.task, p = Head(job.pages)
        PROVE  Lost' = Lost \/ (job # Idle /\ job' = Idle /\ Cardinality(Lost' \ Lost) = 1)
    <2>1. job # Idle /\ alive' = alive /\ ustack' = ustack /\ mixed' = mixed /\ p \in Pages
      BY <1>0, <1>4, PageCases
    <2>2. t \in Tasks /\ t \in alive /\ SpaceAt(t) /\ IsFiniteSet(tables[t])
      <3>1. t \in Tasks /\ t \in alive
        BY <1>0, <1>4, <2>1 DEF JobAt, Shape
      <3> QED BY <3>1 DEF IInv, SpaceAt
    <2>3. /\ OwnFrame \in SUBSET free /\ New \in SUBSET free /\ OwnFrame \cap New = {} /\ free \in SUBSET Frames
          /\ job.kind # "phys" => OwnFrame = {} \/ \E x \in free : OwnFrame = {x}
          /\ job.kind = "phys" => OwnFrame = {}
      BY <1>0, <1>4, <2>1, <2>2, TakenFacts DEF OwnFrame
    <2>4. CASE UNCHANGED <<tables, tframes, leaf, ram, free, image>>
      BY <2>1, <2>4, LostKept
    <2>5. ASSUME TakesFrames
          PROVE  /\ free' = (free \ OwnFrame) \ New /\ tframes'[t] = tframes[t] \cup New
                 /\ \A u \in Tasks : u # t => tframes'[u] = tframes[u]
      BY <1>4, <2>1, <2>5, TakingFacts DEF TakesFrames
    <2>6. CASE TakesFrames /\ UNCHANGED <<leaf, ram, image>> /\ \E c : Finish(c)
      <3>1. RamFrames(t)' = RamFrames(t) /\ Stack(t)' = Stack(t)
        BY <2>1, <2>6 DEF RamFrames, Stack
      <3>2. \A u \in Tasks : u # t => Own(u)' = Own(u)
        BY <2>1, <2>5, <2>6, SameFrames
      <3>3. Own(t)' = Own(t) \cup New
        <4>1. (Stack(t) \ mixed)' = Stack(t) \ mixed
          BY <2>1, <3>1
        <4> QED BY <2>5, <2>6, <3>1, <4>1 DEF Own
      <3>4. Own(t) \cap (free \cup mixed) = {} /\ free \cap mixed = {}
        BY <1>0, <2>2, ExclusiveIs
      <3>5. free' \cup mixed' \cup Own(t)' = (free \cup mixed \cup Own(t)) \ OwnFrame
        BY <2>1, <2>3, <2>5, <2>6, <3>3, <3>4
      <3>6. Lost' = Lost \cup OwnFrame /\ Lost \cap OwnFrame = {}
        BY <1>0, <2>2, <2>3, <3>2, <3>5, LostStep
      <3>7. job' = Idle
        BY <2>6 DEF Finish
      <3>8. CASE OwnFrame = {}
        BY <3>6, <3>8
      <3>9. CASE \E x \in free : OwnFrame = {x}
        <4>1. PICK x \in free : OwnFrame = {x}
          BY <3>9
        <4>2. Lost' \ Lost = {x}
          BY <3>6, <4>1
        <4>3. Cardinality({x}) = 1
          BY FS_Singleton
        <4> QED BY <2>1, <3>7, <4>2, <4>3
      <3> QED BY <2>3, <3>8, <3>9
    <2>7. ASSUME TakesFrames, NEW x, MapsPage(x), job.kind = "phys" \/ OwnFrame = {x}
          PROVE  Lost' = Lost
      <3>1. /\ p \notin DOMAIN leaf[t]
            /\ DOMAIN leaf'[t] = DOMAIN leaf[t] \cup {p}
            /\ leaf'[t][p] = x
            /\ \A q \in DOMAIN leaf[t] : leaf'[t][q] = leaf[t][q]
            /\ \A u \in Tasks : u # t => leaf'[u] = leaf[u] /\ ram'[u] = ram[u]
            /\ ram'[t] = IF job.kind = "phys" THEN ram[t] ELSE ram[t] \cup {p}
        BY <1>0, <1>4, <2>1, <2>7, MapFacts
      <3>2. ram[t] \cup ustack[t] \subseteq DOMAIN leaf[t]
        BY <2>2 DEF SpaceAt
      <3>3. Stack(t)' = Stack(t)
        BY <2>1, <3>1, <3>2 DEF Stack
      <3>4. RamFrames(t)' = RamFrames(t) \cup OwnFrame
        <4>1. CASE job.kind = "phys"
          <5>1. ram'[t] = ram[t] /\ OwnFrame = {}
            BY <2>3, <3>1, <4>1
          <5>2. \A q \in ram[t] : leaf'[t][q] = leaf[t][q]
            BY <3>1, <3>2
          <5> QED BY <5>1, <5>2 DEF RamFrames
        <4>2. CASE job.kind # "phys"
          <5>1. ram'[t] = ram[t] \cup {p} /\ OwnFrame = {x}
            BY <2>7, <3>1, <4>2
          <5>2. \A q \in ram[t] : leaf'[t][q] = leaf[t][q]
            BY <3>1, <3>2
          <5> QED BY <3>1, <5>1, <5>2 DEF RamFrames
        <4> QED BY <4>1, <4>2
      <3>5. \A u \in Tasks : u # t => Own(u)' = Own(u)
        BY <2>1, <2>5, <2>7, <3>1, SameFrames
      <3>6. Own(t)' = Own(t) \cup New \cup OwnFrame
        <4>1. (Stack(t) \ mixed)' = Stack(t) \ mixed
          BY <2>1, <3>3
        <4> QED BY <2>5, <2>7, <3>4, <4>1 DEF Own
      <3> DEFINE D == {}
      <3>7. /\ D \subseteq free \cup mixed \cup Own(t) /\ D \subseteq Frames
            /\ free' \cup mixed' \cup Own(t)' = (free \cup mixed \cup Own(t)) \ D
        BY <2>1, <2>3, <2>5, <2>7, <3>6
      <3>8. Lost' = Lost \cup D
        <4> HIDE DEF D
        <4> QED BY <1>0, <2>2, <3>5, <3>7, LostStep
      <3> QED BY <3>8
    <2>8. \/ UNCHANGED <<tables, tframes, leaf, ram, free, image>>
          \/ TakesFrames /\ UNCHANGED <<leaf, ram, image>> /\ \E c : Finish(c)
          \/ TakesFrames /\ \E x : MapsPage(x) /\ (job.kind = "phys" \/ OwnFrame = {x})
      BY <1>0, <1>4, PageCases
    <2> QED BY <2>4, <2>6, <2>7, <2>8
  <1>5. ASSUME NEW t \in Tasks, NEW f \in Programs, NEW exec \in BOOLEAN, load_elf(t, f, exec)
        PROVE  UNCHANGED <<tframes, leaf, ram, free, ustack, mixed>>
    BY <1>5 DEF load_elf, Return, stack
  <1>6. ASSUME NEW t \in Tasks, NEW at \in Addrs, NEW len \in Lens, NEW read \in BOOLEAN,
               map_virt(t, at, len, read)
        PROVE  UNCHANGED <<tframes, leaf, ram, free, ustack, mixed>>
    BY <1>6 DEF map_virt, Return, Start, stack
  <1>7. ASSUME NEW t \in Tasks, NEW at \in Addrs, NEW len \in Lens, NEW read \in BOOLEAN,
               NEW phys \in Physs, map_phys(t, at, len, read, phys)
        PROVE  UNCHANGED <<tframes, leaf, ram, free, ustack, mixed>>
    BY <1>7 DEF map_phys, Return, Start, stack
  <1>8. ASSUME NEW t \in Tasks, unmap(t) PROVE UNCHANGED <<tframes, leaf, ram, free, ustack, mixed>>
    BY <1>8 DEF unmap, Return, stack
  <1>9. CASE Halted
    BY <1>1, <1>9 DEF Halted, vars, stack
  <1>10. CASE kernel_page
    BY <1>1, <1>10 DEF kernel_page, stack
  <1>11. CASE kernel_alloc \/ \E f \in Frames : kernel_free(f)
    <2>1. free' \cup mixed' = free \cup mixed /\ UNCHANGED <<tframes, leaf, ram, ustack>>
      <3>1. Lowest(free, 1) \subseteq free
        BY DEF Lowest
      <3> QED BY <1>11, <3>1 DEF kernel_alloc, kernel_free
    <2>2. \A t \in Tasks : mixed' \cap Stack(t) = mixed \cap Stack(t)
      <3>1. \A t \in Tasks : Stack(t) \cap free = {}
        BY <1>0, StackFrames
      <3>2. Lowest(free, 1) \subseteq free
        BY DEF Lowest
      <3> QED BY <1>11, <3>1, <3>2 DEF kernel_alloc, kernel_free
    <2>3. \A t \in Tasks : Own(t)' = Own(t)
      BY <2>1, <2>2, SameFrames
    <2>4. Lost' = Frames \ (free' \cup mixed' \cup UNION {Own(t)' : t \in Tasks})
      BY DEF Lost
    <2> QED BY <2>1, <2>3, <2>4 DEF Lost
  <1> QED BY <1>1, <1>2, <1>3, <1>4, <1>5, <1>6, <1>7, <1>8, <1>9, <1>10, <1>11 DEF Next

\* Memory is lost in two ways only: a mapping that fails loses the frame it had taken
\* for the page, the drop of a page table loses the frames behind the pages.
THEOREM LossBounded ==
  Spec => LossIsBounded
  <1>1. IInv /\ [Next]_vars =>
          [\/ Lost' = Lost
           \/ job # Idle /\ job' = Idle /\ Cardinality(Lost' \ Lost) = 1
           \/ \E t \in alive : t \notin alive' /\ Lost' \ Lost \subseteq RamFrames(t)]_vars
    BY LossStep
  <1> QED BY <1>1, Invariant, PTL DEF Spec, LossIsBounded

-------------------------------------------------------------------------------
(* What the loader writes.                                                 *)

LEMMA MaxMin ==
  ASSUME NEW a \in Int, NEW b \in Int
  PROVE  /\ Max({a, b}) = IF a >= b THEN a ELSE b
         /\ Min({a, b}) = IF a <= b THEN a ELSE b
  <1>1. \E x \in {a, b} : \A y \in {a, b} : x >= y
    OBVIOUS
  <1>2. Max({a, b}) \in {a, b} /\ \A y \in {a, b} : Max({a, b}) >= y
    BY <1>1 DEF Max
  <1>3. \E x \in {a, b} : \A y \in {a, b} : x <= y
    OBVIOUS
  <1>4. Min({a, b}) \in {a, b} /\ \A y \in {a, b} : Min({a, b}) <= y
    BY <1>3 DEF Min
  <1> QED BY <1>2, <1>4

\* The copy is right on the first page of a segment.
LEMMA CopyRight ==
  ASSUME NEW h \in HeaderT, from_page(h) = h.vaddr \div PageSize
  PROVE  copied(h) = Reference(h, from_page(h))
  <1> DEFINE v == h.vaddr
             o == h.offset
             n == h.filesz
             d == from_page(h) * PageSize
             i == file_index(h)
  <1>1. v \in Nat /\ o \in Nat /\ n \in Nat
    BY DEF HeaderT
  <1>2. i = d - v
    BY DEF file_index
  <1>3. d \in Nat /\ d <= v /\ v < d + PageSize
    <2> DEFINE q == v \div PageSize
    <2>1. d = q * PageSize
      OBVIOUS
    <2>2. q \in Nat
      BY <1>1, Sizes, Divides
    <2>3. PageSize * q <= v /\ v < PageSize * q + PageSize
      <3> HIDE DEF v
      <3> QED BY <1>1, Sizes
    <2> HIDE DEF q, d, v
    <2>4. q * PageSize = PageSize * q /\ PageSize * q \in Nat
      BY <2>2, Sizes
    <2> QED BY <1>1, <2>1, <2>3, <2>4, Sizes
  <1> HIDE DEF d, v, o, n, i
  <1>4. i \in Int /\ i <= 0 /\ i + PageSize > 0 /\ -i \in Nat
    BY <1>1, <1>2, <1>3, Sizes
  <1>5. data_start(h) = 0
    <2>1. Max({i, 0}) = IF i >= 0 THEN i ELSE 0
      BY <1>4, MaxMin
    <2>2. Max({i, 0}) = 0
      BY <1>4, <2>1
    <2> QED BY <2>2 DEF data_start, i
  <1>6. off(h) = -i
    <2>1. Max({-i, 0}) = IF -i >= 0 THEN -i ELSE 0
      BY <1>4, MaxMin
    <2>2. Max({-i, 0}) = -i
      BY <1>4, <2>1
    <2> QED BY <2>2 DEF off, i
  <1>7. data_end(h) = IF i + PageSize <= n THEN i + PageSize ELSE n
    <2> DEFINE w == i + PageSize
    <2>1. w \in Int /\ n \in Int
      BY <1>1, <1>4, Sizes
    <2> HIDE DEF w
    <2>2. Min({w, n}) = IF w <= n THEN w ELSE n
      BY <2>1, MaxMin
    <2> QED BY <2>2 DEF data_end, i, n, w
  <1> DEFINE e == data_end(h)
             C(b) == IF -i <= b /\ b < -i + e - 0 THEN o + 0 + b - (-i) ELSE Zero
             R(b) == IF 0 <= d + b - v /\ d + b - v < n THEN o + (d + b - v) ELSE Zero
  <1>8. copied(h) = [b \in 0 .. PageSize - 1 |-> C(b)]
    BY <1>5, <1>6 DEF copied, o
  <1>9. Reference(h, from_page(h)) = [b \in 0 .. PageSize - 1 |-> R(b)]
    BY DEF Reference, d, v, o, n
  <1>10. e \in Int /\ (i + PageSize <= n => e = i + PageSize) /\ (~ (i + PageSize <= n) => e = n)
    BY <1>1, <1>4, <1>7, Sizes
  <1> HIDE DEF e
  <1>11. ASSUME NEW b \in 0 .. PageSize - 1 PROVE C(b) = R(b)
    <2>1. b \in Nat /\ b < PageSize
      BY Sizes
    <2>2. d + b - v = b + i /\ o + 0 + b - (-i) = o + (b + i) /\ b + i \in Int /\ -i + e - 0 = e - i
      <3>1. d + b - v = b + i /\ b + i \in Int
        BY <1>1, <1>2, <1>3, <2>1
      <3>2. o + 0 + b - (-i) = o + (b + i)
        BY <1>1, <1>4, <2>1
      <3>3. -i + e - 0 = e - i
        BY <1>4, <1>10
      <3> QED BY <3>1, <3>2, <3>3
    <2>3. (-i <= b /\ b < e - i) <=> (0 <= b + i /\ b + i < n)
      <3>1. CASE i + PageSize <= n
        BY <1>1, <1>4, <1>10, <2>1, <3>1, Sizes
      <3>2. CASE ~ (i + PageSize <= n)
        BY <1>1, <1>4, <1>10, <2>1, <3>2, Sizes
      <3> QED BY <3>1, <3>2
    <2>4. (-i <= b /\ b < -i + e - 0) <=> (0 <= d + b - v /\ d + b - v < n)
      BY <2>2, <2>3
    <2>5. o + 0 + b - (-i) = o + (d + b - v)
      BY <2>2
    <2> QED BY <2>4, <2>5
  <1> HIDE DEF C, R
  <1> QED BY <1>8, <1>9, <1>11

\* What FirstPagesRight says of one program and what was written for it.
ImageRight(f, img) ==
  \A i \in 1 .. Len(f.headers) :
    LET h == f.headers[i]
    IN  Mounted(h) /\ ~ wraps(h) =>
          /\ img[from_page(h)] = Reference(h, from_page(h))
          /\ {p \in Pages : \E a \in h.vaddr .. h.vaddr + h.memsz - 1 : p = a \div PageSize}
               \subseteq DOMAIN img

\* If the loader came to the end, no page was in two segments, and so every page holds
\* what the segment it belongs to put there.
LEMMA ProgramRight ==
  ASSUME NEW f \in Programs, Accepted(f) = f.headers, NEW img,
         \A k \in 1 .. Len(ElfPages(f)) :
           ElfPages(f)[k] \in DOMAIN img /\ img[ElfPages(f)[k]] = copied(HeaderOf(f, ElfPages(f)[k])),
         \A k, l \in 1 .. Len(ElfPages(f)) : ElfPages(f)[k] = ElfPages(f)[l] => k = l
  PROVE  ImageRight(f, img)
  <1> DEFINE A == Accepted(f)
             E == ElfPages(f)
             S(i) == PagesOf(A[i])
  <1>1. PICK at \in [1 .. Len(A) -> Nat] :
          /\ \A i \in 1 .. Len(A) : /\ Len(S(i)) \in Nat
                                    /\ at[i] + Len(S(i)) <= Len(E)
                                    /\ \A k \in 1 .. Len(S(i)) : E[at[i] + k] = S(i)[k]
          /\ \A i, j \in 1 .. Len(A) : i < j => at[i] + Len(S(i)) <= at[j]
    BY ElfPagesFacts
  <1>2. Len(A) \in Nat /\ Len(E) \in Nat
    <2> DEFINE R == HeaderT
               P == AllPages
    <2>1. A \in Seq(R) /\ E \in Seq(P)
      BY AcceptedFacts, ElfPagesFacts
    <2> HIDE DEF R, P
    <2> QED BY <2>1
  <1>3. ASSUME NEW i \in 1 .. Len(A), Mounted(A[i]), ~ wraps(A[i])
        PROVE  /\ img[from_page(A[i])] = Reference(A[i], from_page(A[i]))
               /\ {p \in Pages : \E a \in A[i].vaddr .. A[i].vaddr + A[i].memsz - 1 : p = a \div PageSize}
                    \subseteq DOMAIN img
    <2> DEFINE hd == A[i]
               a0 == from_page(hd)
               z0 == to_page(hd)
    <2>1. /\ hd \in HeaderT /\ a0 \in Nat /\ z0 \in Nat /\ a0 <= z0
          /\ a0 = hd.vaddr \div PageSize /\ z0 = (hd.vaddr + hd.memsz - 1) \div PageSize
      <3>1. /\ hd \in HeaderT /\ a0 \in Pages /\ z0 \in AllPages /\ a0 <= z0
            /\ a0 = hd.vaddr \div PageSize /\ z0 = (hd.vaddr + hd.memsz - 1) \div PageSize
        BY <1>3, SegmentFacts
      <3> HIDE DEF a0, z0, hd
      <3> QED BY <3>1, Sizes DEF Pages, AllPages
    <2>2. S(i) = [k \in 1 .. ((z0 + 1) - a0) |-> a0 + k - 1]
      BY <1>3 DEF PagesOf, PageRange
    <2> HIDE DEF A, E
    <2>3. /\ Len(S(i)) = (z0 + 1) - a0
          /\ \A k \in 1 .. ((z0 + 1) - a0) : S(i)[k] = a0 + k - 1
          /\ S(i)[1] = a0 /\ 1 \in 1 .. Len(S(i))
      <3> DEFINE n == (z0 + 1) - a0
      <3> HIDE DEF a0, z0
      <3>1. n \in Nat /\ 1 \in 1 .. n /\ a0 + 1 - 1 = a0
        BY <2>1
      <3> DEFINE s == S(i)
      <3>2. s = [k \in 1 .. n |-> a0 + k - 1]
        BY <2>2
      <3> HIDE DEF n, s
      <3>3. Len(s) = n /\ (\A k \in 1 .. n : s[k] = a0 + k - 1) /\ s[1] = a0
        BY <3>1, <3>2
      <3> QED BY <3>1, <3>3 DEF n, s
    <2>4. ASSUME NEW j \in 1 .. Len(A), NEW k \in 1 .. Len(S(j)) PROVE at[j] + k \in 1 .. Len(E) /\ E[at[j] + k] = S(j)[k]
      <3>1. at[j] \in Nat /\ Len(S(j)) \in Nat /\ at[j] + Len(S(j)) <= Len(E)
        BY <1>1
      <3> HIDE DEF S
      <3>2. at[j] + k \in 1 .. Len(E)
        BY <1>2, <3>1
      <3> QED BY <1>1, <3>2 DEF S
    <2>5. HeaderOf(f, a0) = hd
      <3> DEFINE I == {j \in 1 .. Len(A) : \E k \in 1 .. Len(S(j)) : S(j)[k] = a0}
      <3>1. HeaderOf(f, a0) = A[IF I # {} THEN Min(I) ELSE 0]
        BY DEF HeaderOf, SelectInSeq, A
      <3>2. i \in I /\ I \in SUBSET Nat
        BY <1>2, <2>3
      <3>3. \E m \in I : \A j \in I : m <= j
        <4> HIDE DEF I
        <4> QED BY <3>2, LeastExists
      <3>4. Min(I) \in I /\ \A j \in I : Min(I) <= j
        <4> HIDE DEF I
        <4> QED BY <3>3 DEF Min
      <3> DEFINE m == Min(I)
      <3>5. m \in 1 .. Len(A) /\ m <= i /\ \E k \in 1 .. Len(S(m)) : S(m)[k] = a0
        BY <3>2, <3>4
      <3> HIDE DEF I, m
      <3>6. PICK k \in 1 .. Len(S(m)) : S(m)[k] = a0
        BY <3>5
      <3>7. at[m] + k = at[i] + 1
        <4>1. at[m] + k \in 1 .. Len(E) /\ E[at[m] + k] = a0
          BY <2>4, <3>5, <3>6
        <4>2. at[i] + 1 \in 1 .. Len(E) /\ E[at[i] + 1] = a0
          BY <2>3, <2>4
        <4> QED BY <4>1, <4>2 DEF E
      <3>8. ~ (m < i)
        <4> SUFFICES ASSUME m < i PROVE FALSE
          OBVIOUS
        <4>1. at[m] + Len(S(m)) <= at[i]
          BY <1>1, <3>5
        <4>2. at[m] \in Nat /\ at[i] \in Nat /\ Len(S(m)) \in Nat
          BY <1>1, <3>5
        <4> HIDE DEF S
        <4> QED BY <3>6, <3>7, <4>1, <4>2
      <3>9. m = i
        BY <1>2, <3>5, <3>8
      <3> QED BY <3>1, <3>2, <3>9 DEF m
    <2>6. img[a0] = copied(hd)
      <3>1. at[i] + 1 \in 1 .. Len(E) /\ E[at[i] + 1] = a0
        BY <2>3, <2>4
      <3> QED BY <2>5, <3>1 DEF E
    <2>7. img[a0] = Reference(hd, a0)
      BY <2>1, <2>6, CopyRight
    <2>8. ASSUME NEW a \in hd.vaddr .. hd.vaddr + hd.memsz - 1 PROVE a \div PageSize \in DOMAIN img
      <3> DEFINE q == a \div PageSize
                 v == hd.vaddr
                 l == hd.vaddr + hd.memsz - 1
      <3>1. v \in Nat /\ l \in Int /\ hd.memsz \in Nat
        BY <2>1 DEF HeaderT
      <3>2. a0 = v \div PageSize /\ z0 = l \div PageSize
        BY <2>1
      <3>3. a \in Nat /\ v <= a /\ a <= l /\ l \in Nat
        BY <3>1
      <3> HIDE DEF v, l, a0, z0
      <3>4. q \in Nat /\ v \div PageSize <= q /\ q <= l \div PageSize
        <4>1. PageSize \in Nat \ {0}
          BY Sizes
        <4>2. q \in Nat
          BY <3>3, <4>1, Divides
        <4>3. v \div PageSize <= q
          BY <3>1, <3>3, <4>1, DividesLess
        <4>4. q <= l \div PageSize
          BY <3>1, <3>3, <4>1, DividesLess
        <4> QED BY <4>2, <4>3, <4>4
      <3> DEFINE k == q - a0 + 1
      <3>5. k \in 1 .. ((z0 + 1) - a0) /\ a0 + k - 1 = q
        <4> HIDE DEF q
        <4> QED BY <2>1, <3>2, <3>4
      <3>6. k \in 1 .. Len(S(i)) /\ S(i)[k] = q
        BY <2>3, <3>5
      <3> HIDE DEF k, q
      <3>7. at[i] + k \in 1 .. Len(E) /\ E[at[i] + k] = q
        BY <2>4, <3>6
      <3>8. q \in DOMAIN img
        BY <3>7 DEF E
      <3> QED BY <3>8 DEF q
    <2> QED BY <2>7, <2>8
  <1>4. A = f.headers
    OBVIOUS
  <1> HIDE DEF A
  <1> QED BY <1>3, <1>4 DEF ImageRight

\* How far the loader is with a program: the pages before the ones it has left are
\* written, and no page was met twice.
ElfAt ==
  job # Idle /\ job.kind = "elf" =>
    LET E == ElfPages(job.program)
        d == Len(E) - Len(job.pages)
    IN  /\ entry[job.task] = NoProgram
        /\ d \in Nat
        /\ \A i \in 1 .. Len(job.pages) : job.pages[i] = E[d + i]
        /\ \A k \in 1 .. d :
             E[k] \in DOMAIN image[job.task] /\ image[job.task][E[k]] = copied(HeaderOf(job.program, E[k]))
        /\ \A k, l \in 1 .. d : E[k] = E[l] => k = l

ImageAt(t) == t \in alive /\ entry[t] # NoProgram => ImageRight(entry[t], image[t])

ImageInv == ElfAt /\ \A t \in Tasks : ImageAt(t)

LEMMA NotElf ==
  ASSUME job' = Idle \/ job'.kind # "elf"
  PROVE  ElfAt'
  BY DEF ElfAt

\* Steps that write no image and set no program.
LEMMA ImagesKept ==
  ASSUME Shape, \A t \in Tasks : ImageAt(t),
         \A t \in Tasks : t \in alive' /\ entry'[t] # NoProgram =>
           t \in alive /\ entry'[t] = entry[t] /\ image'[t] = image[t]
  PROVE  \A t \in Tasks : ImageAt(t)'
  <1> SUFFICES ASSUME NEW t \in Tasks, t \in alive', entry'[t] # NoProgram
               PROVE  ImageRight(entry[t], image[t])'
    BY DEF ImageAt
  <1>1. entry'[t] = entry[t] /\ image'[t] = image[t] /\ t \in alive
    OBVIOUS
  <1>2. ImageRight(entry[t], image[t])
    BY <1>1 DEF ImageAt
  <1> QED BY <1>1, <1>2 DEF ImageRight, Reference

\* The step of the loop that writes a page of a program.
LEMMA ElfPage ==
  ASSUME IInv, ImageInv, job # Idle, job.kind = "elf", NEW x, MapsPage(x), UNCHANGED alive
  PROVE  ImageInv'
  <1> SUFFICES ASSUME NEW t, NEW p, NEW f, NEW s, t = job.task, p = Head(job.pages),
                      f = job.program, s = job.pages
               PROVE  ImageInv'
    OBVIOUS
  <1> DEFINE E == ElfPages(f)
             n == Len(s)
             d == Len(E) - n
             P == AllPages
             W == copied(HeaderOf(f, p))
             M == [q \in DOMAIN image[t] \cup {p} |-> IF q # p THEN image[t][q] ELSE W]
  <1>0. Shape /\ JobAt
    BY DEF IInv
  <1>1. t \in Tasks /\ t \in alive /\ f \in Programs /\ s \in Seq(P) /\ s # <<>>
    BY <1>0 DEF JobAt, Shape
  <1>2. E \in Seq(P)
    BY <1>1, ElfPagesFacts
  <1>3. /\ entry[t] = NoProgram /\ d \in Nat
        /\ \A i \in 1 .. n : s[i] = E[d + i]
        /\ \A k \in 1 .. d : E[k] \in DOMAIN image[t] /\ image[t][E[k]] = copied(HeaderOf(f, E[k]))
        /\ \A k, l \in 1 .. d : E[k] = E[l] => k = l
    BY DEF ImageInv, ElfAt
  <1>4. p = s[1] /\ p = E[d + 1] /\ n \in Nat /\ n >= 1 /\ Len(E) \in Nat /\ Len(E) = d + n
    <2> HIDE DEF P, E
    <2>1. n \in Nat /\ n >= 1 /\ p = s[1] /\ Len(E) \in Nat
      BY <1>1, <1>2
    <2>2. 1 \in 1 .. n
      BY <2>1
    <2> HIDE DEF n
    <2> QED BY <1>3, <2>1, <2>2
  <1>5. image' = [image EXCEPT ![t] = M] /\ image = [u \in Tasks |-> image[u]]
    BY <1>0 DEF MapsPage, Shape
  <1>6. p \notin DOMAIN image[t]
    BY <1>1 DEF MapsPage, IInv, SpaceAt
  <1>7. DOMAIN M = DOMAIN image[t] \cup {p} /\ M[p] = W /\ \A q \in DOMAIN image[t] : M[q] = image[t][q]
    BY <1>6
  <1> HIDE DEF M, d, n, P
  <1>8. image'[t] = M /\ \A u \in Tasks : u # t => image'[u] = image[u]
    BY <1>1, <1>5
  <1>9. ASSUME NEW k \in 1 .. d + 1
        PROVE  E[k] \in DOMAIN image'[t] /\ image'[t][E[k]] = copied(HeaderOf(f, E[k]))
    <2>1. CASE k = d + 1
      BY <1>4, <1>7, <1>8, <2>1
    <2>2. CASE k # d + 1
      <3>1. k \in 1 .. d
        BY <1>3, <2>2
      <3> QED BY <1>3, <1>7, <1>8, <3>1
    <2> QED BY <2>1, <2>2
  <1>10. ASSUME NEW k \in 1 .. d + 1, NEW l \in 1 .. d + 1, E[k] = E[l] PROVE k = l
    <2>1. \A j \in 1 .. d + 1 : j = d + 1 \/ j \in 1 .. d
      BY <1>3
    <2>2. \A j \in 1 .. d : E[j] # p
      BY <1>3, <1>6
    <2>3. CASE k = d + 1
      BY <1>4, <1>10, <2>1, <2>2, <2>3
    <2>4. CASE l = d + 1
      BY <1>4, <1>10, <2>1, <2>2, <2>4
    <2>5. CASE k \in 1 .. d /\ l \in 1 .. d
      BY <1>3, <1>10, <2>5
    <2> QED BY <2>1, <2>3, <2>4, <2>5
  <1>11. CASE Len(job.pages) = 1 /\ Finish("Ok")
    <2>1. job' = Idle /\ (entry' = entry \/ (Accepted(f) = f.headers /\ entry' = [entry EXCEPT ![t] = f]))
      BY <1>11 DEF Finish, Loaded
    <2>2. Len(E) = d + 1
      BY <1>4, <1>11 DEF n
    <2>3. Accepted(f) = f.headers => ImageRight(f, image'[t])
      <3> SUFFICES ASSUME Accepted(f) = f.headers PROVE ImageRight(f, image'[t])
        OBVIOUS
      <3> DEFINE img == image'[t]
      <3>1. \A k \in 1 .. Len(E) : E[k] \in DOMAIN img /\ img[E[k]] = copied(HeaderOf(f, E[k]))
        BY <1>9, <2>2
      <3>2. \A k, l \in 1 .. Len(E) : E[k] = E[l] => k = l
        BY <1>10, <2>2
      <3> HIDE DEF img
      <3>3. ImageRight(f, img)
        BY <1>1, <3>1, <3>2, ProgramRight
      <3> QED BY <3>3 DEF img
    <2>4. ASSUME NEW u \in Tasks PROVE ImageAt(u)'
      <3>0. UNCHANGED alive
        OBVIOUS
      <3> SUFFICES ASSUME u \in alive', entry'[u] # NoProgram PROVE ImageRight(entry'[u], image'[u])
        BY DEF ImageAt
      <3>1. CASE u = t
        <4>1. Accepted(f) = f.headers /\ entry'[t] = f
          BY <1>0, <1>1, <1>3, <2>1, <3>1 DEF Shape
        <4>2. ImageRight(f, image'[t])
          BY <2>3, <4>1
        <4> QED BY <3>1, <4>1, <4>2
      <3>2. CASE u # t
        <4>1. entry'[u] = entry[u] /\ image'[u] = image[u] /\ u \in alive
          BY <1>0, <1>1, <1>8, <2>1, <3>2 DEF Shape
        <4>2. ImageRight(entry[u], image[u])
          BY <4>1 DEF ImageInv, ImageAt
        <4> QED BY <4>1, <4>2
      <3> QED BY <3>1, <3>2
    <2> QED BY <2>1, <2>4, NotElf DEF ImageInv
  <1>12. CASE /\ Len(job.pages) # 1
              /\ job' = [job EXCEPT !.pages = Tail(@), !.frame = @ + 1]
              /\ UNCHANGED <<entry, halted>>
    <2>1. job'.task = t /\ job'.kind = "elf" /\ job'.program = f /\ job'.pages = Tail(s)
      BY <1>12
    <2>2. /\ Len(Tail(s)) = n - 1 /\ \A i \in 1 .. n - 1 : Tail(s)[i] = s[i + 1]
      BY <1>1 DEF n
    <2>3. Len(E) - Len(Tail(s)) = d + 1 /\ d + 1 \in Nat
      <3> DEFINE a == Len(E)
                 b == Len(Tail(s))
      <3>1. a = d + n /\ b = n - 1 /\ d \in Nat /\ n \in Nat
        BY <1>3, <1>4, <2>2
      <3> HIDE DEF a, b
      <3>2. a - b = d + 1 /\ d + 1 \in Nat
        BY <3>1
      <3> QED BY <3>2 DEF a, b
    <2>4. ASSUME NEW i \in 1 .. Len(Tail(s)) PROVE Tail(s)[i] = E[(d + 1) + i]
      <3>1. i \in 1 .. n - 1 /\ i + 1 \in 1 .. n /\ d + (i + 1) = (d + 1) + i
        <4>1. i \in 1 .. n - 1 /\ n \in Nat /\ d \in Nat
          BY <1>3, <1>4, <2>2
        <4> QED BY <4>1
      <3>2. Tail(s)[i] = s[i + 1] /\ s[i + 1] = E[d + (i + 1)]
        BY <1>3, <2>2, <3>1
      <3> QED BY <3>1, <3>2
    <2>5. ElfAt'
      <3> DEFINE img == image'[t]
                 e == d + 1
      <3>1. entry'[t] = NoProgram
        BY <1>3, <1>12
      <3>2. \A k \in 1 .. e : E[k] \in DOMAIN img /\ img[E[k]] = copied(HeaderOf(f, E[k]))
        BY <1>9
      <3>3. \A k, l \in 1 .. e : E[k] = E[l] => k = l
        BY <1>10
      <3>4. Len(E) - Len(Tail(s)) = e /\ e \in Nat /\ \A i \in 1 .. Len(Tail(s)) : Tail(s)[i] = E[e + i]
        BY <2>3, <2>4
      <3> HIDE DEF e, E
      <3> QED BY <2>1, <3>1, <3>2, <3>3, <3>4 DEF ElfAt, E
    <2>6. \A u \in Tasks : ImageAt(u)'
      <3>1. \A u \in Tasks : u \in alive' /\ entry'[u] # NoProgram =>
              u \in alive /\ entry'[u] = entry[u] /\ image'[u] = image[u]
        BY <1>3, <1>8, <1>12
      <3> QED BY <1>0, <3>1, ImagesKept DEF ImageInv
    <2> QED BY <2>5, <2>6 DEF ImageInv
  <1> QED BY <1>11, <1>12 DEF MapsPage

LEMMA ImageStep ==
  IInv /\ ImageInv /\ [Next]_vars => ImageInv'
  <1> SUFFICES ASSUME IInv, ImageInv, [Next]_vars PROVE ImageInv'
    OBVIOUS
  <1>0. Shape /\ JobAt /\ ElfAt /\ \A t \in Tasks : ImageAt(t)
    BY DEF IInv, ImageInv
  <1>1. CASE UNCHANGED <<alive, image, entry>> /\ (job' = Idle \/ job'.kind # "elf")
    BY <1>0, <1>1, ImagesKept, NotElf DEF ImageInv
  <1>2. CASE UNCHANGED <<alive, image, entry, job>>
    <2>1. ElfAt'
      BY <1>0, <1>2, ZenonT(60) DEF ElfAt
    <2> QED BY <1>0, <1>2, <2>1, ImagesKept DEF ImageInv
  <1>3. ASSUME NEW t \in Tasks, create(t) PROVE ImageInv'
    <2>1. job' = job /\ job = Idle /\ UNCHANGED <<image, entry>> /\ alive' \subseteq alive \cup {t} /\ t \notin alive
      BY <1>3 DEF create, Ready, Return
    <2>2. entry[t] = NoProgram
      BY <2>1 DEF IInv, SpaceAt
    <2>3. \A u \in Tasks : u \in alive' /\ entry'[u] # NoProgram =>
            u \in alive /\ entry'[u] = entry[u] /\ image'[u] = image[u]
      BY <2>1, <2>2
    <2> QED BY <1>0, <2>1, <2>3, ImagesKept, NotElf DEF ImageInv
  <1>4. ASSUME NEW t \in Tasks, drop(t) PROVE ImageInv'
    <2>0. CASE \E c : Return(c)
      BY <1>2, <2>0 DEF Return
    <2> SUFFICES ASSUME ~ \E c : Return(c) PROVE ImageInv'
      BY <2>0
    <2>1. /\ job' = job /\ job = Idle /\ alive' = alive \ {t}
          /\ image' = [image EXCEPT ![t] = EmptyFun] /\ entry' = [entry EXCEPT ![t] = NoProgram]
      BY <1>4 DEF drop, Ready
    <2>2. \A u \in Tasks : u \in alive' /\ entry'[u] # NoProgram =>
            u \in alive /\ entry'[u] = entry[u] /\ image'[u] = image[u]
      BY <1>0, <2>1 DEF Shape
    <2> QED BY <1>0, <2>1, <2>2, ImagesKept, NotElf DEF ImageInv
  <1>5. ASSUME NEW t \in Tasks, NEW f \in Programs, NEW exec \in BOOLEAN, load_elf(t, f, exec) PROVE ImageInv'
    <2>0. t \in alive /\ entry[t] = NoProgram /\ job = Idle
      BY <1>5 DEF load_elf, Ready, Running
    <2>1. CASE ~ new(f)
      BY <1>2, <1>5, <2>1 DEF load_elf, Return
    <2>2. CASE new(f) /\ ElfPages(f) = <<>>
      <3>1. UNCHANGED <<alive, image, job>>
            /\ (entry' = entry \/ (Accepted(f) = f.headers /\ entry' = [entry EXCEPT ![t] = f]))
        BY <1>5, <2>2 DEF load_elf, Loaded
      <3>2. CASE entry' = entry
        BY <1>2, <3>1, <3>2
      <3>3. CASE Accepted(f) = f.headers /\ entry' = [entry EXCEPT ![t] = f]
        <4>1. ImageRight(f, image[t])
          <5> DEFINE img == image[t]
          <5>1. 1 .. Len(ElfPages(f)) = {}
            BY <2>2
          <5> HIDE DEF img
          <5>2. ImageRight(f, img)
            BY <3>3, <5>1, ProgramRight
          <5> QED BY <5>2 DEF img
        <4>2. ASSUME NEW u \in Tasks PROVE ImageAt(u)'
          <5> SUFFICES ASSUME u \in alive', entry'[u] # NoProgram PROVE ImageRight(entry'[u], image'[u])
            BY DEF ImageAt
          <5>1. image'[u] = image[u] /\ u \in alive
            BY <3>1
          <5>2. CASE u = t
            <6>1. entry'[u] = f
              BY <1>0, <3>3, <5>2 DEF Shape
            <6> QED BY <4>1, <5>1, <5>2, <6>1
          <5>3. CASE u # t
            <6>1. entry'[u] = entry[u]
              BY <1>0, <3>3, <5>3 DEF Shape
            <6>2. ImageRight(entry[u], image[u])
              BY <1>0, <5>1, <6>1 DEF ImageAt
            <6> QED BY <5>1, <6>1, <6>2
          <5> QED BY <5>2, <5>3
        <4> QED BY <2>0, <3>1, <4>2, NotElf DEF ImageInv
      <3> QED BY <3>1, <3>2, <3>3
    <2>3. CASE new(f) /\ ElfPages(f) # <<>>
      <3>1. /\ job' = [Idle EXCEPT !.task = t, !.kind = "elf", !.pages = ElfPages(f), !.program = f]
            /\ UNCHANGED <<alive, image, entry>>
        BY <1>5, <2>3 DEF load_elf
      <3>2. job'.task = t /\ job'.kind = "elf" /\ job'.pages = ElfPages(f) /\ job'.program = f
        BY <3>1 DEF Idle
      <3>3. ElfAt'
        <4> DEFINE E == ElfPages(f)
                   P == AllPages
                   d == Len(E) - Len(E)
        <4>1. E \in Seq(P)
          BY ElfPagesFacts
        <4> HIDE DEF E, P
        <4>2. d = 0 /\ d \in Nat /\ 1 .. d = {} /\ \A i \in 1 .. Len(E) : E[i] = E[d + i]
          <5>1. Len(E) \in Nat
            BY <4>1
          <5>2. d = 0
            BY <5>1
          <5>3. \A i \in 1 .. Len(E) : d + i = i
            BY <5>1, <5>2
          <5> HIDE DEF d
          <5> QED BY <5>2, <5>3
        <4>3. entry'[t] = NoProgram /\ job'.pages = E /\ ElfPages(f) = E
          BY <2>0, <3>1, <3>2 DEF E
        <4>4. \A k \in 1 .. d : FALSE
          BY <4>2
        <4> HIDE DEF d
        <4>5. job'.task = t /\ job'.program = f /\ Len(ElfPages(job'.program)) - Len(job'.pages) = d
          BY <3>2, <4>3 DEF d
        <4> QED BY <4>2, <4>3, <4>4, <4>5 DEF ElfAt
      <3> QED BY <1>0, <3>1, <3>3, ImagesKept DEF ImageInv
    <2> QED BY <2>1, <2>2, <2>3
  <1>6. ASSUME NEW t \in Tasks, NEW at \in Addrs, NEW len \in Lens, NEW read \in BOOLEAN,
               map_virt(t, at, len, read)
        PROVE  ImageInv'
    <2>1. UNCHANGED <<alive, image, entry>> /\ (job' = job \/ job'.kind = "virt")
      BY <1>6 DEF map_virt, Return, Start, Idle
    <2> QED BY <1>1, <1>2, <2>1
  <1>7. ASSUME NEW t \in Tasks, NEW at \in Addrs, NEW len \in Lens, NEW read \in BOOLEAN,
               NEW phys \in Physs, map_phys(t, at, len, read, phys)
        PROVE  ImageInv'
    <2>1. UNCHANGED <<alive, image, entry>> /\ (job' = job \/ job'.kind = "phys")
      BY <1>7 DEF map_phys, Return, Start, Idle
    <2> QED BY <1>1, <1>2, <2>1
  <1>8. ASSUME NEW t \in Tasks, unmap(t) PROVE ImageInv'
    BY <1>2, <1>8 DEF unmap, Return
  <1>9. CASE map_page
    <2>1. job # Idle /\ alive' = alive
      BY <1>0, <1>9, PageCases
    <2>2. CASE \E c \in {"NoMemory", "MemoryAlreadyMapped"} : UNCHANGED image /\ Finish(c)
      <3>1. job' = Idle /\ entry' = entry
        BY <2>2 DEF Finish
      <3> QED BY <1>1, <2>1, <2>2, <3>1
    <2>3. ASSUME NEW x, MapsPage(x) PROVE ImageInv'
      <3>1. CASE job.kind = "elf"
        BY <2>1, <2>3, <3>1, ElfPage
      <3>2. CASE job.kind # "elf"
        <4>1. image' = image
          BY <2>3, <3>2 DEF MapsPage
        <4>2. entry' = entry /\ (job' = Idle \/ job'.kind = job.kind)
          <5>1. CASE Finish("Ok")
            BY <3>2, <5>1 DEF Finish
          <5>2. CASE job' = [job EXCEPT !.pages = Tail(@), !.frame = @ + 1] /\ UNCHANGED <<entry, halted>>
            <6>1. job'.kind = job.kind
              BY <5>2
            <6> QED BY <5>2, <6>1
          <5> QED BY <2>3, <5>1, <5>2 DEF MapsPage
        <4> QED BY <1>1, <2>1, <3>2, <4>1, <4>2
      <3> QED BY <3>1, <3>2
    <2> QED BY <1>0, <1>9, <2>2, <2>3, PageCases
  <1>10. CASE UNCHANGED vars
    BY <1>2, <1>10 DEF vars
  <1>11. CASE kernel_page
    BY <1>1, <1>11 DEF kernel_page
  <1>12. CASE kernel_alloc \/ \E f \in Frames : kernel_free(f)
    BY <1>2, <1>12 DEF kernel_alloc, kernel_free
  <1> QED BY <1>3, <1>4, <1>5, <1>6, <1>7, <1>8, <1>9, <1>10, <1>11, <1>12 DEF Next, Halted

\* A program that runs has all its pages, and the first page of each of its segments
\* holds what the file says, whatever the alignment and the sizes (of a segment that
\* does not wrap around the end of the addresses).
THEOREM FirstPagesLoaded ==
  Spec => []FirstPagesRight
  <1>1. Init => ImageInv
    BY DEF Init, ImageInv, ElfAt, ImageAt
  <1>2. ImageInv /\ IInv => FirstPagesRight
    BY DEF ImageInv, ImageAt, ImageRight, FirstPagesRight, Running, IInv, Shape
  <1> QED BY <1>1, <1>2, ImageStep, Invariant, PTL DEF Spec

===============================================================================
