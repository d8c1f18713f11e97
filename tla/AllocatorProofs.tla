----------------------------- MODULE AllocatorProofs -----------------------------
(***************************************************************************)
(* Proofs about both allocators, for every size of the heap, every set of  *)
(* layouts and every list of block sizes.                                  *)
(***************************************************************************)
EXTENDS MCAllocators, FiniteSetTheorems, TLAPS

-------------------------------------------------------------------------------
(* Multiples and alignment.                                                *)

Pos == Nat \ {0}

LEMMA DivFacts ==
  ASSUME NEW x \in Int, NEW a \in Pos
  PROVE  /\ x \div a \in Int /\ x % a \in Int
         /\ x = a * (x \div a) + (x % a)
         /\ 0 <= x % a /\ x % a < a
  <1>0. a \in Int /\ a > 0
    BY DEF Pos
  <1>1. x \div a \in Int /\ x % a \in Int
    BY <1>0
  <1>2. 0 <= x % a /\ x % a < a
    BY <1>0
  <1>3. x = a * (x \div a) + (x % a)
    BY <1>0
  <1> QED BY <1>1, <1>2, <1>3

LEMMA AtLeast ==
  ASSUME NEW k \in Int, NEW a \in Pos
  PROVE  /\ k >= 1 => a * k >= a
         /\ k <= -1 => a * k <= -a
         /\ k = 0 => a * k = 0
         /\ a * k \in Int
  BY DEF Pos

LEMMA MultipleMod ==
  ASSUME NEW k \in Int, NEW a \in Pos
  PROVE  (a * k) % a = 0
  <1> DEFINE x == a * k
             q == x \div a
             r == x % a
  <1>1. x \in Int
    BY AtLeast
  <1> HIDE DEF x
  <1>2. q \in Int /\ r \in Int /\ x = a * q + r /\ 0 <= r /\ r < a /\ a \in Int
    BY <1>1, DivFacts DEF Pos
  <1> HIDE DEF q, r
  <1>3. a * k = a * q + r
    BY <1>2 DEF x
  <1>4. a * (k - q) = r
    BY <1>2, <1>3
  <1>5. k - q \in Int
    BY <1>2
  <1>6. k - q = 0
    BY <1>2, <1>4, <1>5, AtLeast
  <1> QED BY <1>4, <1>5, <1>6, AtLeast DEF r, x

\* What is a multiple has a factor.
LEMMA Factor ==
  ASSUME NEW x \in Int, NEW a \in Pos, x % a = 0
  PROVE  x \div a \in Int /\ x = a * (x \div a)
  <1> DEFINE q == x \div a
  <1>1. q \in Int /\ x = a * q + 0
    BY DivFacts
  <1> HIDE DEF q
  <1>2. a * q \in Int
    BY <1>1, AtLeast
  <1>3. x = a * q
    BY <1>1, <1>2
  <1> QED BY <1>1, <1>3 DEF q

LEMMA DividesSum ==
  ASSUME NEW x \in Int, NEW y \in Int, NEW a \in Pos, x % a = 0, y % a = 0
  PROVE  (x + y) % a = 0
  <1> DEFINE p == x \div a
             q == y \div a
  <1>1. p \in Int /\ q \in Int /\ x = a * p /\ y = a * q
    BY Factor
  <1> HIDE DEF p, q
  <1>2. x + y = a * (p + q) /\ p + q \in Int
    BY <1>1 DEF Pos
  <1> QED BY <1>2, MultipleMod

LEMMA DividesThrough ==
  ASSUME NEW x \in Int, NEW a \in Pos, NEW b \in Pos, x % b = 0, b % a = 0
  PROVE  x % a = 0
  <1> DEFINE p == x \div b
             q == b \div a
  <1>1. p \in Int /\ q \in Int /\ x = b * p /\ b = a * q
    BY Factor DEF Pos
  <1> HIDE DEF p, q
  <1>2. x = a * (q * p) /\ q * p \in Int
    BY <1>1 DEF Pos
  <1> QED BY <1>2, MultipleMod

\* align_up gives the least multiple that is not below.
LEMMA AlignUp ==
  ASSUME NEW x \in Nat, NEW a \in Pos
  PROVE  /\ align_up(x, a) \in Nat /\ align_up(x, a) % a = 0
         /\ x <= align_up(x, a) /\ align_up(x, a) < x + a
         /\ x % a = 0 => align_up(x, a) = x
  <1> DEFINE y == x + a - 1
             q == y \div a
             r == y % a
             u == align_up(x, a)
  <1>0. a \in Int /\ a >= 1
    BY DEF Pos
  <1>1. y \in Int /\ y = (x + a) - 1
    BY <1>0
  <1> HIDE DEF y
  <1>2. q \in Int /\ r \in Int /\ y = a * q + r /\ 0 <= r /\ r < a
    BY <1>1, DivFacts
  <1>3. u = q * a
    BY DEF align_up, y
  <1> HIDE DEF q, r, u
  <1>4. u = a * q /\ a * q \in Int
    BY <1>0, <1>2, <1>3
  <1>5. u % a = 0
    BY <1>2, <1>4, MultipleMod
  <1>6. u = y - r /\ x <= u /\ u < x + a
    BY <1>0, <1>1, <1>2, <1>4
  <1>7. u \in Nat
    BY <1>4, <1>6
  <1>8. ASSUME x % a = 0 PROVE u = x
    <2> DEFINE p == x \div a
    <2>1. p \in Int /\ x = a * p
      BY <1>8, Factor
    <2> HIDE DEF p
    <2>2. a * (q - p) = u - x /\ q - p \in Int
      BY <1>0, <1>2, <1>4, <2>1
    <2>3. q - p = 0
      BY <1>0, <1>6, <1>7, <2>2, AtLeast
    <2> QED BY <1>7, <2>2, <2>3, AtLeast
  <1> QED BY <1>5, <1>6, <1>7, <1>8 DEF u

LEMMA MaxTwo ==
  ASSUME NEW a \in Int, NEW b \in Int
  PROVE  /\ Max({a, b}) = IF a >= b THEN a ELSE b
         /\ Max({a, b}) \in {a, b} /\ Max({a, b}) >= a /\ Max({a, b}) >= b
  <1>1. \E x \in {a, b} : \A y \in {a, b} : x >= y
    <2>1. CASE a >= b
      BY <2>1
    <2>2. CASE ~ (a >= b)
      BY <2>2
    <2> QED BY <2>1, <2>2
  <1> DEFINE m == Max({a, b})
  <1>2. m \in {a, b} /\ \A y \in {a, b} : m >= y
    BY <1>1 DEF Max
  <1> HIDE DEF m
  <1> QED BY <1>2 DEF m

-------------------------------------------------------------------------------
(* The linked list: layouts and units.                                     *)

LEMMA LayoutFacts ==
  ASSUME NEW l \in Layouts
  PROVE  /\ l.size \in Pos /\ l.align \in Pos
         /\ NodeSize \in Pos /\ NodeAlign \in Pos /\ NodeSize % NodeAlign = 0 /\ HeapSize \in Nat
         /\ l.align <= NodeAlign => NodeAlign % l.align = 0
         /\ NodeAlign <= l.align => l.align % NodeAlign = 0
  <1>1. l \in LayoutT
    BY HeapAssumption
  <1>2. l.size \in Pos /\ l.align \in Pos
    BY <1>1 DEF LayoutT, Pos
  <1>3. NodeSize \in Pos /\ NodeAlign \in Pos /\ NodeSize % NodeAlign = 0 /\ HeapSize \in Nat
    BY HeapAssumption DEF Pos
  <1> DEFINE A == {x.align : x \in Layouts} \cup {NodeAlign}
  <1>4. l.align \in A /\ NodeAlign \in A
    OBVIOUS
  <1>5. \A a, b \in A : a <= b => b % a = 0
    BY HeapAssumption
  <1> HIDE DEF A
  <1> QED BY <1>2, <1>3, <1>4, <1>5

LEMMA ModSelf ==
  ASSUME NEW a \in Pos
  PROVE  a % a = 0
  <1>1. (a * 1) % a = 0
    BY MultipleMod
  <1>2. a * 1 = a
    BY DEF Pos
  <1> QED BY <1>1, <1>2

\* The memory size_align reserves holds the layout and, once it is free, a node.
LEMMA SizeAlign ==
  ASSUME NEW l \in Layouts
  PROVE  LET q == size_align(l)
         IN  /\ q.align \in Pos /\ q.align % NodeAlign = 0 /\ q.align % l.align = 0
             /\ q.align = l.align \/ (q.align = NodeAlign /\ l.align <= NodeAlign)
             /\ q.size \in Pos /\ l.size <= q.size /\ NodeSize <= q.size
             /\ q.size % NodeAlign = 0
  <1> DEFINE q == size_align(l)
             al == Max({l.align, NodeAlign})
             up == align_up(l.size, al)
             n == Max({up, NodeSize})
  <1>0. /\ l.size \in Pos /\ l.align \in Pos
        /\ NodeSize \in Pos /\ NodeAlign \in Pos /\ NodeSize % NodeAlign = 0
        /\ l.align <= NodeAlign => NodeAlign % l.align = 0
        /\ NodeAlign <= l.align => l.align % NodeAlign = 0
        /\ l.align % l.align = 0 /\ NodeAlign % NodeAlign = 0
    BY LayoutFacts, ModSelf
  <1>00. /\ l.size \in Nat /\ l.size >= 1 /\ l.align \in Int /\ NodeAlign \in Int
         /\ NodeSize \in Int /\ NodeSize >= 1
    BY <1>0 DEF Pos
  <1>1. q.align = al /\ q.size = n
    BY DEF size_align
  <1>2. al \in {l.align, NodeAlign} /\ al >= l.align /\ al >= NodeAlign
    <2> DEFINE a == l.align
    <2>1. a \in Int /\ NodeAlign \in Int
      BY <1>00
    <2> HIDE DEF a
    <2>2. Max({a, NodeAlign}) \in {a, NodeAlign} /\ Max({a, NodeAlign}) >= a
          /\ Max({a, NodeAlign}) >= NodeAlign
      BY <2>1, MaxTwo
    <2> QED BY <2>2 DEF a
  <1> HIDE DEF al
  <1>3. al = l.align \/ (al = NodeAlign /\ l.align <= NodeAlign)
    BY <1>00, <1>2
  <1>4. al \in Pos /\ al % NodeAlign = 0 /\ al % l.align = 0
    BY <1>0, <1>00, <1>2, <1>3
  <1>5. up \in Nat /\ up % al = 0 /\ l.size <= up
    BY <1>00, <1>4, AlignUp
  <1>6. up % NodeAlign = 0
    BY <1>0, <1>4, <1>5, DividesThrough
  <1> HIDE DEF up
  <1>7. n \in {up, NodeSize} /\ n >= up /\ n >= NodeSize
    <2>1. up \in Int /\ NodeSize \in Int
      BY <1>00, <1>5
    <2> QED BY <2>1, MaxTwo
  <1> HIDE DEF n, q
  <1>8. n \in Pos /\ l.size <= n /\ NodeSize <= n
    BY <1>00, <1>5, <1>7 DEF Pos
  <1>9. n % NodeAlign = 0
    BY <1>0, <1>6, <1>7
  <1> QED BY <1>1, <1>3, <1>4, <1>8, <1>9 DEF q

LEMMA UnitsIn ==
  ASSUME NEW s \in Int, NEW n \in Int, NEW u
  PROVE  u \in Units(s, n) <=> u \in Int /\ s <= u /\ u < s + n
  <1>1. Units(s, n) = s .. (s + n) - 1
    <2>1. s + n - 1 = (s + n) - 1
      OBVIOUS
    <2> QED BY <2>1 DEF Units
  <1> QED BY <1>1

-------------------------------------------------------------------------------
(* Lists of regions, apart from each other and from the blocks in use.     *)

RegionT == [start : Nat, size : Nat]
LiveT   == [start : Nat, layout : Layouts]
UnitsOf(r) == Units(r.start, r.size)
Heap == 0 .. HeapSize - 1

Fits(r, lv) == /\ UnitsOf(r) \subseteq Heap
               /\ Sound(r.start, r.size)
               /\ \A b \in lv : UnitsOf(r) \cap Reserved(b) = {}
ListOK(rs, lv) ==
  /\ rs \in Seq(RegionT)
  /\ \A i \in 1 .. Len(rs) : Fits(rs[i], lv)
  /\ \A i, j \in 1 .. Len(rs) : i # j => UnitsOf(rs[i]) \cap UnitsOf(rs[j]) = {}

RegionsOf(rs) == UNION {UnitsOf(rs[i]) : i \in 1 .. Len(rs)}

LEMMA ConsFacts ==
  ASSUME NEW S, NEW rs \in Seq(S), NEW x \in S
  PROVE  LET c == <<x>> \o rs
         IN  /\ c \in Seq(S) /\ Len(c) = Len(rs) + 1 /\ Len(rs) \in Nat /\ c[1] = x
             /\ \A i \in 1 .. Len(rs) : c[i + 1] = rs[i]
             /\ \A i \in 2 .. Len(rs) + 1 : i - 1 \in 1 .. Len(rs) /\ c[i] = rs[i - 1]
  <1> DEFINE c == <<x>> \o rs
             n == Len(rs)
  <1>1. <<x>> \in Seq(S) /\ Len(<<x>>) = 1 /\ <<x>>[1] = x /\ n \in Nat
    OBVIOUS
  <1>2. c \in Seq(S) /\ Len(c) = 1 + n
    BY <1>1
  <1>3. c[1] = x
    BY <1>1
  <1>4. ASSUME NEW i \in 2 .. n + 1 PROVE i - 1 \in 1 .. n /\ c[i] = rs[i - 1]
    <2>1. i > 1 /\ i <= 1 + n /\ i - 1 \in 1 .. n /\ i \in 1 .. 1 + n
      BY <1>1
    <2> QED BY <1>1, <2>1
  <1>5. ASSUME NEW i \in 1 .. n PROVE c[i + 1] = rs[i]
    <2>1. i + 1 \in 2 .. n + 1 /\ (i + 1) - 1 = i
      BY <1>1
    <2> HIDE DEF c
    <2> QED BY <1>4, <2>1
  <1> HIDE DEF c, n
  <1>6. Len(c) = n + 1
    BY <1>1, <1>2
  <1> QED BY <1>1, <1>2, <1>3, <1>4, <1>5, <1>6 DEF c, n

LEMMA RemoveFacts ==
  ASSUME NEW S, NEW hs \in Seq(S), NEW p \in 1 .. Len(hs)
  PROVE  /\ RemoveAt(hs, p) \in Seq(S) /\ Len(RemoveAt(hs, p)) = Len(hs) - 1 /\ Len(hs) \in Nat
         /\ \A i \in 1 .. Len(hs) - 1 :
              RemoveAt(hs, p)[i] = hs[IF i < p THEN i ELSE i + 1]
  <1> DEFINE a == SubSeq(hs, 1, p - 1)
             b == SubSeq(hs, p + 1, Len(hs))
             n == Len(hs)
  <1>0. n \in Nat /\ p \in Nat /\ p >= 1 /\ p <= n
    OBVIOUS
  <1>1. RemoveAt(hs, p) = a \o b
    BY DEF RemoveAt
  <1>2. a \in Seq(S) /\ Len(a) = p - 1 /\ \A i \in 1 .. p - 1 : a[i] = hs[i]
    <2>1. p - 1 \in Nat /\ p - 1 <= n /\ \A i \in 1 .. p - 1 : i \in 1 .. n
      BY <1>0
    <2> QED BY <1>0, <2>1
  <1>3. b \in Seq(S) /\ Len(b) = n - p /\ \A i \in 1 .. n - p : b[i] = hs[p + i]
    <2>1. n - p \in Nat /\ \A i \in 1 .. n - p : p + i \in 1 .. n /\ (p + 1) + i - 1 = p + i
      BY <1>0
    <2> QED BY <1>0, <2>1
  <1> HIDE DEF a, b, n
  <1>4. a \o b \in Seq(S) /\ Len(a \o b) = n - 1
    <2>0. a \in Seq(S) /\ b \in Seq(S)
      BY <1>2, <1>3
    <2>1. a \o b \in Seq(S) /\ Len(a \o b) = Len(a) + Len(b)
      BY <2>0
    <2> QED BY <1>0, <1>2, <1>3, <2>1
  <1>5. ASSUME NEW i \in 1 .. n - 1 PROVE (a \o b)[i] = hs[IF i < p THEN i ELSE i + 1]
    <2>1. CASE i < p
      <3>1. i \in 1 .. p - 1
        BY <1>0, <2>1
      <3>2. (a \o b)[i] = a[i]
        BY <1>0, <1>2, <1>3, <3>1
      <3> QED BY <1>2, <2>1, <3>1, <3>2
    <2>2. CASE ~ (i < p)
      <3> DEFINE j == i - (p - 1)
      <3>1. j \in 1 .. n - p /\ p + j = i + 1 /\ i = (p - 1) + j
        BY <1>0, <2>2
      <3>2. (a \o b)[i] = b[j]
        <4>1. i > Len(a) /\ i <= Len(a) + Len(b) /\ i - Len(a) = j
          BY <1>0, <1>2, <1>3, <2>2, <3>1
        <4> QED BY <1>2, <1>3, <4>1
      <3> HIDE DEF j
      <3> QED BY <1>3, <2>2, <3>1, <3>2
    <2> QED BY <2>1, <2>2
  <1> QED BY <1>0, <1>1, <1>4, <1>5 DEF n

\* A region put in front of a list it is apart from.
LEMMA Put ==
  ASSUME NEW lv, NEW rs, ListOK(rs, lv), NEW x \in RegionT, Fits(x, lv),
         \A i \in 1 .. Len(rs) : UnitsOf(x) \cap UnitsOf(rs[i]) = {}
  PROVE  ListOK(<<x>> \o rs, lv) /\ RegionsOf(<<x>> \o rs) = UnitsOf(x) \cup RegionsOf(rs)
  <1> DEFINE c == <<x>> \o rs
             n == Len(rs)
             S == RegionT
  <1> HIDE DEF S
  <1>1. /\ c \in Seq(S) /\ Len(c) = n + 1 /\ n \in Nat /\ c[1] = x
        /\ \A i \in 1 .. n : c[i + 1] = rs[i]
        /\ \A i \in 2 .. n + 1 : i - 1 \in 1 .. n /\ c[i] = rs[i - 1]
    BY ConsFacts DEF ListOK, S
  <1> HIDE DEF c, n
  <1>2. \A i \in 1 .. n + 1 : i = 1 \/ i \in 2 .. n + 1
    BY <1>1
  <1>3. ASSUME NEW i \in 1 .. n + 1 PROVE Fits(c[i], lv)
    BY <1>1, <1>2 DEF ListOK, n
  <1>4. ASSUME NEW i \in 1 .. n + 1, NEW j \in 1 .. n + 1, i # j
        PROVE  UnitsOf(c[i]) \cap UnitsOf(c[j]) = {}
    <2>1. CASE i = 1
      <3>1. j \in 2 .. n + 1
        BY <1>2, <1>4, <2>1
      <3> QED BY <1>1, <2>1, <3>1 DEF n
    <2>2. CASE j = 1
      <3>1. i \in 2 .. n + 1
        BY <1>2, <1>4, <2>2
      <3> QED BY <1>1, <2>2, <3>1 DEF n
    <2>3. CASE i # 1 /\ j # 1
      <3>1. i - 1 \in 1 .. n /\ j - 1 \in 1 .. n /\ i - 1 # j - 1 /\ c[i] = rs[i - 1] /\ c[j] = rs[j - 1]
        BY <1>1, <1>2, <1>4, <2>3
      <3> QED BY <3>1 DEF ListOK, n
    <2> QED BY <2>1, <2>2, <2>3
  <1>5. ListOK(c, lv)
    BY <1>1, <1>3, <1>4 DEF ListOK, S
  <1>6. RegionsOf(c) = UnitsOf(x) \cup RegionsOf(rs)
    <2>1. ASSUME NEW u \in RegionsOf(c) PROVE u \in UnitsOf(x) \cup RegionsOf(rs)
      <3>1. PICK i \in 1 .. n + 1 : u \in UnitsOf(c[i])
        BY <1>1, <2>1 DEF RegionsOf
      <3> QED BY <1>1, <1>2, <3>1 DEF RegionsOf, n
    <2>2. ASSUME NEW u \in UnitsOf(x) \cup RegionsOf(rs) PROVE u \in RegionsOf(c)
      <3>1. CASE u \in UnitsOf(x)
        <4>1. 1 \in 1 .. n + 1
          BY <1>1
        <4> QED BY <1>1, <3>1, <4>1 DEF RegionsOf
      <3>2. CASE u \in RegionsOf(rs)
        <4>1. PICK i \in 1 .. n : u \in UnitsOf(rs[i])
          BY <3>2 DEF RegionsOf, n
        <4>2. i + 1 \in 1 .. n + 1 /\ c[i + 1] = rs[i]
          BY <1>1
        <4> QED BY <1>1, <4>1, <4>2 DEF RegionsOf
      <3> QED BY <2>2, <3>1, <3>2
    <2> QED BY <2>1, <2>2
  <1> QED BY <1>5, <1>6 DEF c

\* A region taken out of a list: the others stay apart from it.
LEMMA TakenOut ==
  ASSUME NEW lv, NEW rs, ListOK(rs, lv), NEW p \in 1 .. Len(rs)
  PROVE  LET c == RemoveAt(rs, p)
         IN  /\ ListOK(c, lv)
             /\ \A i \in 1 .. Len(c) : UnitsOf(rs[p]) \cap UnitsOf(c[i]) = {}
             /\ RegionsOf(rs) = UnitsOf(rs[p]) \cup RegionsOf(c)
  <1> DEFINE c == RemoveAt(rs, p)
             n == Len(rs)
             S == RegionT
             At(i) == IF i < p THEN i ELSE i + 1
  <1> HIDE DEF S
  <1>1. /\ c \in Seq(S) /\ Len(c) = n - 1 /\ n \in Nat
        /\ \A i \in 1 .. n - 1 : c[i] = rs[At(i)]
    BY RemoveFacts DEF ListOK, S
  <1> HIDE DEF c, n
  <1>2. p \in 1 .. n
    BY DEF n
  <1>3. /\ \A i \in 1 .. n - 1 : At(i) \in 1 .. n /\ At(i) # p
        /\ \A i, j \in 1 .. n - 1 : i # j => At(i) # At(j)
    BY <1>1, <1>2
  <1>4. \A k \in 1 .. n : k # p => \E i \in 1 .. n - 1 : At(i) = k
    <2> SUFFICES ASSUME NEW k \in 1 .. n, k # p PROVE \E i \in 1 .. n - 1 : At(i) = k
      OBVIOUS
    <2>1. CASE k < p
      <3>1. k \in 1 .. n - 1 /\ At(k) = k
        BY <1>1, <1>2, <2>1
      <3> HIDE DEF At
      <3> QED BY <3>1
    <2>2. CASE ~ (k < p)
      <3>1. k - 1 \in 1 .. n - 1 /\ At(k - 1) = k
        BY <1>1, <1>2, <2>2
      <3> HIDE DEF At
      <3> QED BY <3>1
    <2> QED BY <2>1, <2>2
  <1> HIDE DEF At
  <1>5. ListOK(c, lv)
    <2>1. \A i \in 1 .. n - 1 : Fits(c[i], lv)
      BY <1>1, <1>3 DEF ListOK, n
    <2>2. \A i, j \in 1 .. n - 1 : i # j => UnitsOf(c[i]) \cap UnitsOf(c[j]) = {}
      BY <1>1, <1>3 DEF ListOK, n
    <2> QED BY <1>1, <2>1, <2>2 DEF ListOK, S
  <1>6. \A i \in 1 .. Len(c) : UnitsOf(rs[p]) \cap UnitsOf(c[i]) = {}
    BY <1>1, <1>2, <1>3 DEF ListOK, n
  <1>7. ASSUME NEW u \in RegionsOf(rs) PROVE u \in UnitsOf(rs[p]) \cup RegionsOf(c)
    <2>1. PICK k \in 1 .. n : u \in UnitsOf(rs[k])
      BY <1>7 DEF RegionsOf, n
    <2>2. CASE k = p
      BY <2>1, <2>2
    <2>3. CASE k # p
      <3>1. PICK i \in 1 .. n - 1 : At(i) = k
        BY <1>4, <2>3
      <3>2. u \in UnitsOf(c[i]) /\ i \in 1 .. Len(c)
        BY <1>1, <2>1, <3>1
      <3> QED BY <3>2 DEF RegionsOf
    <2> QED BY <2>2, <2>3
  <1>8. ASSUME NEW u \in UnitsOf(rs[p]) \cup RegionsOf(c) PROVE u \in RegionsOf(rs)
    <2>1. CASE u \in UnitsOf(rs[p])
      BY <2>1 DEF RegionsOf
    <2>2. CASE u \in RegionsOf(c)
      <3>1. PICK i \in 1 .. n - 1 : u \in UnitsOf(c[i])
        BY <1>1, <2>2 DEF RegionsOf
      <3>2. u \in UnitsOf(rs[At(i)]) /\ At(i) \in 1 .. Len(rs)
        BY <1>1, <1>3, <3>1 DEF n
      <3> QED BY <3>2 DEF RegionsOf
    <2> QED BY <1>8, <2>1, <2>2
  <1> QED BY <1>5, <1>6, <1>7, <1>8 DEF c

-------------------------------------------------------------------------------
(* The linked list: the inductive invariant, and what a call does to it.   *)

BlockAt(b) == b.start % NodeAlign = 0 /\ b.start % b.layout.align = 0 /\ Reserved(b) \subseteq Heap

ListInv ==
  /\ ~ panicked
  /\ live \in SUBSET LiveT
  /\ \A b \in live : BlockAt(b)
  /\ \A b, c \in live : b # c => Reserved(b) \cap Reserved(c) = {}
  /\ ListOK(regions, live)

\* The free region of an allocation, cut: nothing or less than the alignment is in
\* front of it, nothing or room for a node behind it.
LEMMA Cut ==
  ASSUME NEW l \in Layouts, NEW r \in RegionT, Sound(r.start, r.size),
         alloc_from_region(r, size_align(l))
  PROVE  LET q == size_align(l)
             from == align_up(r.start, q.align)
             to == from + q.size
             rest == excess(r, to)
         IN  /\ from \in Nat /\ to \in Nat /\ rest \in Nat /\ q.size \in Pos
             /\ from % NodeAlign = 0 /\ from % l.align = 0 /\ to % NodeAlign = 0
             /\ r.start <= from /\ (from = r.start \/ from - r.start < l.align)
             /\ to + rest = r.start + r.size
             /\ rest = 0 \/ rest >= NodeSize
             /\ l.size <= q.size
  <1> DEFINE q == size_align(l)
             s == r.start
             n == r.size
             from == align_up(s, q.align)
             to == from + q.size
             rest == excess(r, to)
  <1>1. /\ q.align \in Pos /\ q.align % NodeAlign = 0 /\ q.align % l.align = 0
        /\ q.align = l.align \/ (q.align = NodeAlign /\ l.align <= NodeAlign)
        /\ q.size \in Pos /\ l.size <= q.size /\ NodeSize <= q.size
        /\ q.size % NodeAlign = 0
    BY SizeAlign
  <1>2. l.align \in Pos /\ NodeAlign \in Pos /\ NodeSize \in Pos
    BY LayoutFacts
  <1>3. s \in Nat /\ n \in Nat
    BY DEF RegionT
  <1>4. align_up(s, NodeAlign) = s
    BY DEF Sound
  <1>5. alloc_from_region(r, q)
    OBVIOUS
  <1> HIDE DEF q, s
  <1>6. s % NodeAlign = 0
    BY <1>2, <1>3, <1>4, AlignUp
  <1>7. /\ from \in Nat /\ from % q.align = 0 /\ s <= from /\ from < s + q.align
        /\ s % q.align = 0 => from = s
    BY <1>1, <1>3, AlignUp
  <1>8. (s + n) - (from + q.size) = 0 \/ (s + n) - (from + q.size) >= NodeSize
    <2>1. r.start + r.size - (align_up(r.start, q.align) + q.size) = 0
          \/ r.start + r.size - (align_up(r.start, q.align) + q.size) >= NodeSize
      BY <1>5 DEF alloc_from_region
    <2>2. q.size \in Int /\ from \in Int
      BY <1>1, <1>7 DEF Pos
    <2> HIDE DEF from
    <2>3. s + n - (from + q.size) = (s + n) - (from + q.size)
      BY <1>3, <2>2
    <2> QED BY <2>1, <2>3 DEF s, from
  <1> HIDE DEF from
  <1>9. from % NodeAlign = 0 /\ from % l.align = 0
    BY <1>1, <1>2, <1>7, DividesThrough
  <1>10. to \in Nat /\ to % NodeAlign = 0
    <2>1. q.size \in Nat
      BY <1>1 DEF Pos
    <2>2. (from + q.size) % NodeAlign = 0
      BY <1>1, <1>2, <1>7, <1>9, <2>1, DividesSum, SMTT(30)
    <2> QED BY <1>7, <2>1, <2>2
  <1>11. rest = (s + n) - to
    <2> HIDE DEF to
    <2>1. s + n - to = (s + n) - to
      BY <1>3, <1>10
    <2> QED BY <2>1 DEF excess, s
  <1>12. rest \in Nat /\ (rest = 0 \/ rest >= NodeSize) /\ to + rest = s + n
    <2>1. NodeSize \in Nat
      BY <1>2 DEF Pos
    <2>2. rest = 0 \/ rest >= NodeSize
      BY <1>8, <1>11
    <2> HIDE DEF to, rest
    <2> QED BY <1>3, <1>10, <1>11, <2>1, <2>2
  <1>13. from = s \/ from - s < l.align
    <2>1. CASE q.align = NodeAlign
      BY <1>6, <1>7, <2>1
    <2>2. CASE q.align = l.align
      <3>1. l.align \in Int
        BY <1>2 DEF Pos
      <3> QED BY <1>3, <1>7, <2>2, <3>1
    <2> QED BY <1>1, <2>1, <2>2
  <1> HIDE DEF to, rest
  <1> QED BY <1>1, <1>7, <1>9, <1>10, <1>12, <1>13 DEF s, from, to, rest, q

ReservedAll(lv) == UNION {Reserved(b) : b \in lv}

LEMMA LostIs ==
  /\ Lost = Heap \ (ReservedAll(live) \cup RegionsOf(regions))
  /\ Lost' = Heap \ (ReservedAll(live') \cup RegionsOf(regions'))
  BY DEF Lost, Heap, ReservedAll, RegionsOf, Region, RegionUnits, UnitsOf

\* A set of numbers that is not empty has a least one.
LEMMA LeastExists ==
  ASSUME NEW S \in SUBSET Nat, S # {}
  PROVE  \E m \in S : \A n \in S : m <= n
  <1> DEFINE T == {0 .. n : n \in S}
             R == StrictSubsetOrdering(Nat)
  <1>1. \A n \in S : 0 .. n \in FiniteSubsetsOf(Nat)
    BY FS_Interval DEF FiniteSubsetsOf
  <1>2. T \subseteq FiniteSubsetsOf(Nat) /\ T # {}
    BY <1>1
  <1>3. IsWellFoundedOn(R, FiniteSubsetsOf(Nat))
    BY FS_StrictSubsetOrderingWellFounded
  <1> HIDE DEF T, R
  <1>4. PICK x \in T : \A y \in T : ~ (<<y, x>> \in R)
    BY <1>2, <1>3, WFMin
  <1>5. PICK m \in S : x = 0 .. m
    BY <1>4 DEF T
  <1>6. ASSUME NEW n \in S, n < m PROVE FALSE
    <2>1. 0 .. n \in T
      BY DEF T
    <2>2. 0 .. n \subseteq 0 .. m /\ m \in 0 .. m /\ m \notin 0 .. n
      BY <1>6
    <2>3. <<0 .. n, 0 .. m>> \in R
      <3>1. 0 .. n \in SUBSET Nat /\ 0 .. m \in SUBSET Nat
        OBVIOUS
      <3> QED BY <2>2, <3>1 DEF R, StrictSubsetOrdering
    <2> QED BY <1>4, <1>5, <2>1, <2>3
  <1> QED BY <1>6

\* The least of a set of places in a sequence, as SelectInSeq finds it.
LEMMA MinPlace ==
  ASSUME NEW I \in SUBSET Nat, I # {}
  PROVE  Min(I) \in I /\ \A j \in I : Min(I) <= j
  <1>1. \E m \in I : \A n \in I : m <= n
    BY LeastExists
  <1> QED BY <1>1 DEF Min

LEMMA FoundRegion ==
  ASSUME regions \in Seq(RegionT), NEW q, find_region(q) # 0
  PROVE  find_region(q) \in 1 .. Len(regions) /\ alloc_from_region(regions[find_region(q)], q)
  <1> DEFINE I == {i \in 1 .. Len(regions) : alloc_from_region(regions[i], q)}
  <1>1. find_region(q) = IF I # {} THEN Min(I) ELSE 0
    BY DEF find_region, SelectInSeq
  <1>2. I \in SUBSET Nat
    OBVIOUS
  <1>3. I # {} => Min(I) \in I
    <2> HIDE DEF I
    <2> QED BY <1>2, MinPlace
  <1> QED BY <1>1, <1>3

\* An allocation: the invariant stays, the promise is kept, and only padding is lost.
LEMMA ListAlloc ==
  ASSUME ListInv, NEW l \in Layouts, list_alloc(l)
  PROVE  ListInv' /\ (UNCHANGED live \/ alloc(l)) /\ LosesOnlyPadding
  <1> DEFINE q == size_align(l)
             i == find_region(q)
             r == regions[i]
             from == align_up(r.start, q.align)
             to == from + q.size
             rest == excess(r, to)
             b == [start |-> from, layout |-> l]
             c == RemoveAt(regions, i)
             x == [start |-> to, size |-> rest]
  <1>1. CASE i = 0
    <2>1. UNCHANGED <<live, regions, panicked>>
      BY <1>1 DEF list_alloc, listVars
    <2>2. ListInv'
      BY <2>1 DEF ListInv
    <2>3. Lost' = Lost
      BY <2>1, LostIs
    <2> QED BY <2>1, <2>2, <2>3 DEF LosesOnlyPadding
  <1>2. CASE i # 0
    <2>1. /\ live' = live \cup {b}
          /\ IF rest > 0 THEN add_free_region(c, to, rest)
             ELSE regions' = c /\ UNCHANGED panicked
      BY <1>2 DEF list_alloc
    <2>2. i \in 1 .. Len(regions) /\ alloc_from_region(r, q)
      <3>1. regions \in Seq(RegionT)
        BY DEF ListInv, ListOK
      <3> HIDE DEF q
      <3> QED BY <1>2, <3>1, FoundRegion
    <2>3. r \in RegionT /\ Fits(r, live)
      <3> DEFINE S == RegionT
      <3>1. regions \in Seq(S) /\ Fits(r, live)
        BY <2>2 DEF ListInv, ListOK
      <3> HIDE DEF S
      <3>2. r \in S
        BY <2>2, <3>1
      <3> QED BY <3>1, <3>2 DEF S
    <2> HIDE DEF i
    <2>4. /\ from \in Nat /\ to \in Nat /\ rest \in Nat /\ q.size \in Pos
          /\ from % NodeAlign = 0 /\ from % l.align = 0 /\ to % NodeAlign = 0
          /\ r.start <= from /\ (from = r.start \/ from - r.start < l.align)
          /\ to + rest = r.start + r.size
          /\ rest = 0 \/ rest >= NodeSize
          /\ l.size <= q.size
      <3> HIDE DEF r
      <3> QED BY <2>2, <2>3, Cut DEF Fits
    <2>5. r.start \in Nat /\ r.size \in Nat /\ l.align \in Nat /\ q.size \in Nat /\ q.size > 0
          /\ NodeSize \in Nat /\ NodeSize > 0 /\ l.size \in Nat /\ l.size > 0 /\ HeapSize \in Nat
          /\ l.align > 0
      BY <2>3, <2>4, LayoutFacts DEF RegionT, Pos
    <2>6. to = from + q.size
      OBVIOUS
    <2>7. b.start = from /\ b.layout = l /\ x.start = to /\ x.size = rest
      OBVIOUS
    <2>8. Reserved(b) = Units(from, q.size) /\ UnitsOf(x) = Units(to, rest)
      BY DEF Reserved, UnitsOf
    <2>9. b \in LiveT /\ x \in RegionT
      BY <2>4 DEF LiveT, RegionT
    <2> DEFINE gap == {u \in Int : r.start <= u /\ u < from}
    <2> HIDE DEF from, to, rest, b, x, r, c
    <2>10. /\ \A u : u \in UnitsOf(r) <=> u \in Int /\ r.start <= u /\ u < r.start + r.size
           /\ \A u : u \in Reserved(b) <=> u \in Int /\ from <= u /\ u < from + q.size
           /\ \A u : u \in UnitsOf(x) <=> u \in Int /\ to <= u /\ u < to + rest
      BY <2>4, <2>5, <2>8, UnitsIn DEF UnitsOf
    <2>11. /\ Reserved(b) \subseteq UnitsOf(r) /\ UnitsOf(x) \subseteq UnitsOf(r)
           /\ gap \subseteq UnitsOf(r)
           /\ Reserved(b) \cap UnitsOf(x) = {} /\ gap \cap Reserved(b) = {} /\ gap \cap UnitsOf(x) = {}
           /\ UnitsOf(r) = gap \cup Reserved(b) \cup UnitsOf(x)
           /\ from \in Reserved(b) /\ (rest = 0 => UnitsOf(x) = {})
      <3> HIDE DEF q
      <3>1. Reserved(b) \subseteq UnitsOf(r) /\ UnitsOf(x) \subseteq UnitsOf(r) /\ gap \subseteq UnitsOf(r)
        BY <2>4, <2>5, <2>6, <2>10
      <3>2. Reserved(b) \cap UnitsOf(x) = {} /\ gap \cap Reserved(b) = {} /\ gap \cap UnitsOf(x) = {}
        BY <2>4, <2>5, <2>6, <2>10
      <3>3. ASSUME NEW u \in UnitsOf(r) PROVE u \in gap \cup Reserved(b) \cup UnitsOf(x)
        BY <2>4, <2>5, <2>6, <2>10, <3>3
      <3>4. from \in Reserved(b) /\ (rest = 0 => UnitsOf(x) = {})
        BY <2>4, <2>5, <2>6, <2>10
      <3> QED BY <3>1, <3>2, <3>3, <3>4
    <2>12. UnitsOf(r) \subseteq Heap /\ \A d \in live : UnitsOf(r) \cap Reserved(d) = {}
      BY <2>3 DEF Fits
    <2> HIDE DEF gap
    <2>13. b \notin live
      BY <2>11, <2>12
    <2>14. /\ ListOK(c, live)
           /\ \A k \in 1 .. Len(c) : UnitsOf(r) \cap UnitsOf(c[k]) = {}
           /\ RegionsOf(regions) = UnitsOf(r) \cup RegionsOf(c)
      BY <2>2, TakenOut DEF ListInv, c, r
    <2>15. ListOK(c, live')
      <3>1. ASSUME NEW k \in 1 .. Len(c) PROVE Fits(c[k], live')
        <4>1. Fits(c[k], live) /\ UnitsOf(r) \cap UnitsOf(c[k]) = {}
          BY <2>14 DEF ListOK
        <4>2. UnitsOf(c[k]) \cap Reserved(b) = {}
          BY <2>11, <4>1
        <4> QED BY <2>1, <4>1, <4>2 DEF Fits
      <3> QED BY <2>14, <3>1 DEF ListOK
    <2>16. /\ ~ panicked' /\ ListOK(regions', live')
           /\ RegionsOf(regions') = UnitsOf(x) \cup RegionsOf(c)
      <3>1. CASE rest = 0
        <4>1. regions' = c /\ panicked' = panicked
          BY <2>1, <2>4, <3>1
        <4> QED BY <2>11, <2>15, <3>1, <4>1 DEF ListInv
      <3>2. CASE rest # 0
        <4>1. add_free_region(c, to, rest)
          BY <2>1, <2>4, <3>2
        <4>2. NodeAlign \in Pos
          BY LayoutFacts
        <4>3. Sound(to, rest)
          <5>1. align_up(to, NodeAlign) = to
            BY <2>4, <4>2, AlignUp
          <5> QED BY <2>4, <3>2, <5>1 DEF Sound
        <4>4. regions' = <<x>> \o c /\ panicked' = FALSE
          BY <4>1, <4>3 DEF add_free_region, x
        <4>5. Fits(x, live')
          <5>1. \A d \in live' : UnitsOf(x) \cap Reserved(d) = {}
            BY <2>1, <2>11, <2>12
          <5>2. UnitsOf(x) \subseteq Heap
            BY <2>11, <2>12
          <5> QED BY <2>7, <4>3, <5>1, <5>2 DEF Fits
        <4>6. \A k \in 1 .. Len(c) : UnitsOf(x) \cap UnitsOf(c[k]) = {}
          BY <2>11, <2>14
        <4> QED BY <2>9, <2>15, <4>4, <4>5, <4>6, Put
      <3> QED BY <3>1, <3>2
    <2>17. ListInv'
      <3>1. live' \in SUBSET LiveT
        BY <2>1, <2>9 DEF ListInv
      <3>2. BlockAt(b)
        BY <2>4, <2>7, <2>11, <2>12 DEF BlockAt
      <3>3. \A d \in live' : BlockAt(d)
        BY <2>1, <3>2 DEF ListInv
      <3>4. \A d \in live : Reserved(b) \cap Reserved(d) = {}
        BY <2>11, <2>12
      <3>5. ASSUME NEW d \in live', NEW e \in live', d # e PROVE Reserved(d) \cap Reserved(e) = {}
        BY <2>1, <3>4, <3>5 DEF ListInv
      <3> QED BY <2>16, <3>1, <3>3, <3>5 DEF ListInv
    <2>18. alloc(l)
      <3>1. Units(from, l.size) \subseteq Reserved(b)
        <4>1. \A u : u \in Units(from, l.size) <=> u \in Int /\ from <= u /\ u < from + l.size
          BY <2>4, <2>5, UnitsIn
        <4> HIDE DEF q
        <4> QED BY <2>4, <2>5, <2>10, <4>1
      <3>2. \A d \in live : Units(d.start, d.layout.size) \subseteq Reserved(d)
        <4> SUFFICES ASSUME NEW d \in live PROVE Units(d.start, d.layout.size) \subseteq Reserved(d)
          OBVIOUS
        <4> DEFINE k == size_align(d.layout).size
                   m == d.layout.size
                   s == d.start
        <4>1. d.layout \in Layouts /\ s \in Nat
          BY DEF ListInv, LiveT
        <4>2. k \in Nat /\ m \in Nat /\ m <= k
          BY <4>1, SizeAlign, LayoutFacts DEF Pos
        <4>3. Reserved(d) = Units(s, k)
          BY DEF Reserved
        <4> HIDE DEF k, m, s
        <4>4. Units(s, m) \subseteq Units(s, k)
          <5>1. /\ \A u : u \in Units(s, m) <=> u \in Int /\ s <= u /\ u < s + m
                /\ \A u : u \in Units(s, k) <=> u \in Int /\ s <= u /\ u < s + k
            BY <4>1, <4>2, UnitsIn
          <5> QED BY <4>1, <4>2, <5>1
        <4> QED BY <4>3, <4>4 DEF k, m, s
      <3>3. Units(from, l.size) \cap LiveUnits = {}
        BY <2>11, <2>12, <3>1, <3>2 DEF LiveUnits
      <3>4. from \in 0 .. HeapSize - l.size
        <4>1. (from + l.size) - 1 \in Heap
          <5>1. (from + l.size) - 1 \in Units(from, l.size)
            BY <2>4, <2>5, UnitsIn
          <5> QED BY <2>11, <2>12, <3>1, <5>1
        <4> QED BY <2>4, <2>5, <4>1 DEF Heap
      <3> QED BY <2>1, <2>4, <3>3, <3>4 DEF alloc, b
    <2>19. LosesOnlyPadding
      <3>1. ReservedAll(live') = ReservedAll(live) \cup Reserved(b)
        BY <2>1 DEF ReservedAll
      <3>2. gap \cap (ReservedAll(live') \cup RegionsOf(regions')) = {}
        <4>1. gap \cap ReservedAll(live) = {}
          BY <2>11, <2>12 DEF ReservedAll
        <4>2. gap \cap RegionsOf(c) = {}
          BY <2>11, <2>14 DEF RegionsOf
        <4> QED BY <2>11, <2>16, <3>1, <4>1, <4>2
      <3>3. Lost' = Lost \cup gap
        BY <2>11, <2>12, <2>14, <2>16, <3>1, <3>2, LostIs
      <3>4. CASE from = r.start
        <4>1. gap = {}
          BY <2>4, <2>5, <3>4 DEF gap
        <4> QED BY <3>3, <4>1 DEF LosesOnlyPadding
      <3>5. CASE from - r.start < l.align
        <4>1. gap \subseteq from - l.align + 1 .. from - 1
          BY <2>4, <2>5, <3>5 DEF gap
        <4>2. b \in live' \ live
          BY <2>1, <2>13
        <4>3. Lost \subseteq Lost' /\ Lost' \ Lost \subseteq b.start - b.layout.align + 1 .. b.start - 1
          BY <2>7, <3>3, <4>1
        <4> QED BY <4>2, <4>3 DEF LosesOnlyPadding
      <3> QED BY <2>4, <3>4, <3>5
    <2> QED BY <2>17, <2>18, <2>19
  <1> QED BY <1>1, <1>2

LEMMA ListDealloc ==
  ASSUME ListInv, NEW b \in live, list_dealloc(b)
  PROVE  ListInv' /\ dealloc(b) /\ LosesOnlyPadding
  <1> DEFINE n == size_align(b.layout).size
             x == [start |-> b.start, size |-> n]
  <1>1. live' = live \ {b} /\ add_free_region(regions, b.start, n)
    BY DEF list_dealloc
  <1>2. b.layout \in Layouts /\ b.start \in Nat
    BY DEF ListInv, LiveT
  <1>3. n \in Nat /\ NodeSize <= n /\ NodeAlign \in Pos
    BY <1>2, SizeAlign, LayoutFacts DEF Pos
  <1>4. Sound(b.start, n)
    <2>1. b.start % NodeAlign = 0
      BY DEF ListInv, BlockAt
    <2>2. align_up(b.start, NodeAlign) = b.start
      BY <1>2, <1>3, <2>1, AlignUp
    <2> QED BY <1>3, <2>2 DEF Sound
  <1>5. regions' = <<x>> \o regions /\ panicked' = FALSE
    BY <1>1, <1>4 DEF add_free_region
  <1>6. x \in RegionT /\ x.start = b.start /\ x.size = n
    BY <1>2, <1>3 DEF RegionT
  <1>7. UnitsOf(x) = Reserved(b)
    BY <1>6 DEF UnitsOf, Reserved
  <1> HIDE DEF x, n
  <1>8. ListOK(regions, live')
    BY <1>1 DEF ListInv, ListOK, Fits
  <1>9. Fits(x, live')
    <2>1. Reserved(b) \subseteq Heap /\ \A d \in live' : Reserved(b) \cap Reserved(d) = {}
      BY <1>1 DEF ListInv, BlockAt
    <2> QED BY <1>4, <1>6, <1>7, <2>1 DEF Fits
  <1>10. \A i \in 1 .. Len(regions) : UnitsOf(x) \cap UnitsOf(regions[i]) = {}
    BY <1>7 DEF ListInv, ListOK, Fits
  <1>11. ListOK(regions', live') /\ RegionsOf(regions') = UnitsOf(x) \cup RegionsOf(regions)
    BY <1>5, <1>6, <1>8, <1>9, <1>10, Put
  <1>12. ListInv'
    BY <1>1, <1>5, <1>11 DEF ListInv
  <1>13. ReservedAll(live) = ReservedAll(live') \cup Reserved(b)
    BY <1>1 DEF ReservedAll
  <1>14. Lost' = Lost
    BY <1>7, <1>11, <1>13, LostIs
  <1> QED BY <1>1, <1>12, <1>14 DEF dealloc, LosesOnlyPadding

LEMMA ListInitially ==
  ASSUME ListInit
  PROVE  ListInv
  <1> DEFINE x == [start |-> 0, size |-> HeapSize]
  <1>1. live = {} /\ regions = <<x>> /\ panicked = FALSE
    BY DEF ListInit
  <1>2. HeapSize \in Nat /\ NodeAlign \in Pos /\ HeapSize >= NodeSize
    BY HeapAssumption DEF Pos
  <1>3. x \in RegionT /\ x.start = 0 /\ x.size = HeapSize
    BY <1>2 DEF RegionT
  <1>4. UnitsOf(x) = Heap
    BY <1>2, <1>3 DEF UnitsOf, Units, Heap
  <1>5. Sound(0, HeapSize)
    <2>1. NodeAlign * 0 = 0
      BY <1>2, AtLeast
    <2>2. 0 % NodeAlign = 0
      BY <1>2, <2>1, MultipleMod
    <2>3. align_up(0, NodeAlign) = 0
      BY <1>2, <2>2, AlignUp
    <2> QED BY <1>2, <2>3 DEF Sound
  <1>6. Fits(x, {})
    BY <1>3, <1>4, <1>5 DEF Fits
  <1> DEFINE S == RegionT
  <1> HIDE DEF x, S
  <1>7. regions \in Seq(S) /\ Len(regions) = 1 /\ regions[1] = x
    BY <1>1, <1>3 DEF S
  <1>8. \A i \in 1 .. Len(regions) : i = 1
    BY <1>7
  <1>9. ListOK(regions, {})
    BY <1>6, <1>7, <1>8 DEF ListOK, S
  <1> QED BY <1>1, <1>9 DEF ListInv

-------------------------------------------------------------------------------
(* The fixed-size blocks: everything is apart from everything.             *)

NB == Len(BlockSizes)
BlockUnits(i, a) == Units(a, fallback_size(BlockSizes[i]))

\* A block in use: what is behind it holds the layout, and can be listed later.
LiveOK(b) ==
  /\ Behind(b) \subseteq Heap
  /\ b.start % b.layout.align = 0
  /\ Units(b.start, b.layout.size) \subseteq Behind(b)
  /\ list_index(b.layout) # 0 => b.start % BlockSizes[list_index(b.layout)] = 0

\* Units in no block of a list, in no block in use and in no hole.
Apart(U, lh, lv, hs) ==
  /\ U \cap hs = {}
  /\ \A b \in lv : U \cap Behind(b) = {}
  /\ \A i \in 1 .. NB : \A k \in 1 .. Len(lh[i]) : U \cap BlockUnits(i, lh[i][k]) = {}

BlocksOK(lh, lv, hs) ==
  /\ lh \in [1 .. NB -> Seq(Nat)] /\ hs \subseteq Heap /\ lv \subseteq LiveT
  /\ \A b \in lv : LiveOK(b) /\ Behind(b) \cap hs = {}
  /\ \A b, c \in lv : b # c => Behind(b) \cap Behind(c) = {}
  /\ \A i \in 1 .. NB : \A k \in 1 .. Len(lh[i]) :
       /\ lh[i][k] % BlockSizes[i] = 0
       /\ BlockUnits(i, lh[i][k]) \subseteq Heap
       /\ BlockUnits(i, lh[i][k]) \cap hs = {}
       /\ \A b \in lv : BlockUnits(i, lh[i][k]) \cap Behind(b) = {}
  /\ \A i, j \in 1 .. NB : \A k \in 1 .. Len(lh[i]), m \in 1 .. Len(lh[j]) :
       i # j \/ k # m => BlockUnits(i, lh[i][k]) \cap BlockUnits(j, lh[j][m]) = {}

BlockInv == BlocksOK(list_heads, live, holes)

\* list_index finds a size that holds the layout and has its alignment.
LEMMA ListIndex ==
  ASSUME NEW l \in Layouts
  PROVE  LET i == list_index(l)
         IN  i # 0 => /\ i \in 1 .. NB /\ BlockSizes[i] \in Pos
                      /\ l.size <= BlockSizes[i] /\ BlockSizes[i] % l.align = 0
  <1> DEFINE n == Max({l.size, l.align})
             I == {i \in 1 .. Len(BlockSizes) : BlockSizes[i] >= n}
  <1>0. l.size \in Int /\ l.align \in Int
    BY LayoutFacts DEF Pos
  <1>1. n \in Int /\ n >= l.size /\ n >= l.align
    <2> DEFINE a == l.size
               b == l.align
    <2>1. a \in Int /\ b \in Int
      BY <1>0
    <2> HIDE DEF a, b
    <2>2. Max({a, b}) \in {a, b} /\ Max({a, b}) >= a /\ Max({a, b}) >= b
      BY <2>1, MaxTwo
    <2>3. Max({a, b}) \in Int
      BY <2>1, <2>2
    <2> QED BY <2>2, <2>3 DEF a, b
  <1> HIDE DEF n
  <1>2. list_index(l) = IF I # {} THEN Min(I) ELSE 0
    BY DEF list_index, SelectInSeq, n
  <1>3. BlockSizes \in Seq(Pos)
    BY HeapAssumption DEF Pos
  <1>4. I \in SUBSET Nat
    BY <1>3
  <1>5. I # {} => Min(I) \in I
    <2> HIDE DEF I
    <2> QED BY <1>4, MinPlace
  <1>6. SUFFICES ASSUME list_index(l) # 0
                 PROVE  LET i == list_index(l)
                        IN  /\ i \in 1 .. NB /\ BlockSizes[i] \in Pos
                            /\ l.size <= BlockSizes[i] /\ BlockSizes[i] % l.align = 0
    OBVIOUS
  <1> DEFINE i == list_index(l)
  <1>7. i \in 1 .. Len(BlockSizes) /\ BlockSizes[i] >= n
    BY <1>2, <1>5, <1>6
  <1> HIDE DEF i, I
  <1>8. BlockSizes[i] \in Pos
    BY <1>3, <1>7
  <1>9. BlockSizes[i] \in Int
    BY <1>8 DEF Pos
  <1>10. l.size <= BlockSizes[i] /\ l.align <= BlockSizes[i]
    BY <1>0, <1>1, <1>7, <1>9
  <1>11. BlockSizes[i] % l.align = 0
    BY <1>7, <1>10, HeapAssumption
  <1> QED BY <1>7, <1>8, <1>10, <1>11 DEF i, NB

LEMMA FallbackSize ==
  ASSUME NEW n \in Pos
  PROVE  fallback_size(n) \in Pos /\ n <= fallback_size(n)
  <1>1. n \in Int /\ MinHole \in Int /\ n >= 1
    BY HeapAssumption DEF Pos
  <1>2. Max({n, MinHole}) \in {n, MinHole} /\ Max({n, MinHole}) >= n
    BY <1>1, MaxTwo
  <1>3. Max({n, MinHole}) \in Nat /\ HoleAlign \in Pos
    BY <1>1, <1>2, HeapAssumption DEF Pos
  <1>4. fallback_size(n) \in Nat /\ Max({n, MinHole}) <= fallback_size(n)
    BY <1>3, AlignUp DEF fallback_size
  <1> QED BY <1>1, <1>2, <1>3, <1>4 DEF Pos

\* The first block of a list leaves it.
LEMMA Popped ==
  ASSUME NEW lh, NEW lv, NEW hs, BlocksOK(lh, lv, hs), NEW i \in 1 .. NB, lh[i] # <<>>
  PROVE  LET a == Head(lh[i])
             after == [lh EXCEPT ![i] = Tail(@)]
         IN  /\ BlocksOK(after, lv, hs) /\ a \in Nat /\ a % BlockSizes[i] = 0
             /\ BlockUnits(i, a) \subseteq Heap /\ Apart(BlockUnits(i, a), after, lv, hs)
  <1> DEFINE a == Head(lh[i])
             after == [lh EXCEPT ![i] = Tail(@)]
             At(j, k) == IF j = i THEN k + 1 ELSE k
  <1>1. lh \in [1 .. NB -> Seq(Nat)] /\ lh[i] \in Seq(Nat)
    BY DEF BlocksOK
  <1>2. /\ Tail(lh[i]) \in Seq(Nat) /\ Len(Tail(lh[i])) = Len(lh[i]) - 1 /\ Len(lh[i]) \in Nat
        /\ Len(lh[i]) # 0 /\ a = lh[i][1] /\ a \in Nat
        /\ \A k \in 1 .. Len(lh[i]) - 1 : Tail(lh[i])[k] = lh[i][k + 1]
    <2> DEFINE s == lh[i]
    <2> HIDE DEF s
    <2>1. s \in Seq(Nat) /\ s # <<>>
      BY <1>1 DEF s
    <2>2. Len(s) \in Nat /\ Len(s) # 0
      BY <2>1
    <2>3. Tail(s) \in Seq(Nat) /\ Len(Tail(s)) = Len(s) - 1 /\ Head(s) = s[1] /\ Head(s) \in Nat
      BY <2>1, <2>2
    <2>4. \A k \in 1 .. Len(s) - 1 : Tail(s)[k] = s[k + 1]
      BY <2>1, <2>2, <2>3
    <2> QED BY <2>2, <2>3, <2>4 DEF s
  <1>3. after \in [1 .. NB -> Seq(Nat)]
    BY <1>1, <1>2
  <1>4. after[i] = Tail(lh[i]) /\ \A j \in 1 .. NB : j # i => after[j] = lh[j]
    BY <1>1
  <1> HIDE DEF after
  <1>5. \A j \in 1 .. NB : lh[j] \in Seq(Nat) /\ Len(lh[j]) \in Nat
    BY <1>1
  <1>6. ASSUME NEW j \in 1 .. NB, NEW k \in 1 .. Len(after[j])
        PROVE  At(j, k) \in 1 .. Len(lh[j]) /\ after[j][k] = lh[j][At(j, k)]
               /\ (j # i \/ At(j, k) # 1)
    <2>1. CASE j = i
      <3>1. k \in 1 .. Len(lh[i]) - 1
        BY <1>2, <1>4, <2>1
      <3>2. k + 1 \in 1 .. Len(lh[i]) /\ k + 1 # 1
        BY <1>2, <3>1
      <3> QED BY <1>2, <1>4, <2>1, <3>1, <3>2
    <2>2. CASE j # i
      BY <1>4, <2>2
    <2> QED BY <2>1, <2>2
  <1>7. \A j \in 1 .. NB : \A k, m \in 1 .. Len(after[j]) : k # m => At(j, k) # At(j, m)
    OBVIOUS
  <1> HIDE DEF At
  <1>a. \A j \in 1 .. NB : \A k \in 1 .. Len(lh[j]) :
               /\ lh[j][k] % BlockSizes[j] = 0
               /\ BlockUnits(j, lh[j][k]) \subseteq Heap
               /\ BlockUnits(j, lh[j][k]) \cap hs = {}
               /\ \A b \in lv : BlockUnits(j, lh[j][k]) \cap Behind(b) = {}
    BY DEF BlocksOK
  <1>b. \A j, g \in 1 .. NB : \A k \in 1 .. Len(lh[j]), m \in 1 .. Len(lh[g]) :
          j # g \/ k # m => BlockUnits(j, lh[j][k]) \cap BlockUnits(g, lh[g][m]) = {}
    BY DEF BlocksOK
  <1>8. 1 \in 1 .. Len(lh[i])
    BY <1>2
  <1>9. BlocksOK(after, lv, hs)
    <2>1. ASSUME NEW j \in 1 .. NB, NEW k \in 1 .. Len(after[j])
          PROVE  /\ after[j][k] % BlockSizes[j] = 0
                 /\ BlockUnits(j, after[j][k]) \subseteq Heap
                 /\ BlockUnits(j, after[j][k]) \cap hs = {}
                 /\ \A b \in lv : BlockUnits(j, after[j][k]) \cap Behind(b) = {}
      <3>1. At(j, k) \in 1 .. Len(lh[j]) /\ after[j][k] = lh[j][At(j, k)]
        BY <1>6
      <3> QED BY <1>a, <3>1
    <2>2. ASSUME NEW j \in 1 .. NB, NEW g \in 1 .. NB, NEW k \in 1 .. Len(after[j]),
                 NEW m \in 1 .. Len(after[g]), j # g \/ k # m
          PROVE  BlockUnits(j, after[j][k]) \cap BlockUnits(g, after[g][m]) = {}
      <3>1. j # g \/ At(j, k) # At(g, m)
        BY <1>7, <2>2
      <3>2. /\ At(j, k) \in 1 .. Len(lh[j]) /\ after[j][k] = lh[j][At(j, k)]
            /\ At(g, m) \in 1 .. Len(lh[g]) /\ after[g][m] = lh[g][At(g, m)]
        BY <1>6
      <3> DEFINE e == At(j, k)
                 f == At(g, m)
      <3>3. e \in 1 .. Len(lh[j]) /\ f \in 1 .. Len(lh[g]) /\ (j # g \/ e # f)
        BY <3>1, <3>2
      <3> HIDE DEF e, f
      <3>4. BlockUnits(j, lh[j][e]) \cap BlockUnits(g, lh[g][f]) = {}
        BY <1>b, <3>3
      <3> QED BY <3>2, <3>4 DEF e, f
    <2> QED BY <1>3, <2>1, <2>2 DEF BlocksOK
  <1>10. /\ a % BlockSizes[i] = 0 /\ BlockUnits(i, a) \subseteq Heap
         /\ BlockUnits(i, a) \cap hs = {} /\ \A b \in lv : BlockUnits(i, a) \cap Behind(b) = {}
    BY <1>a, <1>2, <1>8
  <1>11. ASSUME NEW j \in 1 .. NB, NEW k \in 1 .. Len(after[j])
         PROVE  BlockUnits(i, a) \cap BlockUnits(j, after[j][k]) = {}
    <2>1. i # j \/ 1 # At(j, k)
      BY <1>6
    <2>2. At(j, k) \in 1 .. Len(lh[j]) /\ after[j][k] = lh[j][At(j, k)]
      BY <1>6
    <2> DEFINE f == At(j, k)
    <2>3. f \in 1 .. Len(lh[j]) /\ (i # j \/ 1 # f)
      BY <2>1, <2>2
    <2> HIDE DEF f
    <2>4. BlockUnits(i, lh[i][1]) \cap BlockUnits(j, lh[j][f]) = {}
      BY <1>b, <1>8, <2>3
    <2> QED BY <1>2, <2>2, <2>4 DEF f
  <1> QED BY <1>2, <1>9, <1>10, <1>11 DEF Apart, after

\* A block goes to the front of a list.
LEMMA Pushed ==
  ASSUME NEW lh, NEW lv, NEW hs, BlocksOK(lh, lv, hs), NEW i \in 1 .. NB, NEW a \in Nat,
         a % BlockSizes[i] = 0, BlockUnits(i, a) \subseteq Heap, Apart(BlockUnits(i, a), lh, lv, hs)
  PROVE  BlocksOK([lh EXCEPT ![i] = <<a>> \o @], lv, hs)
  <1> DEFINE after == [lh EXCEPT ![i] = <<a>> \o @]
             At(j, k) == IF j = i THEN k - 1 ELSE k
  <1>1. lh \in [1 .. NB -> Seq(Nat)] /\ lh[i] \in Seq(Nat)
    BY DEF BlocksOK
  <1>2. /\ <<a>> \o lh[i] \in Seq(Nat) /\ Len(<<a>> \o lh[i]) = Len(lh[i]) + 1 /\ Len(lh[i]) \in Nat
        /\ (<<a>> \o lh[i])[1] = a
        /\ \A k \in 2 .. Len(lh[i]) + 1 : k - 1 \in 1 .. Len(lh[i]) /\ (<<a>> \o lh[i])[k] = lh[i][k - 1]
    BY <1>1, ConsFacts
  <1>3. after \in [1 .. NB -> Seq(Nat)]
    BY <1>1, <1>2
  <1>4. after[i] = <<a>> \o lh[i] /\ \A j \in 1 .. NB : j # i => after[j] = lh[j]
    BY <1>1
  <1> HIDE DEF after
  <1>5. \A j \in 1 .. NB : lh[j] \in Seq(Nat) /\ Len(lh[j]) \in Nat
    BY <1>1
  <1>6. ASSUME NEW j \in 1 .. NB, NEW k \in 1 .. Len(after[j]), j # i \/ k # 1
        PROVE  At(j, k) \in 1 .. Len(lh[j]) /\ after[j][k] = lh[j][At(j, k)]
    <2>1. CASE j = i
      <3>1. k \in 2 .. Len(lh[i]) + 1
        BY <1>2, <1>4, <1>6, <2>1
      <3> QED BY <1>2, <1>4, <2>1, <3>1
    <2>2. CASE j # i
      BY <1>4, <2>2
    <2> QED BY <2>1, <2>2
  <1>7. \A j \in 1 .. NB : \A k, m \in 1 .. Len(after[j]) : k # m => At(j, k) # At(j, m)
    OBVIOUS
  <1> HIDE DEF At
  <1>a. \A j \in 1 .. NB : \A k \in 1 .. Len(lh[j]) :
               /\ lh[j][k] % BlockSizes[j] = 0
               /\ BlockUnits(j, lh[j][k]) \subseteq Heap
               /\ BlockUnits(j, lh[j][k]) \cap hs = {}
               /\ \A b \in lv : BlockUnits(j, lh[j][k]) \cap Behind(b) = {}
    BY DEF BlocksOK
  <1>b. \A j, g \in 1 .. NB : \A k \in 1 .. Len(lh[j]), m \in 1 .. Len(lh[g]) :
          j # g \/ k # m => BlockUnits(j, lh[j][k]) \cap BlockUnits(g, lh[g][m]) = {}
    BY DEF BlocksOK
  <1>8. after[i][1] = a
    BY <1>2, <1>4
  <1>9. ASSUME NEW j \in 1 .. NB, NEW k \in 1 .. Len(after[j])
        PROVE  /\ after[j][k] % BlockSizes[j] = 0
               /\ BlockUnits(j, after[j][k]) \subseteq Heap
               /\ BlockUnits(j, after[j][k]) \cap hs = {}
               /\ \A b \in lv : BlockUnits(j, after[j][k]) \cap Behind(b) = {}
    <2>1. CASE j = i /\ k = 1
      BY <1>8, <2>1 DEF Apart
    <2>2. CASE j # i \/ k # 1
      <3>1. At(j, k) \in 1 .. Len(lh[j]) /\ after[j][k] = lh[j][At(j, k)]
        BY <1>6, <2>2
      <3> QED BY <1>a, <3>1
    <2> QED BY <2>1, <2>2
  <1>10. ASSUME NEW j \in 1 .. NB, NEW k \in 1 .. Len(after[j]), j # i \/ k # 1
         PROVE  BlockUnits(i, a) \cap BlockUnits(j, after[j][k]) = {}
    BY <1>6, <1>10 DEF Apart
  <1>11. ASSUME NEW j \in 1 .. NB, NEW g \in 1 .. NB, NEW k \in 1 .. Len(after[j]),
                NEW m \in 1 .. Len(after[g]), j # g \/ k # m
         PROVE  BlockUnits(j, after[j][k]) \cap BlockUnits(g, after[g][m]) = {}
    <2>1. CASE j = i /\ k = 1
      <3>1. g # i \/ m # 1
        BY <1>11, <2>1
      <3> QED BY <1>8, <1>10, <2>1, <3>1
    <2>2. CASE g = i /\ m = 1
      <3>1. j # i \/ k # 1
        BY <1>11, <2>2
      <3> QED BY <1>8, <1>10, <2>2, <3>1
    <2>3. CASE (j # i \/ k # 1) /\ (g # i \/ m # 1)
      <3>1. j # g \/ At(j, k) # At(g, m)
        BY <1>7, <1>11
      <3>2. /\ At(j, k) \in 1 .. Len(lh[j]) /\ after[j][k] = lh[j][At(j, k)]
            /\ At(g, m) \in 1 .. Len(lh[g]) /\ after[g][m] = lh[g][At(g, m)]
        BY <1>6, <2>3
      <3> DEFINE e == At(j, k)
                 f == At(g, m)
      <3>3. e \in 1 .. Len(lh[j]) /\ f \in 1 .. Len(lh[g]) /\ (j # g \/ e # f)
        BY <3>1, <3>2
      <3> HIDE DEF e, f
      <3>4. BlockUnits(j, lh[j][e]) \cap BlockUnits(g, lh[g][f]) = {}
        BY <1>b, <3>3
      <3> QED BY <3>2, <3>4 DEF e, f
    <2> QED BY <2>1, <2>2, <2>3
  <1>12. BlocksOK(after, lv, hs)
    BY <1>3, <1>9, <1>11 DEF BlocksOK
  <1> QED BY <1>12 DEF after

\* A block comes into use, or is no longer in use.
LEMMA Used ==
  ASSUME NEW lh, NEW lv, NEW hs, BlocksOK(lh, lv, hs), NEW b \in LiveT, LiveOK(b),
         Apart(Behind(b), lh, lv, hs)
  PROVE  BlocksOK(lh, lv \cup {b}, hs)
  <1>1. \A d \in lv \cup {b} : LiveOK(d) /\ Behind(d) \cap hs = {}
    BY DEF BlocksOK, Apart
  <1>2. \A d, e \in lv \cup {b} : d # e => Behind(d) \cap Behind(e) = {}
    BY DEF BlocksOK, Apart
  <1>3. \A i \in 1 .. NB : \A k \in 1 .. Len(lh[i]) :
          \A d \in lv \cup {b} : BlockUnits(i, lh[i][k]) \cap Behind(d) = {}
    BY DEF BlocksOK, Apart
  <1> QED BY <1>1, <1>2, <1>3 DEF BlocksOK

LEMMA Unused ==
  ASSUME NEW lh, NEW lv, NEW hs, BlocksOK(lh, lv, hs), NEW b \in lv
  PROVE  BlocksOK(lh, lv \ {b}, hs) /\ Apart(Behind(b), lh, lv \ {b}, hs)
  <1>1. BlocksOK(lh, lv \ {b}, hs)
    BY DEF BlocksOK
  <1>2. Behind(b) \cap hs = {} /\ \A d \in lv \ {b} : Behind(b) \cap Behind(d) = {}
    BY DEF BlocksOK
  <1>3. \A i \in 1 .. NB : \A k \in 1 .. Len(lh[i]) : Behind(b) \cap BlockUnits(i, lh[i][k]) = {}
    BY DEF BlocksOK
  <1> QED BY <1>1, <1>2, <1>3 DEF Apart

\* Units leave the holes, or come back to them.
LEMMA HolesTaken ==
  ASSUME NEW lh, NEW lv, NEW hs, BlocksOK(lh, lv, hs), NEW U, U \subseteq hs
  PROVE  BlocksOK(lh, lv, hs \ U) /\ Apart(U, lh, lv, hs \ U) /\ U \subseteq Heap
  <1>1. BlocksOK(lh, lv, hs \ U)
    BY DEF BlocksOK
  <1>2. U \cap (hs \ U) = {} /\ (\A b \in lv : U \cap Behind(b) = {}) /\ U \subseteq Heap
    BY DEF BlocksOK
  <1>3. \A i \in 1 .. NB : \A k \in 1 .. Len(lh[i]) : U \cap BlockUnits(i, lh[i][k]) = {}
    BY DEF BlocksOK
  <1> QED BY <1>1, <1>2, <1>3 DEF Apart

LEMMA HolesGiven ==
  ASSUME NEW lh, NEW lv, NEW hs, BlocksOK(lh, lv, hs), NEW U, U \subseteq Heap, Apart(U, lh, lv, hs)
  PROVE  BlocksOK(lh, lv, hs \cup U)
  <1>1. \A b \in lv : LiveOK(b) /\ Behind(b) \cap (hs \cup U) = {}
    BY DEF BlocksOK, Apart
  <1>2. \A i \in 1 .. NB : \A k \in 1 .. Len(lh[i]) : BlockUnits(i, lh[i][k]) \cap (hs \cup U) = {}
    BY DEF BlocksOK, Apart
  <1> QED BY <1>1, <1>2 DEF BlocksOK

\* A block whose units are behind no other is what the promise of alloc asks for.
LEMMA Promised ==
  ASSUME NEW b \in LiveT, LiveOK(b), live' = live \cup {b},
         \A d \in live : LiveOK(d) /\ Behind(b) \cap Behind(d) = {}
  PROVE  alloc(b.layout)
  <1> DEFINE a == b.start
             l == b.layout
             n == l.size
  <1>1. a \in Nat /\ l \in Layouts
    BY DEF LiveT
  <1>2. n \in Nat /\ n > 0 /\ HeapSize \in Nat
    BY <1>1, LayoutFacts DEF Pos
  <1>3. Units(a, n) \subseteq Behind(b) /\ Behind(b) \subseteq Heap /\ a % l.align = 0
    BY DEF LiveOK
  <1>4. Units(a, n) \cap LiveUnits = {}
    BY <1>3 DEF LiveUnits, LiveOK
  <1>5. b = [start |-> a, layout |-> l]
    BY DEF LiveT
  <1>6. live' = live \cup {[start |-> a, layout |-> l]}
    BY <1>5
  <1> HIDE DEF a, n
  <1>7. (a + n) - 1 \in Units(a, n)
    BY <1>1, <1>2, UnitsIn
  <1>8. a \in 0 .. HeapSize - n
    <2>1. (a + n) - 1 \in Heap
      BY <1>3, <1>7
    <2> QED BY <1>1, <1>2, <2>1 DEF Heap
  <1> QED BY <1>3, <1>4, <1>6, <1>8 DEF alloc, n

\* A request the lists pass on: of the size of the list, or of the layout's own.
Passed(l, n, al) ==
  LET i == list_index(l)
  IN  IF i = 0 THEN n = l.size /\ al = l.align ELSE n = BlockSizes[i] /\ al = BlockSizes[i]

LEMMA Holds ==
  ASSUME NEW s \in Nat, NEW m \in Nat, NEW n \in Nat, m <= n
  PROVE  Units(s, m) \subseteq Units(s, n)
  <1>1. /\ \A u : u \in Units(s, m) <=> u \in Int /\ s <= u /\ u < s + m
        /\ \A u : u \in Units(s, n) <=> u \in Int /\ s <= u /\ u < s + n
    BY UnitsIn
  <1> QED BY <1>1

LEMMA FallbackBlock ==
  ASSUME NEW l \in Layouts, NEW n, NEW al, Passed(l, n, al), holes \subseteq Heap,
         NEW a \in fallback_fits(n, al)
  PROVE  LET b == [start |-> a, layout |-> l]
         IN  /\ b \in LiveT /\ LiveOK(b) /\ b.layout = l
             /\ Behind(b) = Units(a, fallback_size(n)) /\ Behind(b) \subseteq holes
  <1> DEFINE b == [start |-> a, layout |-> l]
             i == list_index(l)
             s == fallback_size(n)
  <1>0. l.size \in Pos /\ l.align \in Pos /\ HeapSize \in Nat
    BY LayoutFacts
  <1>1. n \in Pos /\ al \in Pos /\ l.size <= n /\ al % l.align = 0 /\ (i # 0 => al = BlockSizes[i])
    <2>1. CASE i = 0
      <3>1. n = l.size /\ al = l.align
        BY <2>1 DEF Passed
      <3>2. l.size <= l.size
        BY <1>0 DEF Pos
      <3> QED BY <1>0, <2>1, <3>1, <3>2, ModSelf
    <2>2. CASE i # 0
      <3>1. n = BlockSizes[i] /\ al = BlockSizes[i]
        BY <2>2 DEF Passed
      <3> QED BY <2>2, <3>1, ListIndex
    <2> QED BY <2>1, <2>2
  <1>2. s \in Pos /\ n <= s
    BY <1>1, FallbackSize
  <1> HIDE DEF s
  <1>3. a \in 0 .. HeapSize - s /\ a % al = 0 /\ Units(a, s) \subseteq holes
    BY DEF fallback_fits, s
  <1>4. a \in Nat /\ s \in Nat /\ n \in Nat /\ l.size \in Nat /\ l.size <= s
    <2>1. s \in Nat /\ n \in Nat /\ l.size \in Nat
      BY <1>0, <1>1, <1>2 DEF Pos
    <2>2. l.size <= s
      BY <1>1, <1>2, <2>1
    <2>3. a \in Nat
      BY <1>0, <1>3, <2>1
    <2> QED BY <2>1, <2>2, <2>3
  <1>5. b \in LiveT /\ b.start = a /\ b.layout = l
    BY <1>4 DEF LiveT
  <1>6. Behind(b) = Units(a, s)
    <2>1. n = IF i = 0 THEN l.size ELSE BlockSizes[i]
      BY DEF Passed
    <2>2. Behind(b) = Units(a, fallback_size(IF i = 0 THEN l.size ELSE BlockSizes[i]))
      BY <1>5 DEF Behind
    <2> QED BY <2>1, <2>2 DEF s
  <1> HIDE DEF b
  <1>7. a % l.align = 0
    <2> DEFINE g == l.align
    <2>1. g \in Pos /\ al \in Pos /\ a \in Int /\ al % g = 0
      BY <1>0, <1>1, <1>4
    <2>2. a % al = 0
      BY <1>3
    <2> HIDE DEF g
    <2>3. a % g = 0
      BY <2>1, <2>2, DividesThrough
    <2> QED BY <2>3 DEF g
  <1>8. Units(a, l.size) \subseteq Units(a, s)
    BY <1>4, Holds
  <1>9. LiveOK(b)
    BY <1>1, <1>3, <1>5, <1>6, <1>7, <1>8 DEF LiveOK
  <1> QED BY <1>3, <1>5, <1>6, <1>9 DEF b, s

LEMMA FallbackAlloc ==
  ASSUME BlockInv, NEW l \in Layouts, NEW n, NEW al, Passed(l, n, al), fallback_alloc(l, n, al)
  PROVE  BlockInv' /\ (UNCHANGED live \/ alloc(l))
  <1>1. CASE UNCHANGED <<live, blockVars>>
    BY <1>1 DEF blockVars, BlockInv
  <1>2. CASE ~ UNCHANGED <<live, blockVars>>
    <2>1. PICK a \in fallback_fits(n, al) :
            /\ holes' = holes \ Units(a, fallback_size(n))
            /\ live' = live \cup {[start |-> a, layout |-> l]}
            /\ list_heads' = list_heads
      BY <1>2 DEF fallback_alloc
    <2> DEFINE b == [start |-> a, layout |-> l]
               U == Units(a, fallback_size(n))
    <2>2. holes \subseteq Heap
      BY DEF BlockInv, BlocksOK
    <2>3. b \in LiveT /\ LiveOK(b) /\ b.layout = l /\ Behind(b) = U /\ U \subseteq holes
      BY <2>2, FallbackBlock
    <2> HIDE DEF b, U
    <2>4. BlocksOK(list_heads, live, holes \ U) /\ Apart(U, list_heads, live, holes \ U)
      BY <2>3, HolesTaken DEF BlockInv
    <2>5. BlocksOK(list_heads, live \cup {b}, holes \ U)
      BY <2>3, <2>4, Used
    <2>6. BlockInv'
      BY <2>1, <2>5 DEF BlockInv, b, U
    <2>7. \A d \in live : LiveOK(d) /\ Behind(b) \cap Behind(d) = {}
      BY <2>3, <2>4 DEF BlockInv, BlocksOK, Apart
    <2>8. live' = live \cup {b}
      BY <2>1 DEF b
    <2>9. alloc(l)
      BY <2>3, <2>7, <2>8, Promised
    <2> QED BY <2>6, <2>9
  <1> QED BY <1>1, <1>2

LEMMA BlockAlloc ==
  ASSUME BlockInv, NEW l \in Layouts, block_alloc(l)
  PROVE  BlockInv' /\ (UNCHANGED live \/ alloc(l))
  <1> DEFINE i == list_index(l)
  <1>1. CASE i = 0
    <2>1. fallback_alloc(l, l.size, l.align) /\ Passed(l, l.size, l.align)
      BY <1>1 DEF block_alloc, Passed
    <2> QED BY <2>1, FallbackAlloc
  <1>2. CASE i # 0 /\ list_heads[i] = <<>>
    <2>1. fallback_alloc(l, BlockSizes[i], BlockSizes[i]) /\ Passed(l, BlockSizes[i], BlockSizes[i])
      BY <1>2 DEF block_alloc, Passed
    <2> QED BY <2>1, FallbackAlloc
  <1>3. CASE i # 0 /\ list_heads[i] # <<>>
    <2> DEFINE a == Head(list_heads[i])
               b == [start |-> a, layout |-> l]
               after == [list_heads EXCEPT ![i] = Tail(@)]
    <2>1. live' = live \cup {b} /\ list_heads' = after /\ holes' = holes
      BY <1>3 DEF block_alloc
    <2>2. /\ i \in 1 .. NB /\ BlockSizes[i] \in Pos
          /\ l.size <= BlockSizes[i] /\ BlockSizes[i] % l.align = 0
      BY <1>3, ListIndex
    <2>3. /\ BlocksOK(after, live, holes) /\ a \in Nat /\ a % BlockSizes[i] = 0
          /\ BlockUnits(i, a) \subseteq Heap /\ Apart(BlockUnits(i, a), after, live, holes)
      <3> HIDE DEF i
      <3> QED BY <1>3, <2>2, Popped DEF BlockInv
    <2> HIDE DEF a, after
    <2>4. b \in LiveT /\ b.start = a /\ b.layout = l
      BY <2>3 DEF LiveT
    <2> HIDE DEF b
    <2>5. Behind(b) = BlockUnits(i, a)
      BY <1>3, <2>4 DEF Behind, BlockUnits
    <2>6. LiveOK(b)
      <3>1. l.align \in Pos /\ l.size \in Nat /\ BlockSizes[i] \in Nat
        BY <2>2, LayoutFacts DEF Pos
      <3>2. a % l.align = 0
        BY <2>2, <2>3, <3>1, DividesThrough
      <3>3. fallback_size(BlockSizes[i]) \in Nat /\ BlockSizes[i] <= fallback_size(BlockSizes[i])
        BY <2>2, FallbackSize DEF Pos
      <3> DEFINE m == l.size
                 n == fallback_size(BlockSizes[i])
      <3>4. m \in Nat /\ n \in Nat /\ m <= n
        BY <2>2, <3>1, <3>3
      <3> HIDE DEF m, n
      <3>5. Units(a, m) \subseteq Units(a, n)
        BY <2>3, <3>4, Holds
      <3>6. Units(a, l.size) \subseteq BlockUnits(i, a)
        BY <3>5 DEF BlockUnits, m, n
      <3> QED BY <2>3, <2>4, <2>5, <3>2, <3>6 DEF LiveOK
    <2>7. BlocksOK(after, live \cup {b}, holes)
      BY <2>3, <2>4, <2>5, <2>6, Used
    <2>8. BlockInv'
      BY <2>1, <2>7 DEF BlockInv
    <2>9. \A d \in live : LiveOK(d) /\ Behind(b) \cap Behind(d) = {}
      BY <2>3, <2>5 DEF BlockInv, BlocksOK, Apart
    <2>10. alloc(l)
      BY <2>1, <2>4, <2>6, <2>9, Promised
    <2> QED BY <2>8, <2>10
  <1> QED BY <1>1, <1>2, <1>3

LEMMA BlockDealloc ==
  ASSUME BlockInv, NEW b \in live, block_dealloc(b)
  PROVE  BlockInv' /\ dealloc(b)
  <1> DEFINE i == list_index(b.layout)
  <1>0. live' = live \ {b} /\ b.layout \in Layouts /\ b.start \in Nat /\ LiveOK(b)
    BY DEF block_dealloc, BlockInv, BlocksOK, LiveT
  <1>1. /\ BlocksOK(list_heads, live \ {b}, holes)
        /\ Apart(Behind(b), list_heads, live \ {b}, holes)
    BY Unused DEF BlockInv
  <1>2. CASE i = 0
    <2>1. holes' = holes \cup Units(b.start, fallback_size(b.layout.size)) /\ list_heads' = list_heads
      BY <1>2 DEF block_dealloc
    <2>2. holes' = holes \cup Behind(b)
      BY <1>2, <2>1 DEF Behind
    <2>3. BlocksOK(list_heads, live \ {b}, holes \cup Behind(b))
      BY <1>0, <1>1, HolesGiven DEF LiveOK
    <2> QED BY <1>0, <2>1, <2>2, <2>3 DEF BlockInv, dealloc
  <1>3. CASE i # 0
    <2>1. list_heads' = [list_heads EXCEPT ![i] = <<b.start>> \o @] /\ holes' = holes
      BY <1>3 DEF block_dealloc
    <2>2. i \in 1 .. NB
      BY <1>0, <1>3, ListIndex
    <2>3. Behind(b) = BlockUnits(i, b.start)
      BY <1>3 DEF Behind, BlockUnits
    <2>4. b.start % BlockSizes[i] = 0 /\ Behind(b) \subseteq Heap
      BY <1>0, <1>3 DEF LiveOK
    <2> HIDE DEF i
    <2>5. BlocksOK([list_heads EXCEPT ![i] = <<b.start>> \o @], live \ {b}, holes)
      BY <1>0, <1>1, <2>2, <2>3, <2>4, Pushed
    <2> QED BY <1>0, <2>1, <2>5 DEF BlockInv, dealloc
  <1> QED BY <1>2, <1>3

LEMMA BlockInitially ==
  ASSUME BlockInit
  PROVE  BlockInv
  <1>1. live = {} /\ holes = Heap /\ list_heads = [i \in 1 .. NB |-> <<>>]
    BY DEF BlockInit, Heap, NB
  <1>2. list_heads \in [1 .. NB -> Seq(Nat)] /\ \A i \in 1 .. NB : list_heads[i] = <<>>
    BY <1>1
  <1>3. \A i \in 1 .. NB : 1 .. Len(list_heads[i]) = {}
    BY <1>2
  <1> QED BY <1>1, <1>2, <1>3 DEF BlockInv, BlocksOK

-------------------------------------------------------------------------------
(* Sums.  A sum over sets that are apart counts their union.               *)

LEMMA ApartUnion ==
  ASSUME NEW A, NEW B, IsFiniteSet(A), IsFiniteSet(B), A \cap B = {}
  PROVE  IsFiniteSet(A \cup B) /\ Cardinality(A \cup B) = Cardinality(A) + Cardinality(B)
  <1>1. Cardinality(A \cup B) = Cardinality(A) + Cardinality(B) - Cardinality(A \cap B)
        /\ IsFiniteSet(A \cup B)
    BY FS_Union
  <1>2. Cardinality(A \cap B) = 0 /\ Cardinality(A) \in Nat /\ Cardinality(B) \in Nat
    BY FS_EmptySet, FS_CardinalityType
  <1> QED BY <1>1, <1>2

One(s) == CHOOSE x \in s : TRUE
All(U, s) == UNION {U[x] : x \in s}

\* The function through which MapThenSumSet adds the weights w of the elements of S.
Adds(w, S, r) == r = [s \in SUBSET S |-> IF s = {} THEN 0 ELSE w[One(s)] + r[s \ {One(s)}]]

\* Finite sets U[x] for x in S, apart from each other, and their sizes.
Sized(U, w, S) ==
  /\ IsFiniteSet(S) /\ IsFiniteSet(All(U, S))
  /\ \A x, y \in S : x # y => U[x] \cap U[y] = {}
  /\ \A x \in S : w[x] = Cardinality(U[x])

LEMMA OneLess ==
  ASSUME NEW U, NEW w, NEW S, Sized(U, w, S), NEW s \in SUBSET S
  PROVE  /\ IsFiniteSet(s) /\ Cardinality(s) \in Nat
         /\ IsFiniteSet(All(U, s)) /\ Cardinality(All(U, s)) \in Nat
         /\ s # {} => /\ One(s) \in s /\ s \ {One(s)} \in SUBSET S
                      /\ Cardinality(s \ {One(s)}) = Cardinality(s) - 1
                      /\ Cardinality(All(U, s)) = w[One(s)] + Cardinality(All(U, s \ {One(s)}))
  <1>1. IsFiniteSet(s) /\ Cardinality(s) \in Nat
    BY FS_Subset, FS_CardinalityType DEF Sized
  <1>2. ASSUME NEW t \in SUBSET S
        PROVE  IsFiniteSet(All(U, t)) /\ Cardinality(All(U, t)) \in Nat
    <2>1. All(U, t) \subseteq All(U, S)
      BY DEF All
    <2> QED BY <2>1, FS_Subset, FS_CardinalityType DEF Sized
  <1> SUFFICES ASSUME s # {}
               PROVE  /\ One(s) \in s /\ s \ {One(s)} \in SUBSET S
                      /\ Cardinality(s \ {One(s)}) = Cardinality(s) - 1
                      /\ Cardinality(All(U, s)) = w[One(s)] + Cardinality(All(U, s \ {One(s)}))
    BY <1>1, <1>2
  <1> DEFINE x == One(s)
             t == s \ {x}
  <1>3. x \in s
    BY DEF One
  <1> HIDE DEF x
  <1>4. Cardinality(t) = Cardinality(s) - 1 /\ t \in SUBSET S
    BY <1>1, <1>3, FS_RemoveElement
  <1>5. All(U, s) = All(U, t) \cup U[x]
    <2>1. ASSUME NEW u \in All(U, s) PROVE u \in All(U, t) \cup U[x]
      BY <2>1 DEF All
    <2>2. ASSUME NEW u \in All(U, t) \cup U[x] PROVE u \in All(U, s)
      BY <1>3, <2>2 DEF All
    <2> QED BY <2>1, <2>2
  <1>6. All(U, t) \cap U[x] = {}
    BY <1>3 DEF Sized, All
  <1> HIDE DEF t
  <1>7. IsFiniteSet(U[x]) /\ Cardinality(U[x]) \in Nat
    <2>1. U[x] \subseteq All(U, S)
      BY <1>3 DEF All
    <2> QED BY <2>1, FS_Subset, FS_CardinalityType DEF Sized
  <1>8. Cardinality(All(U, s)) = Cardinality(All(U, t)) + Cardinality(U[x])
    BY <1>2, <1>4, <1>5, <1>6, <1>7, ApartUnion
  <1>9. w[x] = Cardinality(U[x])
    BY <1>3 DEF Sized
  <1>10. Cardinality(All(U, s)) = w[x] + Cardinality(All(U, t))
    <2>1. Cardinality(All(U, t)) \in Nat
      BY <1>2, <1>4
    <2> QED BY <1>7, <1>8, <1>9, <2>1
  <1> QED BY <1>3, <1>4, <1>10 DEF x, t

\* There is such a function,
LEMMA SumExists ==
  ASSUME NEW U, NEW w, NEW S, Sized(U, w, S)
  PROVE  \E r : Adds(w, S, r)
  <1> DEFINE r == [s \in SUBSET S |-> Cardinality(All(U, s))]
  <1>1. ASSUME NEW s \in SUBSET S
        PROVE  r[s] = IF s = {} THEN 0 ELSE w[One(s)] + r[s \ {One(s)}]
    <2>1. CASE s = {}
      <3>1. All(U, s) = {}
        BY <2>1 DEF All
      <3> QED BY <2>1, <3>1, FS_EmptySet
    <2>2. CASE s # {}
      <3>1. s \ {One(s)} \in SUBSET S
            /\ Cardinality(All(U, s)) = w[One(s)] + Cardinality(All(U, s \ {One(s)}))
        BY <2>2, OneLess
      <3> QED BY <2>2, <3>1
    <2> QED BY <2>1, <2>2
  <1>2. r = [s \in SUBSET S |-> r[s]]
    OBVIOUS
  <1> HIDE DEF r
  <1>3. r = [s \in SUBSET S |-> IF s = {} THEN 0 ELSE w[One(s)] + r[s \ {One(s)}]]
    BY <1>1, <1>2, Zenon
  <1> QED BY <1>3 DEF Adds

\* and what it adds up is the size of the union.
LEMMA SumCounts ==
  ASSUME NEW U, NEW w, NEW S, Sized(U, w, S), NEW r, Adds(w, S, r)
  PROVE  r[S] = Cardinality(All(U, S))
  <1> DEFINE Good(s) == r[s] = Cardinality(All(U, s))
             Bad == {n \in Nat : \E s \in SUBSET S : Cardinality(s) = n /\ ~ Good(s)}
  <1> HIDE DEF Good
  <1>1. Cardinality(S) \in Nat
    BY OneLess
  <1> SUFFICES ASSUME Bad # {} PROVE FALSE
    BY <1>1 DEF Good
  <1>2. PICK n \in Bad : \A k \in Bad : n <= k
    <2>1. Bad \in SUBSET Nat
      OBVIOUS
    <2> HIDE DEF Bad
    <2> QED BY <2>1, LeastExists
  <1>3. PICK s \in SUBSET S : Cardinality(s) = n /\ ~ Good(s)
    OBVIOUS
  <1>4. \A t \in SUBSET S : Cardinality(t) \in Nat /\ Cardinality(t) \notin Bad => Good(t)
    OBVIOUS
  <1> HIDE DEF Bad
  <1>5. r[s] = IF s = {} THEN 0 ELSE w[One(s)] + r[s \ {One(s)}]
    BY DEF Adds
  <1>6. CASE s = {}
    <2>1. All(U, s) = {}
      BY <1>6 DEF All
    <2> QED BY <1>3, <1>5, <1>6, <2>1, FS_EmptySet DEF Good
  <1>7. CASE s # {}
    <2> DEFINE t == s \ {One(s)}
    <2>1. /\ t \in SUBSET S /\ Cardinality(t) = Cardinality(s) - 1
          /\ Cardinality(All(U, s)) = w[One(s)] + Cardinality(All(U, t))
      BY <1>7, OneLess, ZenonT(30)
    <2> HIDE DEF t
    <2>2. Cardinality(t) \in Nat /\ Cardinality(s) \in Nat
      BY <2>1, OneLess
    <2>3. Cardinality(t) \notin Bad
      <3> DEFINE k == Cardinality(t)
                 m == Cardinality(s)
      <3>1. k = m - 1 /\ k \in Nat /\ m \in Nat /\ n = m
        BY <1>3, <2>1, <2>2
      <3> HIDE DEF k, m
      <3>2. ~ (n <= k)
        BY <3>1
      <3> QED BY <1>2, <3>2 DEF k
    <2>4. Good(t)
      BY <1>4, <2>1, <2>2, <2>3
    <2>5. r[s] = w[One(s)] + r[t]
      BY <1>5, <1>7 DEF t
    <2> QED BY <1>3, <2>1, <2>4, <2>5 DEF Good
  <1> QED BY <1>6, <1>7

\* The three sums of the accounts.
LEMMA LiveSum ==
  ASSUME NEW U, Sized(U, [b \in live |-> Cardinality(Behind(b))], live)
  PROVE  MapThenSumSet(LAMBDA b : Cardinality(Behind(b)), live) = Cardinality(All(U, live))
  <1> DEFINE w == [b \in live |-> Cardinality(Behind(b))]
             P(r) == r = [s \in SUBSET live |-> IF s = {} THEN 0
                            ELSE Cardinality(Behind(One(s))) + r[s \ {One(s)}]]
             g == CHOOSE r : P(r)
  <1>1. MapThenSumSet(LAMBDA b : Cardinality(Behind(b)), live) = g[live]
    BY Zenon DEF MapThenSumSet, MapThenFoldSet, One
  <1>2. \A s \in SUBSET live : s # {} => w[One(s)] = Cardinality(Behind(One(s)))
    BY DEF One
  <1> HIDE DEF w
  <1>3. ASSUME NEW r PROVE P(r) <=> Adds(w, live, r)
    <2>1. \A s \in SUBSET live :
            (IF s = {} THEN 0 ELSE w[One(s)] + r[s \ {One(s)}])
            = (IF s = {} THEN 0 ELSE Cardinality(Behind(One(s))) + r[s \ {One(s)}])
      BY <1>2
    <2>2. [s \in SUBSET live |-> IF s = {} THEN 0 ELSE w[One(s)] + r[s \ {One(s)}]]
          = [s \in SUBSET live |-> IF s = {} THEN 0
               ELSE Cardinality(Behind(One(s))) + r[s \ {One(s)}]]
      BY <2>1, Zenon
    <2> QED BY <2>2 DEF Adds
  <1> HIDE DEF P
  <1>4. \E r : P(r)
    <2>1. PICK r : Adds(w, live, r)
      BY SumExists DEF w
    <2> QED BY <1>3, <2>1
  <1>5. Adds(w, live, g)
    <2>1. P(g)
      BY <1>4, Zenon
    <2> HIDE DEF g
    <2> QED BY <1>3, <2>1
  <1> HIDE DEF g
  <1>6. g[live] = Cardinality(All(U, live))
    BY <1>5, SumCounts DEF w
  <1> QED BY <1>1, <1>6

LEMMA ListedSum ==
  ASSUME NEW U, Sized(U, [e \in Listed |-> Cardinality(ListedUnits(e))], Listed)
  PROVE  MapThenSumSet(LAMBDA e : Cardinality(ListedUnits(e)), Listed) = Cardinality(All(U, Listed))
  <1> DEFINE w == [e \in Listed |-> Cardinality(ListedUnits(e))]
             P(r) == r = [s \in SUBSET Listed |-> IF s = {} THEN 0
                            ELSE Cardinality(ListedUnits(One(s))) + r[s \ {One(s)}]]
             g == CHOOSE r : P(r)
  <1>1. MapThenSumSet(LAMBDA e : Cardinality(ListedUnits(e)), Listed) = g[Listed]
    BY Zenon DEF MapThenSumSet, MapThenFoldSet, One
  <1>2. \A s \in SUBSET Listed : s # {} => w[One(s)] = Cardinality(ListedUnits(One(s)))
    BY DEF One
  <1> HIDE DEF w
  <1>3. ASSUME NEW r PROVE P(r) <=> Adds(w, Listed, r)
    <2>1. \A s \in SUBSET Listed :
            (IF s = {} THEN 0 ELSE w[One(s)] + r[s \ {One(s)}])
            = (IF s = {} THEN 0 ELSE Cardinality(ListedUnits(One(s))) + r[s \ {One(s)}])
      BY <1>2
    <2>2. [s \in SUBSET Listed |-> IF s = {} THEN 0 ELSE w[One(s)] + r[s \ {One(s)}]]
          = [s \in SUBSET Listed |-> IF s = {} THEN 0
               ELSE Cardinality(ListedUnits(One(s))) + r[s \ {One(s)}]]
      BY <2>1, Zenon
    <2> QED BY <2>2 DEF Adds
  <1> HIDE DEF P
  <1>4. \E r : P(r)
    <2>1. PICK r : Adds(w, Listed, r)
      BY SumExists DEF w
    <2> QED BY <1>3, <2>1
  <1>5. Adds(w, Listed, g)
    <2>1. P(g)
      BY <1>4, Zenon
    <2> HIDE DEF g
    <2> QED BY <1>3, <2>1
  <1> HIDE DEF g
  <1>6. g[Listed] = Cardinality(All(U, Listed))
    BY <1>5, SumCounts DEF w
  <1> QED BY <1>1, <1>6

LEMMA FreeSum ==
  ASSUME NEW U, Sized(U, [e \in Listed |-> BlockSizes[e[1]]], Listed)
  PROVE  MapThenSumSet(LAMBDA e : BlockSizes[e[1]], Listed) = Cardinality(All(U, Listed))
  <1> DEFINE w == [e \in Listed |-> BlockSizes[e[1]]]
             P(r) == r = [s \in SUBSET Listed |-> IF s = {} THEN 0
                            ELSE BlockSizes[One(s)[1]] + r[s \ {One(s)}]]
             g == CHOOSE r : P(r)
  <1>1. MapThenSumSet(LAMBDA e : BlockSizes[e[1]], Listed) = g[Listed]
    BY Zenon DEF MapThenSumSet, MapThenFoldSet, One
  <1>2. \A s \in SUBSET Listed : s # {} => w[One(s)] = BlockSizes[One(s)[1]]
    BY DEF One
  <1> HIDE DEF w
  <1>3. ASSUME NEW r PROVE P(r) <=> Adds(w, Listed, r)
    <2>1. \A s \in SUBSET Listed :
            (IF s = {} THEN 0 ELSE w[One(s)] + r[s \ {One(s)}])
            = (IF s = {} THEN 0 ELSE BlockSizes[One(s)[1]] + r[s \ {One(s)}])
      BY <1>2
    <2>2. [s \in SUBSET Listed |-> IF s = {} THEN 0 ELSE w[One(s)] + r[s \ {One(s)}]]
          = [s \in SUBSET Listed |-> IF s = {} THEN 0
               ELSE BlockSizes[One(s)[1]] + r[s \ {One(s)}]]
      BY <2>1, Zenon
    <2> QED BY <2>2 DEF Adds
  <1> HIDE DEF P
  <1>4. \E r : P(r)
    <2>1. PICK r : Adds(w, Listed, r)
      BY SumExists DEF w
    <2> QED BY <1>3, <2>1
  <1>5. Adds(w, Listed, g)
    <2>1. P(g)
      BY <1>4, Zenon
    <2> HIDE DEF g
    <2> QED BY <1>3, <2>1
  <1> HIDE DEF g
  <1>6. g[Listed] = Cardinality(All(U, Listed))
    BY <1>5, SumCounts DEF w
  <1> QED BY <1>1, <1>6

-------------------------------------------------------------------------------
(* The accounts of the fixed-size blocks.                                  *)

Starts(s) == {s[k] : k \in 1 .. Len(s)}
Core(i, a) == Units(a, BlockSizes[i])
ListedOf(lh) == UNION {UNION {BlockUnits(i, a) : a \in Starts(lh[i])} : i \in 1 .. NB}
CoreOf(lh) == UNION {UNION {Core(i, a) : a \in Starts(lh[i])} : i \in 1 .. NB}
LiveOf(lv) == UNION {Behind(b) : b \in lv}

\* No unit is lost, the fallback heap counts what is not a hole, and block_free what
\* the lists hold.
Accounts(lh, lv, hs, t, f) ==
  /\ Heap \subseteq LiveOf(lv) \cup ListedOf(lh) \cup hs
  /\ t = HeapSize - Cardinality(hs)
  /\ f = Cardinality(CoreOf(lh))

LEMMA HeapFinite ==
  /\ IsFiniteSet(Heap) /\ Cardinality(Heap) = HeapSize
  /\ \A U \in SUBSET Heap : IsFiniteSet(U) /\ Cardinality(U) \in Nat
  <1>1. IsFiniteSet(Heap) /\ Cardinality(Heap) = HeapSize
    <2>1. HeapSize \in Nat /\ 0 \in Int /\ HeapSize - 1 \in Int
      BY HeapAssumption
    <2>2. /\ IsFiniteSet(0 .. HeapSize - 1)
          /\ Cardinality(0 .. HeapSize - 1) = IF 0 > HeapSize - 1 THEN 0 ELSE HeapSize - 1 - 0 + 1
      BY <2>1, FS_Interval
    <2> QED BY <2>1, <2>2 DEF Heap
  <1> QED BY <1>1, FS_Subset, FS_CardinalityType

LEMMA UnitsCount ==
  ASSUME NEW a \in Nat, NEW n \in Nat
  PROVE  Cardinality(Units(a, n)) = n
  <1>1. a + n - 1 = (a + n) - 1 /\ (a + n) - 1 \in Int /\ a \in Int
    OBVIOUS
  <1>2. Cardinality(a .. (a + n) - 1) = IF a > (a + n) - 1 THEN 0 ELSE ((a + n) - 1) - a + 1
    BY <1>1, FS_Interval
  <1> QED BY <1>1, <1>2 DEF Units

LEMMA CoreIn ==
  ASSUME NEW i \in 1 .. NB, NEW a \in Nat
  PROVE  /\ Core(i, a) \subseteq BlockUnits(i, a)
         /\ BlockSizes[i] \in Nat /\ Cardinality(Core(i, a)) = BlockSizes[i]
         /\ fallback_size(BlockSizes[i]) \in Nat
         /\ Cardinality(BlockUnits(i, a)) = fallback_size(BlockSizes[i])
  <1>1. BlockSizes[i] \in Pos
    <2> DEFINE P == Nat \ {0}
    <2>1. BlockSizes \in Seq(P) /\ i \in 1 .. Len(BlockSizes)
      BY HeapAssumption DEF NB
    <2> HIDE DEF P
    <2>2. BlockSizes[i] \in P
      BY <2>1
    <2> QED BY <2>2 DEF P, Pos
  <1> DEFINE m == BlockSizes[i]
             n == fallback_size(BlockSizes[i])
  <1>2. m \in Nat /\ n \in Nat /\ m <= n
    BY <1>1, FallbackSize DEF Pos
  <1> HIDE DEF m, n
  <1>3. Units(a, m) \subseteq Units(a, n) /\ Cardinality(Units(a, m)) = m
        /\ Cardinality(Units(a, n)) = n
    BY <1>2, Holds, UnitsCount
  <1> QED BY <1>2, <1>3 DEF Core, BlockUnits, m, n

\* The lists are in the heap.
LEMMA ListsIn ==
  ASSUME NEW lh, NEW lv, NEW hs, BlocksOK(lh, lv, hs)
  PROVE  /\ \A i \in 1 .. NB : lh[i] \in Seq(Nat) /\ Starts(lh[i]) \subseteq Nat
         /\ ListedOf(lh) \subseteq Heap /\ CoreOf(lh) \subseteq ListedOf(lh)
         /\ LiveOf(lv) \subseteq Heap
  <1>1. ASSUME NEW i \in 1 .. NB PROVE lh[i] \in Seq(Nat) /\ Starts(lh[i]) \subseteq Nat
    <2>1. lh[i] \in Seq(Nat)
      BY DEF BlocksOK
    <2> QED BY <2>1 DEF Starts
  <1>2. ListedOf(lh) \subseteq Heap
    <2> SUFFICES ASSUME NEW i \in 1 .. NB, NEW k \in 1 .. Len(lh[i])
                 PROVE  BlockUnits(i, lh[i][k]) \subseteq Heap
      BY DEF ListedOf, Starts
    <2> QED BY DEF BlocksOK
  <1>3. CoreOf(lh) \subseteq ListedOf(lh)
    <2> SUFFICES ASSUME NEW i \in 1 .. NB, NEW a \in Starts(lh[i])
                 PROVE  Core(i, a) \subseteq BlockUnits(i, a)
      BY DEF ListedOf, CoreOf
    <2> QED BY <1>1, CoreIn
  <1>4. LiveOf(lv) \subseteq Heap
    BY DEF BlocksOK, LiveOK, LiveOf
  <1> QED BY <1>1, <1>2, <1>3, <1>4

\* A list with one more block.
LEMMA OneMore ==
  ASSUME NEW lh, NEW lv, NEW hs, BlocksOK(lh, lv, hs), NEW i \in 1 .. NB, NEW a \in Nat,
         Apart(BlockUnits(i, a), lh, lv, hs), NEW more,
         Starts(more[i]) = Starts(lh[i]) \cup {a}, \A j \in 1 .. NB : j # i => more[j] = lh[j]
  PROVE  /\ ListedOf(more) = ListedOf(lh) \cup BlockUnits(i, a)
         /\ Cardinality(CoreOf(more)) = Cardinality(CoreOf(lh)) + BlockSizes[i]
  <1>1. ListedOf(more) = ListedOf(lh) \cup BlockUnits(i, a)
    <2>1. ASSUME NEW u \in ListedOf(more) PROVE u \in ListedOf(lh) \cup BlockUnits(i, a)
      <3>0. PICK j \in 1 .. NB : \E c \in Starts(more[j]) : u \in BlockUnits(j, c)
        BY <2>1 DEF ListedOf
      <3>1. PICK c \in Starts(more[j]) : u \in BlockUnits(j, c)
        BY <3>0
      <3> QED BY <3>1 DEF ListedOf
    <2>2. ASSUME NEW u \in ListedOf(lh) PROVE u \in ListedOf(more)
      <3>0. PICK j \in 1 .. NB : \E c \in Starts(lh[j]) : u \in BlockUnits(j, c)
        BY <2>2 DEF ListedOf
      <3>1. PICK c \in Starts(lh[j]) : u \in BlockUnits(j, c)
        BY <3>0
      <3>2. c \in Starts(more[j])
        BY <3>1
      <3> QED BY <3>1, <3>2 DEF ListedOf
    <2>3. BlockUnits(i, a) \subseteq ListedOf(more)
      BY DEF ListedOf
    <2> QED BY <2>1, <2>2, <2>3
  <1>2. CoreOf(more) = CoreOf(lh) \cup Core(i, a)
    <2>1. ASSUME NEW u \in CoreOf(more) PROVE u \in CoreOf(lh) \cup Core(i, a)
      <3>0. PICK j \in 1 .. NB : \E c \in Starts(more[j]) : u \in Core(j, c)
        BY <2>1 DEF CoreOf
      <3>1. PICK c \in Starts(more[j]) : u \in Core(j, c)
        BY <3>0
      <3> QED BY <3>1 DEF CoreOf
    <2>2. ASSUME NEW u \in CoreOf(lh) PROVE u \in CoreOf(more)
      <3>0. PICK j \in 1 .. NB : \E c \in Starts(lh[j]) : u \in Core(j, c)
        BY <2>2 DEF CoreOf
      <3>1. PICK c \in Starts(lh[j]) : u \in Core(j, c)
        BY <3>0
      <3>2. c \in Starts(more[j])
        BY <3>1
      <3> QED BY <3>1, <3>2 DEF CoreOf
    <2>3. Core(i, a) \subseteq CoreOf(more)
      BY DEF CoreOf
    <2> QED BY <2>1, <2>2, <2>3
  <1>3. ListedOf(lh) \cap BlockUnits(i, a) = {}
    BY DEF Apart, ListedOf, Starts
  <1>4. /\ CoreOf(lh) \subseteq ListedOf(lh) /\ ListedOf(lh) \subseteq Heap
        /\ Core(i, a) \subseteq BlockUnits(i, a)
        /\ Cardinality(Core(i, a)) = BlockSizes[i] /\ BlockSizes[i] \in Nat
    BY ListsIn, CoreIn
  <1>5. IsFiniteSet(Core(i, a))
    <2>1. a \in Int /\ a + BlockSizes[i] - 1 \in Int
      BY <1>4
    <2> QED BY <2>1, FS_Interval DEF Core, Units
  <1>6. IsFiniteSet(CoreOf(lh)) /\ Cardinality(CoreOf(lh)) \in Nat
    BY <1>4, HeapFinite
  <1>7. CoreOf(lh) \cap Core(i, a) = {}
    BY <1>3, <1>4
  <1> HIDE DEF Core
  <1>8. Cardinality(CoreOf(more)) = Cardinality(CoreOf(lh)) + Cardinality(Core(i, a))
    BY <1>2, <1>5, <1>6, <1>7, ApartUnion
  <1>9. Cardinality(CoreOf(more)) = Cardinality(CoreOf(lh)) + BlockSizes[i]
    BY <1>4, <1>6, <1>8
  <1> QED BY <1>1, <1>9

BlockAccounts == Accounts(list_heads, live, holes, taken, block_free)

\* What is behind a block, in units.
LEMMA BehindCount ==
  ASSUME NEW b \in LiveT
  PROVE  LET i == list_index(b.layout)
             n == fallback_size(IF i = 0 THEN b.layout.size ELSE BlockSizes[i])
         IN  n \in Nat /\ n > 0 /\ Behind(b) = Units(b.start, n) /\ Cardinality(Behind(b)) = n
  <1> DEFINE i == list_index(b.layout)
             m == IF i = 0 THEN b.layout.size ELSE BlockSizes[i]
             n == fallback_size(m)
  <1>1. b.layout \in Layouts /\ b.start \in Nat
    BY DEF LiveT
  <1>2. m \in Pos
    <2>1. b.layout.size \in Pos
      BY <1>1, LayoutFacts
    <2>2. i # 0 => BlockSizes[i] \in Pos
      BY <1>1, ListIndex
    <2> QED BY <2>1, <2>2
  <1> HIDE DEF m
  <1>3. n \in Nat /\ n > 0
    BY <1>2, FallbackSize DEF Pos
  <1>4. Behind(b) = Units(b.start, n)
    BY DEF Behind, m
  <1> HIDE DEF n
  <1>5. Cardinality(Units(b.start, n)) = n
    BY <1>1, <1>3, UnitsCount
  <1> QED BY <1>3, <1>4, <1>5 DEF n, m

LEMMA LiveMore ==
  ASSUME NEW lv, NEW b
  PROVE  LiveOf(lv \cup {b}) = LiveOf(lv) \cup Behind(b) /\ LiveOf(lv) \subseteq LiveOf(lv \ {b}) \cup Behind(b)
  <1>1. ASSUME NEW u \in LiveOf(lv \cup {b}) PROVE u \in LiveOf(lv) \cup Behind(b)
    BY <1>1 DEF LiveOf
  <1>2. ASSUME NEW u \in LiveOf(lv) \cup Behind(b) PROVE u \in LiveOf(lv \cup {b})
    BY <1>2 DEF LiveOf
  <1>3. ASSUME NEW u \in LiveOf(lv) PROVE u \in LiveOf(lv \ {b}) \cup Behind(b)
    BY <1>3 DEF LiveOf
  <1> QED BY <1>1, <1>2, <1>3

LEMMA FallbackAccounts ==
  ASSUME BlockInv, BlockAccounts, NEW l \in Layouts, NEW n, NEW al, Passed(l, n, al),
         fallback_alloc(l, n, al)
  PROVE  BlockAccounts'
  <1>1. CASE UNCHANGED <<live, blockVars>>
    BY <1>1 DEF blockVars, BlockAccounts
  <1>2. CASE ~ UNCHANGED <<live, blockVars>>
    <2>1. PICK a \in fallback_fits(n, al) :
            /\ holes' = holes \ Units(a, fallback_size(n))
            /\ live' = live \cup {[start |-> a, layout |-> l]}
            /\ taken' = taken + fallback_size(n)
            /\ list_heads' = list_heads /\ block_free' = block_free
      BY <1>2 DEF fallback_alloc
    <2> DEFINE b == [start |-> a, layout |-> l]
               s == fallback_size(n)
               U == Units(a, s)
    <2>2. holes \subseteq Heap
      BY DEF BlockInv, BlocksOK
    <2>3. b \in LiveT /\ b.layout = l /\ b.start = a /\ Behind(b) = U /\ U \subseteq holes
      BY <2>2, FallbackBlock
    <2>4. s \in Nat /\ Cardinality(U) = s
      <3>1. s = fallback_size(IF list_index(l) = 0 THEN l.size ELSE BlockSizes[list_index(l)])
        BY DEF Passed
      <3> HIDE DEF b, s
      <3> QED BY <2>3, <3>1, BehindCount
    <2>5. live' = live \cup {b} /\ holes' = holes \ U /\ taken' = taken + s
      BY <2>1
    <2> HIDE DEF b, s, U
    <2>6. IsFiniteSet(holes) /\ Cardinality(holes) \in Nat
      BY <2>2, HeapFinite
    <2>7. Cardinality(holes \ U) = Cardinality(holes) - s
      <3>1. holes \cap U = U
        BY <2>3
      <3> QED BY <2>4, <2>6, <3>1, FS_Difference
    <2>8. taken' = HeapSize - Cardinality(holes')
      <3>1. taken = HeapSize - Cardinality(holes) /\ HeapSize \in Nat
        BY HeapAssumption DEF BlockAccounts, Accounts
      <3> QED BY <2>4, <2>5, <2>6, <2>7, <3>1
    <2>9. LiveOf(live') = LiveOf(live) \cup U
      BY <2>3, <2>5, LiveMore
    <2>10. Heap \subseteq LiveOf(live') \cup ListedOf(list_heads') \cup holes'
      <3>1. Heap \subseteq LiveOf(live) \cup ListedOf(list_heads) \cup holes
        BY DEF BlockAccounts, Accounts
      <3> QED BY <2>1, <2>5, <2>9, <3>1
    <2>11. block_free' = Cardinality(CoreOf(list_heads'))
      BY <2>1 DEF BlockAccounts, Accounts
    <2> QED BY <2>8, <2>10, <2>11 DEF BlockAccounts, Accounts
  <1> QED BY <1>1, <1>2

\* The starts in a list without its first block, and with a new first block.
LEMMA StartsOf ==
  ASSUME NEW s \in Seq(Nat)
  PROVE  /\ s # <<>> => Starts(s) = Starts(Tail(s)) \cup {Head(s)}
         /\ \A a \in Nat : Starts(<<a>> \o s) = Starts(s) \cup {a}
  <1>1. ASSUME s # <<>> PROVE Starts(s) = Starts(Tail(s)) \cup {Head(s)}
    <2>1. Len(s) \in Nat /\ Len(s) # 0 /\ Len(Tail(s)) = Len(s) - 1 /\ Head(s) = s[1]
      BY <1>1
    <2>2. \A k \in 1 .. Len(s) - 1 : Tail(s)[k] = s[k + 1]
      BY <1>1, <2>1
    <2>3. ASSUME NEW k \in 1 .. Len(s) PROVE s[k] \in Starts(Tail(s)) \cup {Head(s)}
      <3>1. CASE k = 1
        BY <2>1, <3>1
      <3>2. CASE k # 1
        <4>1. k - 1 \in 1 .. Len(s) - 1 /\ (k - 1) + 1 = k
          BY <2>1, <3>2
        <4>2. Tail(s)[k - 1] = s[k]
          BY <2>2, <4>1
        <4> QED BY <2>1, <4>1, <4>2 DEF Starts
      <3> QED BY <3>1, <3>2
    <2>4. ASSUME NEW k \in 1 .. Len(s) - 1 PROVE Tail(s)[k] \in Starts(s)
      <3>1. k + 1 \in 1 .. Len(s)
        BY <2>1
      <3> QED BY <2>2, <3>1 DEF Starts
    <2>5. Head(s) \in Starts(s)
      BY <2>1 DEF Starts
    <2> QED BY <2>1, <2>3, <2>4, <2>5 DEF Starts
  <1>2. ASSUME NEW a \in Nat PROVE Starts(<<a>> \o s) = Starts(s) \cup {a}
    <2> DEFINE c == <<a>> \o s
    <2>1. /\ Len(c) = Len(s) + 1 /\ Len(s) \in Nat /\ c[1] = a
          /\ \A i \in 1 .. Len(s) : c[i + 1] = s[i]
          /\ \A i \in 2 .. Len(s) + 1 : i - 1 \in 1 .. Len(s) /\ c[i] = s[i - 1]
      BY ConsFacts
    <2> HIDE DEF c
    <2>2. ASSUME NEW k \in 1 .. Len(c) PROVE c[k] \in Starts(s) \cup {a}
      <3>1. k = 1 \/ k \in 2 .. Len(s) + 1
        BY <2>1
      <3> QED BY <2>1, <3>1 DEF Starts
    <2>3. ASSUME NEW k \in 1 .. Len(s) PROVE s[k] \in Starts(c)
      <3>1. k + 1 \in 1 .. Len(c)
        BY <2>1
      <3> QED BY <2>1, <3>1 DEF Starts
    <2>4. a \in Starts(c)
      <3>1. 1 \in 1 .. Len(c)
        BY <2>1
      <3> QED BY <2>1, <3>1 DEF Starts
    <2>5. Starts(c) = Starts(s) \cup {a}
      BY <2>2, <2>3, <2>4 DEF Starts
    <2> QED BY <2>5 DEF c
  <1> QED BY <1>1, <1>2

LEMMA AllocAccounts ==
  ASSUME BlockInv, BlockAccounts, NEW l \in Layouts, block_alloc(l)
  PROVE  BlockAccounts'
  <1> DEFINE i == list_index(l)
  <1>1. CASE i = 0
    <2>1. fallback_alloc(l, l.size, l.align) /\ Passed(l, l.size, l.align)
      BY <1>1 DEF block_alloc, Passed
    <2> QED BY <2>1, FallbackAccounts
  <1>2. CASE i # 0 /\ list_heads[i] = <<>>
    <2>1. fallback_alloc(l, BlockSizes[i], BlockSizes[i]) /\ Passed(l, BlockSizes[i], BlockSizes[i])
      BY <1>2 DEF block_alloc, Passed
    <2> QED BY <2>1, FallbackAccounts
  <1>3. CASE i # 0 /\ list_heads[i] # <<>>
    <2> DEFINE a == Head(list_heads[i])
               b == [start |-> a, layout |-> l]
               after == [list_heads EXCEPT ![i] = Tail(@)]
    <2>1. /\ live' = live \cup {b} /\ list_heads' = after /\ holes' = holes /\ taken' = taken
          /\ block_free' = block_free - BlockSizes[i]
      BY <1>3 DEF block_alloc, block_taken
    <2>2. i \in 1 .. NB
      BY <1>3, ListIndex
    <2>3. /\ BlocksOK(after, live, holes) /\ a \in Nat
          /\ Apart(BlockUnits(i, a), after, live, holes)
      <3> HIDE DEF i
      <3> QED BY <1>3, <2>2, Popped DEF BlockInv
    <2>4. Behind(b) = BlockUnits(i, a)
      BY <1>3 DEF Behind, BlockUnits
    <2> HIDE DEF i
    <2>5. list_heads \in [1 .. NB -> Seq(Nat)] /\ list_heads[i] \in Seq(Nat)
      BY <2>2 DEF BlockInv, BlocksOK
    <2>6. Starts(list_heads[i]) = Starts(after[i]) \cup {a}
      <3>1. after[i] = Tail(list_heads[i])
        BY <2>2, <2>5
      <3> QED BY <1>3, <2>5, <3>1, StartsOf
    <2>7. \A j \in 1 .. NB : j # i => list_heads[j] = after[j]
      BY <2>5
    <2> HIDE DEF a, b, after
    <2>8. /\ ListedOf(list_heads) = ListedOf(after) \cup BlockUnits(i, a)
          /\ Cardinality(CoreOf(list_heads)) = Cardinality(CoreOf(after)) + BlockSizes[i]
      BY <2>2, <2>3, <2>6, <2>7, OneMore
    <2>9. Cardinality(CoreOf(after)) \in Nat /\ BlockSizes[i] \in Nat
      <3>1. CoreOf(after) \subseteq Heap
        BY <2>3, ListsIn
      <3> QED BY <2>2, <2>3, <3>1, HeapFinite, CoreIn
    <2>10. LiveOf(live') = LiveOf(live) \cup BlockUnits(i, a)
      BY <2>1, <2>4, LiveMore
    <2>11. Heap \subseteq LiveOf(live') \cup ListedOf(list_heads') \cup holes'
      BY <2>1, <2>8, <2>10 DEF BlockAccounts, Accounts
    <2>12. block_free' = Cardinality(CoreOf(list_heads'))
      <3>1. block_free = Cardinality(CoreOf(list_heads))
        BY DEF BlockAccounts, Accounts
      <3> QED BY <2>1, <2>8, <2>9, <3>1
    <2>13. taken' = HeapSize - Cardinality(holes')
      BY <2>1 DEF BlockAccounts, Accounts
    <2> QED BY <2>11, <2>12, <2>13 DEF BlockAccounts, Accounts
  <1> QED BY <1>1, <1>2, <1>3

LEMMA DeallocAccounts ==
  ASSUME BlockInv, BlockAccounts, NEW b \in live, block_dealloc(b)
  PROVE  BlockAccounts'
  <1> DEFINE i == list_index(b.layout)
  <1>0. /\ live' = live \ {b} /\ b \in LiveT /\ b.layout \in Layouts /\ b.start \in Nat
        /\ Behind(b) \subseteq Heap /\ holes \subseteq Heap
    BY DEF block_dealloc, BlockInv, BlocksOK, LiveT, LiveOK
  <1>1. /\ BlocksOK(list_heads, live \ {b}, holes)
        /\ Apart(Behind(b), list_heads, live \ {b}, holes)
    BY Unused DEF BlockInv
  <1>2. LiveOf(live) \subseteq LiveOf(live') \cup Behind(b)
    BY <1>0, LiveMore
  <1>3. CASE i = 0
    <2> DEFINE n == fallback_size(b.layout.size)
    <2>1. /\ holes' = holes \cup Units(b.start, n) /\ taken' = taken - n
          /\ list_heads' = list_heads /\ block_free' = block_free
      BY <1>3 DEF block_dealloc
    <2>2. n \in Nat /\ Behind(b) = Units(b.start, n) /\ Cardinality(Behind(b)) = n
      BY <1>0, <1>3, BehindCount
    <2> HIDE DEF n
    <2>3. /\ IsFiniteSet(holes) /\ Cardinality(holes) \in Nat /\ IsFiniteSet(Behind(b))
          /\ holes \cap Behind(b) = {}
      BY <1>0, <1>1, HeapFinite DEF Apart
    <2>4. Cardinality(holes') = Cardinality(holes) + n
      BY <2>1, <2>2, <2>3, ApartUnion
    <2>5. taken' = HeapSize - Cardinality(holes')
      <3>1. taken = HeapSize - Cardinality(holes) /\ HeapSize \in Nat
        BY HeapAssumption DEF BlockAccounts, Accounts
      <3> QED BY <2>1, <2>2, <2>3, <2>4, <3>1
    <2>6. Heap \subseteq LiveOf(live') \cup ListedOf(list_heads') \cup holes'
      <3>1. Heap \subseteq LiveOf(live) \cup ListedOf(list_heads) \cup holes
        BY DEF BlockAccounts, Accounts
      <3> QED BY <1>2, <2>1, <2>2, <3>1
    <2>7. block_free' = Cardinality(CoreOf(list_heads'))
      BY <2>1 DEF BlockAccounts, Accounts
    <2> QED BY <2>5, <2>6, <2>7 DEF BlockAccounts, Accounts
  <1>4. CASE i # 0
    <2> DEFINE a == b.start
               more == [list_heads EXCEPT ![i] = <<a>> \o @]
    <2>1. /\ list_heads' = more /\ holes' = holes /\ taken' = taken
          /\ block_free' = block_free + BlockSizes[i]
      BY <1>4 DEF block_dealloc
    <2>2. i \in 1 .. NB
      BY <1>0, <1>4, ListIndex
    <2>3. Behind(b) = BlockUnits(i, a) /\ a \in Nat
      BY <1>0, <1>4 DEF Behind, BlockUnits
    <2> HIDE DEF i, a
    <2>4. list_heads \in [1 .. NB -> Seq(Nat)] /\ list_heads[i] \in Seq(Nat)
      BY <2>2 DEF BlockInv, BlocksOK
    <2>5. Starts(more[i]) = Starts(list_heads[i]) \cup {a}
      <3>1. more[i] = <<a>> \o list_heads[i]
        BY <2>2, <2>4
      <3> QED BY <2>3, <2>4, <3>1, StartsOf
    <2>6. \A j \in 1 .. NB : j # i => more[j] = list_heads[j]
      BY <2>4
    <2> HIDE DEF more
    <2>7. /\ ListedOf(more) = ListedOf(list_heads) \cup BlockUnits(i, a)
          /\ Cardinality(CoreOf(more)) = Cardinality(CoreOf(list_heads)) + BlockSizes[i]
      BY <1>1, <2>2, <2>3, <2>5, <2>6, OneMore
    <2>8. Heap \subseteq LiveOf(live') \cup ListedOf(list_heads') \cup holes'
      <3>1. Heap \subseteq LiveOf(live) \cup ListedOf(list_heads) \cup holes
        BY DEF BlockAccounts, Accounts
      <3> QED BY <1>2, <2>1, <2>3, <2>7, <3>1
    <2>9. block_free' = Cardinality(CoreOf(list_heads'))
      BY <2>1, <2>7 DEF BlockAccounts, Accounts
    <2>10. taken' = HeapSize - Cardinality(holes')
      BY <2>1 DEF BlockAccounts, Accounts
    <2> QED BY <2>8, <2>9, <2>10 DEF BlockAccounts, Accounts
  <1> QED BY <1>3, <1>4

LEMMA InitialAccounts ==
  ASSUME BlockInit
  PROVE  BlockAccounts
  <1>1. /\ holes = Heap /\ taken = 0 /\ block_free = 0
        /\ list_heads = [i \in 1 .. NB |-> <<>>]
    BY DEF BlockInit, Heap, NB
  <1>2. CoreOf(list_heads) = {}
    <2>1. \A i \in 1 .. NB : Starts(list_heads[i]) = {}
      BY <1>1 DEF Starts
    <2> QED BY <2>1 DEF CoreOf
  <1>3. HeapSize - HeapSize = 0
    BY HeapAssumption
  <1> QED BY <1>1, <1>2, <1>3, HeapFinite, FS_EmptySet DEF BlockAccounts, Accounts

\* As many blocks are in use as have room, and a list is no longer than the heap.
LEMMA LiveFinite ==
  ASSUME BlockInv
  PROVE  IsFiniteSet(live)
  <1> DEFINE f == [b \in live |-> b.start]
  <1>1. ASSUME NEW b \in live PROVE b.start \in Behind(b) /\ b.start \in Heap
    <2>1. b \in LiveT /\ Behind(b) \subseteq Heap
      BY DEF BlockInv, BlocksOK, LiveOK
    <2>2. PICK n \in Nat : n > 0 /\ Behind(b) = Units(b.start, n)
      BY <2>1, BehindCount
    <2>3. b.start \in Nat
      BY <2>1 DEF LiveT
    <2>4. b.start \in Units(b.start, n)
      BY <2>2, <2>3, UnitsIn
    <2> QED BY <2>1, <2>2, <2>4
  <1>2. \A b, c \in live : b.start = c.start => b = c
    BY <1>1 DEF BlockInv, BlocksOK
  <1>3. f \in Injection(live, Heap)
    BY <1>1, <1>2 DEF Injection, IsInjective
  <1> QED BY <1>3, HeapFinite, FS_Injection

LEMMA ListShort ==
  ASSUME BlockInv, NEW i \in 1 .. NB
  PROVE  list_heads[i] \in Seq(Nat) /\ Len(list_heads[i]) \in 0 .. HeapSize
  <1> DEFINE s == list_heads[i]
             f == [k \in 1 .. Len(s) |-> s[k]]
  <1>0. s \in Seq(Nat) /\ Len(s) \in Nat
    BY DEF BlockInv, BlocksOK
  <1>1. ASSUME NEW k \in 1 .. Len(s) PROVE s[k] \in BlockUnits(i, s[k]) /\ s[k] \in Heap
    <2>1. BlockUnits(i, s[k]) \subseteq Heap
      BY DEF BlockInv, BlocksOK
    <2>2. s[k] \in Nat
      BY <1>0
    <2>3. BlockSizes[i] \in Nat /\ s[k] \in Core(i, s[k])
      <3>1. BlockSizes[i] \in Nat /\ BlockSizes[i] > 0
        <4> DEFINE P == Nat \ {0}
        <4>1. BlockSizes \in Seq(P) /\ i \in 1 .. Len(BlockSizes)
          BY HeapAssumption DEF NB
        <4> HIDE DEF P
        <4>2. BlockSizes[i] \in P
          BY <4>1
        <4> QED BY <4>2 DEF P
      <3> QED BY <2>2, <3>1, UnitsIn DEF Core
    <2> QED BY <2>1, <2>2, <2>3, CoreIn
  <1>2. \A k, m \in 1 .. Len(s) : s[k] = s[m] => k = m
    BY <1>1 DEF BlockInv, BlocksOK
  <1> HIDE DEF s
  <1>3. f \in Injection(1 .. Len(s), Heap)
    BY <1>1, <1>2 DEF Injection, IsInjective
  <1>4. Cardinality(1 .. Len(s)) <= HeapSize
    <2> HIDE DEF f
    <2> QED BY <1>3, HeapFinite, FS_Injection
  <1>5. Cardinality(1 .. Len(s)) = Len(s)
    <2>1. 1 \in Int /\ Len(s) \in Int
      BY <1>0
    <2>2. Cardinality(1 .. Len(s)) = IF 1 > Len(s) THEN 0 ELSE Len(s) - 1 + 1
      BY <2>1, FS_Interval
    <2> QED BY <1>0, <2>2
  <1>6. HeapSize \in Nat
    BY HeapAssumption
  <1> QED BY <1>0, <1>4, <1>5, <1>6 DEF s

LEMMA ListedIs ==
  ASSUME BlockInv
  PROVE  /\ IsFiniteSet(Listed)
         /\ \A e \in Listed : e = <<e[1], e[2]>> /\ e[1] \in 1 .. NB /\ e[2] \in 1 .. Len(list_heads[e[1]])
                              /\ list_heads[e[1]][e[2]] \in Nat
         /\ \A i \in 1 .. NB : \A k \in 1 .. Len(list_heads[i]) : <<i, k>> \in Listed
  <1> DEFINE P == (1 .. NB) \X (1 .. HeapSize)
  <1>0. Listed = {e \in P : e[2] <= Len(list_heads[e[1]])}
    BY DEF Listed, NB
  <1>1. IsFiniteSet(P)
    <2>1. NB \in Int /\ HeapSize \in Int /\ 1 \in Int
      BY HeapAssumption DEF NB
    <2>2. IsFiniteSet(1 .. NB) /\ IsFiniteSet(1 .. HeapSize)
      BY <2>1, FS_Interval
    <2> QED BY <2>2, FS_Product
  <1>2. IsFiniteSet(Listed)
    <2> HIDE DEF P
    <2> QED BY <1>0, <1>1, FS_Subset
  <1>3. ASSUME NEW e \in Listed
        PROVE  e = <<e[1], e[2]>> /\ e[1] \in 1 .. NB /\ e[2] \in 1 .. Len(list_heads[e[1]])
               /\ list_heads[e[1]][e[2]] \in Nat
    <2>1. e \in P /\ e[2] <= Len(list_heads[e[1]])
      BY <1>0
    <2>2. e = <<e[1], e[2]>> /\ e[1] \in 1 .. NB /\ e[2] \in 1 .. HeapSize
      BY <2>1
    <2>3. list_heads[e[1]] \in Seq(Nat) /\ Len(list_heads[e[1]]) \in Nat
      BY <2>2, ListShort
    <2>4. e[2] \in 1 .. Len(list_heads[e[1]])
      BY <2>1, <2>2, <2>3
    <2> QED BY <2>2, <2>3, <2>4
  <1>4. ASSUME NEW i \in 1 .. NB, NEW k \in 1 .. Len(list_heads[i]) PROVE <<i, k>> \in Listed
    <2>1. Len(list_heads[i]) \in 0 .. HeapSize /\ HeapSize \in Nat
      BY ListShort, HeapAssumption
    <2>2. k \in 1 .. HeapSize /\ k <= Len(list_heads[i])
      BY <2>1
    <2> QED BY <1>0, <2>2
  <1> QED BY <1>2, <1>3, <1>4

\* What the sums of the accounts come to.
LEMMA LiveTotal ==
  ASSUME BlockInv
  PROVE  MapThenSumSet(LAMBDA b : Cardinality(Behind(b)), live) = Cardinality(LiveOf(live))
  <1> DEFINE U == [b \in live |-> Behind(b)]
             w == [b \in live |-> Cardinality(Behind(b))]
  <1>1. All(U, live) = LiveOf(live)
    BY DEF All, LiveOf
  <1>2. LiveOf(live) \subseteq Heap
    BY ListsIn DEF BlockInv
  <1>3. \A b, c \in live : b # c => U[b] \cap U[c] = {}
    BY DEF BlockInv, BlocksOK
  <1>4. \A b \in live : w[b] = Cardinality(U[b])
    OBVIOUS
  <1> HIDE DEF U
  <1>5. Sized(U, w, live)
    <2> HIDE DEF w
    <2> QED BY <1>1, <1>2, <1>3, <1>4, LiveFinite, HeapFinite DEF Sized
  <1> QED BY <1>1, <1>5, LiveSum

LEMMA ListedTotal ==
  ASSUME BlockInv
  PROVE  /\ UNION {ListedUnits(e) : e \in Listed} = ListedOf(list_heads)
         /\ MapThenSumSet(LAMBDA e : Cardinality(ListedUnits(e)), Listed)
              = Cardinality(ListedOf(list_heads))
  <1> DEFINE U == [e \in Listed |-> ListedUnits(e)]
             w == [e \in Listed |-> Cardinality(ListedUnits(e))]
  <1>0. ASSUME NEW e \in Listed
        PROVE  ListedUnits(e) = BlockUnits(e[1], list_heads[e[1]][e[2]])
    BY DEF ListedUnits, BlockUnits
  <1>1. UNION {ListedUnits(e) : e \in Listed} = ListedOf(list_heads)
    <2>1. ASSUME NEW e \in Listed PROVE ListedUnits(e) \subseteq ListedOf(list_heads)
      BY <1>0, ListedIs DEF ListedOf, Starts
    <2>2. ASSUME NEW i \in 1 .. NB, NEW k \in 1 .. Len(list_heads[i])
          PROVE  BlockUnits(i, list_heads[i][k]) \subseteq UNION {ListedUnits(e) : e \in Listed}
      <3>1. <<i, k>> \in Listed /\ <<i, k>>[1] = i /\ <<i, k>>[2] = k
        BY ListedIs
      <3>2. ListedUnits(<<i, k>>) = BlockUnits(i, list_heads[i][k])
        BY <1>0, <3>1
      <3> QED BY <3>1, <3>2
    <2>3. ListedOf(list_heads) \subseteq UNION {ListedUnits(e) : e \in Listed}
      BY <2>2 DEF ListedOf, Starts
    <2> QED BY <2>1, <2>3
  <1>2. All(U, Listed) = ListedOf(list_heads)
    BY <1>1 DEF All
  <1>3. ListedOf(list_heads) \subseteq Heap
    BY ListsIn DEF BlockInv
  <1>4. ASSUME NEW e \in Listed, NEW f \in Listed, e # f PROVE U[e] \cap U[f] = {}
    <2>1. /\ e = <<e[1], e[2]>> /\ e[1] \in 1 .. NB /\ e[2] \in 1 .. Len(list_heads[e[1]])
          /\ f = <<f[1], f[2]>> /\ f[1] \in 1 .. NB /\ f[2] \in 1 .. Len(list_heads[f[1]])
      BY ListedIs
    <2>2. e[1] # f[1] \/ e[2] # f[2]
      BY <1>4, <2>1
    <2>3. BlockUnits(e[1], list_heads[e[1]][e[2]]) \cap BlockUnits(f[1], list_heads[f[1]][f[2]]) = {}
      BY <2>1, <2>2 DEF BlockInv, BlocksOK
    <2> QED BY <1>0, <2>3
  <1>5. \A e \in Listed : w[e] = Cardinality(U[e])
    OBVIOUS
  <1> HIDE DEF U
  <1>6. Sized(U, w, Listed)
    <2> HIDE DEF w
    <2> QED BY <1>2, <1>3, <1>4, <1>5, ListedIs, HeapFinite DEF Sized
  <1> QED BY <1>1, <1>2, <1>6, ListedSum

LEMMA FreeTotal ==
  ASSUME BlockInv
  PROVE  MapThenSumSet(LAMBDA e : BlockSizes[e[1]], Listed) = Cardinality(CoreOf(list_heads))
  <1> DEFINE At(e) == list_heads[e[1]][e[2]]
             U == [e \in Listed |-> Core(e[1], At(e))]
             w == [e \in Listed |-> BlockSizes[e[1]]]
  <1>0. ASSUME NEW e \in Listed
        PROVE  /\ e = <<e[1], e[2]>> /\ e[1] \in 1 .. NB /\ e[2] \in 1 .. Len(list_heads[e[1]])
               /\ U[e] \subseteq BlockUnits(e[1], At(e)) /\ w[e] = Cardinality(U[e])
    <2>1. /\ e = <<e[1], e[2]>> /\ e[1] \in 1 .. NB /\ e[2] \in 1 .. Len(list_heads[e[1]])
          /\ At(e) \in Nat
      BY ListedIs
    <2> HIDE DEF At
    <2> QED BY <2>1, CoreIn
  <1>1. All(U, Listed) = CoreOf(list_heads)
    <2>1. ASSUME NEW e \in Listed PROVE U[e] \subseteq CoreOf(list_heads)
      BY <1>0 DEF CoreOf, Starts
    <2>2. ASSUME NEW i \in 1 .. NB, NEW k \in 1 .. Len(list_heads[i])
          PROVE  Core(i, list_heads[i][k]) \subseteq All(U, Listed)
      <3>1. <<i, k>> \in Listed /\ <<i, k>>[1] = i /\ <<i, k>>[2] = k
        BY ListedIs
      <3>2. U[<<i, k>>] = Core(i, list_heads[i][k])
        BY <3>1
      <3> QED BY <3>1, <3>2 DEF All
    <2>3. CoreOf(list_heads) \subseteq All(U, Listed)
      BY <2>2 DEF CoreOf, Starts
    <2> QED BY <2>1, <2>3 DEF All
  <1>2. CoreOf(list_heads) \subseteq Heap
    BY ListsIn DEF BlockInv
  <1>3. ASSUME NEW e \in Listed, NEW f \in Listed, e # f PROVE U[e] \cap U[f] = {}
    <2>1. e[1] # f[1] \/ e[2] # f[2]
      BY <1>0, <1>3
    <2>2. BlockUnits(e[1], At(e)) \cap BlockUnits(f[1], At(f)) = {}
      BY <1>0, <2>1 DEF BlockInv, BlocksOK
    <2> QED BY <1>0, <2>2
  <1> HIDE DEF U
  <1>4. Sized(U, w, Listed)
    <2> HIDE DEF w
    <2> QED BY <1>0, <1>1, <1>2, <1>3, ListedIs, HeapFinite DEF Sized
  <1> QED BY <1>1, <1>4, FreeSum

LEMMA AllAccounted ==
  ASSUME BlockInv, BlockAccounts
  PROVE  BlocksAccounted /\ HeapPartitioned
  <1> DEFINE L == LiveOf(live)
             K == ListedOf(list_heads)
             C == CoreOf(list_heads)
             h == Cardinality(holes)
  <1>1. L \subseteq Heap /\ K \subseteq Heap /\ C \subseteq K /\ holes \subseteq Heap
    BY ListsIn DEF BlockInv, BlocksOK
  <1>2. L \cap K = {} /\ L \cap holes = {} /\ K \cap holes = {}
    <2>1. L \cap holes = {}
      BY DEF BlockInv, BlocksOK, LiveOf
    <2>2. K \cap holes = {}
      <3> SUFFICES ASSUME NEW i \in 1 .. NB, NEW k \in 1 .. Len(list_heads[i])
                   PROVE  BlockUnits(i, list_heads[i][k]) \cap holes = {}
        BY DEF ListedOf, Starts
      <3> QED BY DEF BlockInv, BlocksOK
    <2>3. L \cap K = {}
      <3> SUFFICES ASSUME NEW b \in live, NEW i \in 1 .. NB, NEW k \in 1 .. Len(list_heads[i])
                   PROVE  BlockUnits(i, list_heads[i][k]) \cap Behind(b) = {}
        BY DEF ListedOf, Starts, LiveOf
      <3> QED BY DEF BlockInv, BlocksOK
    <2> QED BY <2>1, <2>2, <2>3
  <1>3. L \cup K \cup holes = Heap
    BY <1>1 DEF BlockAccounts, Accounts
  <1>4. taken = HeapSize - h /\ block_free = Cardinality(C)
    BY DEF BlockAccounts, Accounts
  <1>5. LiveUnits \subseteq L
    BY DEF LiveUnits, LiveOf, BlockInv, BlocksOK, LiveOK
  <1> HIDE DEF L, K, C
  <1>6. /\ IsFiniteSet(L) /\ Cardinality(L) \in Nat /\ IsFiniteSet(K) /\ Cardinality(K) \in Nat
        /\ IsFiniteSet(C) /\ Cardinality(C) \in Nat /\ IsFiniteSet(holes) /\ h \in Nat
        /\ HeapSize \in Nat
    BY <1>1, HeapFinite, HeapAssumption
  <1>7. HeapSize = Cardinality(L) + Cardinality(K) + h
    <2>1. IsFiniteSet(L \cup K) /\ Cardinality(L \cup K) = Cardinality(L) + Cardinality(K)
      BY <1>2, <1>6, ApartUnion
    <2>2. (L \cup K) \cap holes = {}
      BY <1>2
    <2> DEFINE M == L \cup K
    <2> HIDE DEF M
    <2>3. Cardinality(M \cup holes) = Cardinality(M) + Cardinality(holes)
      BY <1>6, <2>1, <2>2, ApartUnion DEF M
    <2>4. M \cup holes = Heap
      BY <1>3 DEF M
    <2> QED BY <1>6, <2>1, <2>3, <2>4, HeapFinite DEF M
  <1>8. Cardinality(C) <= Cardinality(K)
    BY <1>1, <1>6, FS_Subset
  <1>9. Cardinality(LiveUnits) <= Cardinality(L) /\ Cardinality(LiveUnits) \in Nat
    BY <1>5, <1>6, FS_Subset, FS_CardinalityType
  <1>10. BlocksAccounted
    <2>1. block_free = MapThenSumSet(LAMBDA e : BlockSizes[e[1]], Listed)
      BY <1>4, FreeTotal DEF C
    <2> DEFINE x == Cardinality(L)
               y == Cardinality(K)
               z == Cardinality(C)
               v == Cardinality(LiveUnits)
    <2>2. x \in Nat /\ y \in Nat /\ z \in Nat /\ v \in Nat /\ h \in Nat /\ HeapSize \in Nat
          /\ z <= y /\ v <= x /\ HeapSize = x + y + h /\ taken = HeapSize - h /\ block_free = z
      BY <1>4, <1>6, <1>7, <1>8, <1>9
    <2> HIDE DEF x, y, z, v, h
    <2>3. 0 <= used /\ 0 <= free /\ used + free = size /\ v <= used
      BY <2>2 DEF used, free, size
    <2> QED BY <2>1, <2>3 DEF BlocksAccounted, v
  <1>11. HeapPartitioned
    <2>1. MapThenSumSet(LAMBDA b : Cardinality(Behind(b)), live) = Cardinality(L)
      BY LiveTotal DEF L
    <2>2. /\ UNION {ListedUnits(e) : e \in Listed} = K
          /\ MapThenSumSet(LAMBDA e : Cardinality(ListedUnits(e)), Listed) = Cardinality(K)
      BY ListedTotal DEF K
    <2>3. UNION ({Behind(b) : b \in live} \cup {ListedUnits(e) : e \in Listed} \cup {holes}) = Heap
      <3> DEFINE A == {Behind(b) : b \in live}
                 B == {ListedUnits(e) : e \in Listed}
      <3>1. UNION A = L /\ UNION B = K
        BY <2>2 DEF L, LiveOf
      <3> HIDE DEF A, B
      <3>2. UNION (A \cup B \cup {holes}) = (UNION A) \cup (UNION B) \cup holes
        OBVIOUS
      <3>3. UNION (A \cup B \cup {holes}) = Heap
        BY <1>3, <3>1, <3>2
      <3> QED BY <3>3 DEF A, B
    <2> QED BY <1>7, <2>1, <2>2, <2>3 DEF HeapPartitioned, Heap
  <1> QED BY <1>10, <1>11

-------------------------------------------------------------------------------
(* Theorems.                                                               *)

IInv ==
  /\ which = "block" => BlockInv /\ BlockAccounts
  /\ which = "list" => ListInv
  /\ which \in {"block", "list"}

LEMMA Initially ==
  ASSUME MCInit
  PROVE  IInv
  BY BlockInitially, InitialAccounts, ListInitially DEF MCInit, IInv

LEMMA Inductive ==
  ASSUME IInv, [MCNext]_mcVars
  PROVE  /\ IInv' /\ [Next]_live
         /\ which' = which /\ [which = "list" => LosesOnlyPadding]_mcVars
  <1>1. CASE UNCHANGED mcVars
    BY <1>1 DEF mcVars, blockVars, listVars, IInv, BlockInv, BlockAccounts, ListInv
  <1>2. CASE which = "block" /\ MCNext
    <2>1. BlockInv /\ BlockAccounts /\ BlockNext /\ which' = which
      BY <1>2 DEF IInv, MCNext
    <2>2. BlockInv' /\ BlockAccounts' /\ [Next]_live
      <3>1. CASE \E l \in Layouts : block_alloc(l)
        BY <2>1, <3>1, BlockAlloc, AllocAccounts DEF Next
      <3>2. CASE \E b \in live : block_dealloc(b)
        BY <2>1, <3>2, BlockDealloc, DeallocAccounts DEF Next
      <3> QED BY <2>1, <3>1, <3>2 DEF BlockNext
    <2> QED BY <1>2, <2>1, <2>2 DEF IInv
  <1>3. CASE which = "list" /\ MCNext
    <2>1. ListInv /\ ListNext /\ which' = which
      BY <1>3 DEF IInv, MCNext
    <2>2. ListInv' /\ [Next]_live /\ LosesOnlyPadding
      <3>1. CASE \E l \in Layouts : list_alloc(l)
        BY <2>1, <3>1, ListAlloc DEF Next
      <3>2. CASE \E b \in live : list_dealloc(b)
        BY <2>1, <3>2, ListDealloc DEF Next
      <3> QED BY <2>1, <3>1, <3>2 DEF ListNext
    <2> QED BY <1>3, <2>1, <2>2 DEF IInv
  <1> QED BY <1>1, <1>2, <1>3 DEF IInv

LEMMA Invariant ==
  MCSpec => []IInv
  BY Initially, Inductive, PTL DEF MCSpec

\* Both allocators keep the promise of a GlobalAlloc: FixedSizeBlockAllocator and
\* LinkedListAllocator answer every request with memory of the heap that is aligned,
\* large enough and not in use, or with a null pointer, for every heap, whatever was
\* allocated and freed before.
THEOREM KeepsThePromise ==
  MCSpec => ImplementsAllocator
  <1>1. ASSUME MCInit PROVE Init
    BY <1>1 DEF MCInit, BlockInit, ListInit, Init
  <1>2. ASSUME IInv, [MCNext]_mcVars PROVE [Next]_live
    BY <1>2, Inductive
  <1> QED BY <1>1, <1>2, Invariant, PTL DEF MCSpec, ImplementsAllocator, Spec

\* LinkedListAllocator writes its nodes into free memory that can hold them, and the two
\* assertions of add_free_region hold after every sequence of calls.
THEOREM RegionsStaySound ==
  MCSpec => []ListRegionsSound
  <1>1. ASSUME IInv PROVE ListRegionsSound
    BY <1>1 DEF IInv, ListInv, ListOK, Fits, ListRegionsSound, RegionsSound, Region, RegionUnits,
       UnitsOf, Heap
  <1> QED BY <1>1, Invariant, PTL

\* The only memory LinkedListAllocator loses is the padding in front of an aligned
\* allocation, less than the alignment; what is freed is never lost.
THEOREM OnlyPaddingIsLost ==
  MCSpec => ListLosesOnlyPadding
  <1>1. ASSUME IInv, [MCNext]_mcVars PROVE [which = "list" => LosesOnlyPadding]_mcVars
    BY <1>1, Inductive
  <1> QED BY <1>1, Invariant, PTL DEF MCSpec, ListLosesOnlyPadding

\* FixedSizeBlockAllocator keeps its accounts: block_free is the size of the blocks in the
\* lists, used() and free() never underflow and add up to the heap, no more is reported
\* free than there is, and every unit of the heap is behind one live block, behind one
\* block of one list, or in a hole of the fallback heap.
THEOREM BlocksStayAccounted ==
  MCSpec => []BlockMemoryAccounted
  <1>1. ASSUME IInv PROVE BlockMemoryAccounted
    BY <1>1, AllAccounted DEF IInv, BlockMemoryAccounted
  <1> QED BY <1>1, Invariant, PTL

===============================================================================
