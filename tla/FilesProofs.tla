------------------------------- MODULE FilesProofs -------------------------------
(***************************************************************************)
(* Proofs about Files for every directory, every set of mounts and         *)
(* arguments and every bound on the descriptors.                           *)
(***************************************************************************)
EXTENDS Files, FiniteSetTheorems, TLAPS

-------------------------------------------------------------------------------
(* The inductive invariant.                                                *)

Bytes   == STRING \cup {"\n"}   \* the provers do not know that a string is in STRING
MountT  == [name : Names, folder : DOMAIN Folders]
HandleT == [folder : BOOLEAN, data : Seq(Bytes), index : Nat]
SlotT   == [fd : 1 .. MaxFd, handle : HandleT]
Texts   == Seq(Bytes)

Shape ==
  /\ mounts \in Seq(MountT)
  /\ handles \in Seq(SlotT)
  /\ next_descriptor \in 1 .. MaxFd + 1
  /\ seen \in [1 .. MaxFd -> Texts]
  /\ listed \in [1 .. MaxFd -> Texts]
  /\ halted \in BOOLEAN

\* Descriptors are given in ascending order and the table keeps that order.
Ordered ==
  /\ \A i \in 1 .. Len(handles) : handles[i].fd < next_descriptor
  /\ \A i, j \in 1 .. Len(handles) : i < j => handles[i].fd < handles[j].fd

\* No handle is past its end.  The text of a folder is that of the names it had, and the
\* program was given the text up to the index.
SlotAt(i) ==
  LET h == handles[i].handle
      d == handles[i].fd
  IN  /\ h.index <= Len(h.data)
      /\ h.folder => /\ h.data = dir_names_to_handle(listed[d])
                     /\ seen[d] = SubSeq(h.data, 1, h.index)

IInv ==
  /\ Shape
  /\ Ordered
  /\ \A i \in 1 .. Len(handles) : SlotAt(i)

-------------------------------------------------------------------------------
(* Sequences.                                                              *)

\* A set of numbers that is not empty has a least one.
LEMMA LeastExists ==
  ASSUME NEW S \in SUBSET Nat, S # {}
  PROVE  \E m \in S : \A n \in S : m <= n
  <1> DEFINE T == {0 .. n : n \in S}
             R == StrictSubsetOrdering(Nat)
  <1>1. \A n \in S : 0 .. n \in FiniteSubsetsOf(Nat)
    BY FS_Interval DEF FiniteSubsetsOf
  <1>2. T \subseteq FiniteSubsetsOf(Nat) /\ T # {}
    BY <1>1
  <1>3. IsWellFoundedOn(R, FiniteSubsetsOf(Nat))
    BY FS_StrictSubsetOrderingWellFounded
  <1> HIDE DEF T, R
  <1>4. PICK x \in T : \A y \in T : ~ (<<y, x>> \in R)
    BY <1>2, <1>3, WFMin
  <1>5. PICK m \in S : x = 0 .. m
    BY <1>4 DEF T
  <1>6. ASSUME NEW n \in S, n < m PROVE FALSE
    <2>1. 0 .. n \in T
      BY DEF T
    <2>2. 0 .. n \subseteq 0 .. m /\ m \in 0 .. m /\ m \notin 0 .. n
      BY <1>6
    <2>3. <<0 .. n, 0 .. m>> \in R
      <3>1. 0 .. n \in SUBSET Nat /\ 0 .. m \in SUBSET Nat
        OBVIOUS
      <3> QED BY <2>2, <3>1 DEF R, StrictSubsetOrdering
    <2> QED BY <1>4, <1>5, <2>1, <2>3
  <1> QED BY <1>6

\* The least of a set of places in a sequence, as SelectInSeq finds it.
LEMMA MinPlace ==
  ASSUME NEW I \in SUBSET Nat, I # {}
  PROVE  Min(I) \in I /\ \A j \in I : Min(I) <= j
  <1>1. \E m \in I : \A n \in I : m <= n
    BY LeastExists
  <1> QED BY <1>1 DEF Min

\* The place of a descriptor in a table.
PositionIn(hs, fd) == SelectInSeq(hs, LAMBDA x : x.fd = fd)

LEMMA PositionFacts ==
  ASSUME NEW hs, Len(hs) \in Nat, NEW fd
  PROVE  LET p == PositionIn(hs, fd)
         IN  /\ p \in 0 .. Len(hs)
             /\ p = 0 => \A i \in 1 .. Len(hs) : hs[i].fd # fd
             /\ p # 0 => p \in 1 .. Len(hs) /\ hs[p].fd = fd
  <1> DEFINE I == {i \in 1 .. Len(hs) : hs[i].fd = fd}
             p == PositionIn(hs, fd)
  <1>1. p = IF I # {} THEN Min(I) ELSE 0
    BY DEF PositionIn, SelectInSeq
  <1>2. I \in SUBSET Nat
    OBVIOUS
  <1>3. CASE I = {}
    <2>1. p = 0 /\ \A i \in 1 .. Len(hs) : hs[i].fd # fd
      BY <1>1, <1>3
    <2> HIDE DEF I, p
    <2> QED BY <2>1 DEF p
  <1>4. CASE I # {}
    <2>1. Min(I) \in I
      <3> HIDE DEF I
      <3> QED BY <1>2, <1>4, MinPlace
    <2>2. p \in 1 .. Len(hs) /\ hs[p].fd = fd
      BY <1>1, <1>4, <2>1
    <2> HIDE DEF I, p
    <2> QED BY <2>2 DEF p
  <1> QED BY <1>3, <1>4

\* A table in which descriptors ascend.
Ascends(hs) == \A i, j \in 1 .. Len(hs) : i < j => hs[i].fd < hs[j].fd

\* What is found is what is there.
LEMMA FoundIs ==
  ASSUME NEW S, NEW hs \in Seq(S), \A i \in 1 .. Len(hs) : hs[i].fd \in Int,
         Ascends(hs), NEW i \in 1 .. Len(hs)
  PROVE  PositionIn(hs, hs[i].fd) = i
  <1> DEFINE p == PositionIn(hs, hs[i].fd)
  <1>0. Len(hs) \in Nat
    OBVIOUS
  <1>1. /\ p = 0 => \A j \in 1 .. Len(hs) : hs[j].fd # hs[i].fd
        /\ p # 0 => p \in 1 .. Len(hs) /\ hs[p].fd = hs[i].fd
    BY <1>0, PositionFacts
  <1> HIDE DEF p
  <1>2. p \in 1 .. Len(hs) /\ hs[p].fd = hs[i].fd
    BY <1>1
  <1>3. ~ (p < i) /\ ~ (i < p)
    BY <1>2 DEF Ascends
  <1>4. p = i
    BY <1>0, <1>2, <1>3
  <1> QED BY <1>4 DEF p

LEMMA PositionIs ==
  \A fd : Position(fd) = PositionIn(handles, fd)
  BY DEF Position, PositionIn

\* An element in place of another one.
LEMMA PutFacts ==
  ASSUME NEW T, NEW hs \in Seq(T), NEW p \in 1 .. Len(hs), NEW y \in T
  PROVE  LET r == [hs EXCEPT ![p] = y]
         IN  /\ r \in Seq(T) /\ Len(r) = Len(hs) /\ r[p] = y
             /\ \A j \in 1 .. Len(hs) : j # p => r[j] = hs[j]
  OBVIOUS

\* The tables after the calls.
LEMMA AppendFacts ==
  ASSUME NEW S, NEW hs \in Seq(S), NEW x \in S
  PROVE  /\ Append(hs, x) \in Seq(S) /\ Len(Append(hs, x)) = Len(hs) + 1 /\ Len(hs) \in Nat
         /\ \A i \in 1 .. Len(hs) : Append(hs, x)[i] = hs[i]
         /\ Append(hs, x)[Len(hs) + 1] = x
         /\ \A i \in 1 .. Len(hs) + 1 : i = Len(hs) + 1 \/ i \in 1 .. Len(hs)
  OBVIOUS

LEMMA RemoveFacts ==
  ASSUME NEW S, NEW hs \in Seq(S), NEW p \in 1 .. Len(hs)
  PROVE  /\ RemoveAt(hs, p) \in Seq(S) /\ Len(RemoveAt(hs, p)) = Len(hs) - 1 /\ Len(hs) \in Nat
         /\ \A i \in 1 .. Len(hs) - 1 :
              RemoveAt(hs, p)[i] = hs[IF i < p THEN i ELSE i + 1]
  <1> DEFINE a == SubSeq(hs, 1, p - 1)
             b == SubSeq(hs, p + 1, Len(hs))
             n == Len(hs)
  <1>0. n \in Nat /\ p \in Nat /\ p >= 1 /\ p <= n
    OBVIOUS
  <1>1. RemoveAt(hs, p) = a \o b
    BY DEF RemoveAt
  <1>2. a \in Seq(S) /\ Len(a) = p - 1 /\ \A i \in 1 .. p - 1 : a[i] = hs[i]
    <2>1. p - 1 \in Nat /\ p - 1 <= n /\ \A i \in 1 .. p - 1 : i \in 1 .. n
      BY <1>0
    <2> QED BY <1>0, <2>1
  <1>3. b \in Seq(S) /\ Len(b) = n - p /\ \A i \in 1 .. n - p : b[i] = hs[p + i]
    <2>1. n - p \in Nat /\ \A i \in 1 .. n - p : p + i \in 1 .. n /\ (p + 1) + i - 1 = p + i
      BY <1>0
    <2> QED BY <1>0, <2>1
  <1> HIDE DEF a, b, n
  <1>4. a \o b \in Seq(S) /\ Len(a \o b) = n - 1
    <2>0. a \in Seq(S) /\ b \in Seq(S)
      BY <1>2, <1>3
    <2>1. a \o b \in Seq(S) /\ Len(a \o b) = Len(a) + Len(b)
      BY <2>0
    <2> QED BY <1>0, <1>2, <1>3, <2>1
  <1>5. ASSUME NEW i \in 1 .. n - 1 PROVE (a \o b)[i] = hs[IF i < p THEN i ELSE i + 1]
    <2>1. CASE i < p
      <3>1. i \in 1 .. p - 1
        BY <1>0, <2>1
      <3>2. (a \o b)[i] = a[i]
        BY <1>0, <1>2, <1>3, <3>1
      <3> QED BY <1>2, <2>1, <3>1, <3>2
    <2>2. CASE ~ (i < p)
      <3> DEFINE j == i - (p - 1)
      <3>1. j \in 1 .. n - p /\ p + j = i + 1 /\ i = (p - 1) + j
        BY <1>0, <2>2
      <3>2. (a \o b)[i] = b[j]
        <4>1. i > Len(a) /\ i <= Len(a) + Len(b) /\ i - Len(a) = j
          BY <1>0, <1>2, <1>3, <2>2, <3>1
        <4> QED BY <1>2, <1>3, <4>1
      <3> HIDE DEF j
      <3> QED BY <1>3, <2>2, <3>1, <3>2
    <2> QED BY <2>1, <2>2
  <1> QED BY <1>0, <1>1, <1>4, <1>5 DEF n

-------------------------------------------------------------------------------
(* Navigation ends at a place that exists.                                 *)

PlaceOK(r) == r.ok => \/ r.at = Root
                      \/ /\ ~ r.at.root /\ r.at.folder \in DOMAIN Folders
                         /\ r.at.file = None \/ r.at.file \in DOMAIN Content

LEMMA StepOK ==
  ASSUME NEW r, NEW x, PlaceOK(r), r.ok => ~ r.at.root
  PROVE  PlaceOK(init_step(r, x)) /\ (init_step(r, x).ok => ~ init_step(r, x).at.root)
  <1>1. CASE ~ r.ok \/ path_step(x) = "Current"
    BY <1>1 DEF init_step
  <1>2. CASE ~ (~ r.ok \/ path_step(x) = "Current") /\ path_step(x) = "Parent"
    BY <1>2 DEF init_step, PlaceOK, Err
  <1>3. CASE ~ (~ r.ok \/ path_step(x) = "Current") /\ path_step(x) # "Parent"
    <2> DEFINE p == r.at
               es == Folders[p.folder]
               i == SelectInSeq(es, LAMBDA e : e.name = x)
    <2>1. init_step(r, x) = rel_open(p, x)
      BY <1>3 DEF init_step
    <2>2. CASE p.file = None \/ i = 0
      <3>1. rel_open(p, x) = Err
        BY <2>2 DEF rel_open
      <3> QED BY <2>1, <3>1 DEF PlaceOK, Err
    <2>3. CASE ~ (p.file = None \/ i = 0)
      <3>1. p.folder \in DOMAIN Folders
        BY <1>3 DEF PlaceOK, Root
      <3> DEFINE T == Entry
      <3>2. es \in Seq(T)
        BY <3>1, FilesAssumption
      <3> HIDE DEF T
      <3>3. i \in 1 .. Len(es)
        <4> DEFINE I == {j \in 1 .. Len(es) : es[j].name = x}
        <4>1. i = IF I # {} THEN Min(I) ELSE 0
          BY DEF SelectInSeq
        <4>2. I \in SUBSET Nat
          BY <3>2
        <4>3. I # {} => Min(I) \in I
          <5> HIDE DEF I
          <5> QED BY <4>2, MinPlace
        <4> QED BY <2>3, <4>1, <4>3
      <3> HIDE DEF i
      <3>4. es[i] \in ToSet(es)
        BY <3>2, <3>3 DEF ToSet
      <3>5. es[i].to \in IF es[i].file THEN DOMAIN Content ELSE DOMAIN Folders
        BY <3>1, <3>4, FilesAssumption
      <3>6. rel_open(p, x) = IF es[i].file THEN Found(Place(p.folder, es[i].to))
                             ELSE Found(Place(es[i].to, None))
        BY <2>3 DEF rel_open, i
      <3> QED BY <2>1, <3>1, <3>5, <3>6 DEF PlaceOK, Found, Place
    <2> QED BY <2>2, <2>3
  <1> QED BY <1>1, <1>2, <1>3

\* The function open_path_full goes through exists.
Walk(first, rest, N, g) ==
  g = [n \in 0 .. N |-> IF n = 0 THEN first ELSE init_step(g[n - 1], rest[n])]

LEMMA AfterExists ==
  ASSUME NEW first, NEW rest, NEW N \in Nat
  PROVE  \E g : Walk(first, rest, N, g)
  <1> DEFINE Rec(g, m) == Walk(first, rest, m, g)
             Bad == {m \in Nat : ~ \E g : Rec(g, m)}
  <1> SUFFICES ASSUME Bad # {} PROVE FALSE
    <2>2. \E g : Rec(g, N)
      <3> HIDE DEF Rec
      <3> QED OBVIOUS
    <2> QED BY <2>2
  <1> HIDE DEF Rec
  <1>1. PICK m \in Bad : \A k \in Bad : m <= k
    <2>1. Bad \in SUBSET Nat
      OBVIOUS
    <2> HIDE DEF Bad
    <2> QED BY <2>1, LeastExists
  <1>2. m \in Nat /\ ~ \E g : Rec(g, m)
    OBVIOUS
  <1>3. CASE m = 0
    <2> DEFINE g == [n \in 0 .. 0 |-> first]
    <2>1. Rec(g, 0)
      BY DEF Rec, Walk
    <2> HIDE DEF g
    <2> QED BY <1>2, <1>3, <2>1
  <1>4. CASE m # 0
    <2> DEFINE l == m - 1
    <2>0. l \in Nat /\ ~ (m <= l) /\ \A i \in 0 .. l : i \in 0 .. m
      BY <1>2, <1>4
    <2>1. l \notin Bad
      BY <1>1, <2>0
    <2>2. PICK g : Rec(g, l)
      BY <2>0, <2>1
    <2> DEFINE h == [n \in 0 .. m |-> IF n = 0 THEN first ELSE init_step(g[n - 1], rest[n])]
    <2>3. \A i \in 0 .. m : i # 0 => i - 1 \in 0 .. l
      BY <1>2
    <2> HIDE DEF l
    <2>4. ASSUME NEW i \in 0 .. l PROVE h[i] = g[i]
      BY <2>0, <2>2 DEF Rec, Walk
    <2>5. Rec(h, m)
      <3>1. \A i \in 0 .. m : i # 0 => g[i - 1] = h[i - 1]
        <4> HIDE DEF h
        <4> QED BY <2>3, <2>4
      <3>2. \A i \in 0 .. m : (IF i = 0 THEN first ELSE init_step(g[i - 1], rest[i]))
                              = (IF i = 0 THEN first ELSE init_step(h[i - 1], rest[i]))
        <4> HIDE DEF h
        <4> QED BY <3>1
      <3>3. h = [i \in 0 .. m |-> IF i = 0 THEN first ELSE init_step(h[i - 1], rest[i])]
        BY <3>2, Zenon
      <3> QED BY <3>3 DEF Rec, Walk
    <2> HIDE DEF h
    <2> QED BY <1>2, <2>5
  <1> QED BY <1>3, <1>4

\* What proc_open_dir finds: the root with nothing left, or a mount and a rest.
LEMMA ProcOpenDir ==
  ASSUME mounts \in Seq(MountT), NEW path \in Seq(STRING)
  PROVE  LET p == proc_open_dir(path)
         IN  /\ PlaceOK(p.res) /\ p.rest \in Seq(STRING)
             /\ p.rest # <<>> /\ p.res.ok => ~ p.res.at.root
  <1> DEFINE i == SelectInSeq(path, LAMBDA x : path_step(x) # "Current")
             m == find_mount(path[i])
             p == proc_open_dir(path)
  <1>1. CASE i = 0
    <2>1. p = [res |-> Found(Root), rest |-> <<>>]
      BY <1>1 DEF proc_open_dir
    <2> HIDE DEF p
    <2>2. p.res = Found(Root) /\ p.rest = <<>> /\ <<>> \in Seq(STRING)
      BY <2>1
    <2>3. PlaceOK(p.res)
      BY <2>2 DEF PlaceOK, Found
    <2> QED BY <2>2, <2>3 DEF p
  <1>2. CASE i # 0 /\ (path_step(path[i]) = "Parent" \/ m = 0)
    <2>1. p = [res |-> Err, rest |-> <<>>]
      BY <1>2 DEF proc_open_dir
    <2> HIDE DEF p
    <2>2. p.res = Err /\ p.rest = <<>> /\ <<>> \in Seq(STRING)
      BY <2>1
    <2>3. PlaceOK(p.res)
      BY <2>2 DEF PlaceOK, Err
    <2> QED BY <2>2, <2>3 DEF p
  <1>3. CASE i # 0 /\ ~ (path_step(path[i]) = "Parent" \/ m = 0)
    <2>1. p = [res |-> Found(Place(mounts[m].folder, None)), rest |-> SubSeq(path, i + 1, Len(path))]
      BY <1>3 DEF proc_open_dir
    <2>2. i \in Nat
      <3> DEFINE I == {j \in 1 .. Len(path) : path_step(path[j]) # "Current"}
      <3>1. i = IF I # {} THEN Min(I) ELSE 0
        BY DEF SelectInSeq
      <3>2. I \in SUBSET Nat
        OBVIOUS
      <3>3. I # {} => Min(I) \in I
        <4> HIDE DEF I
        <4> QED BY <3>2, MinPlace
      <3> QED BY <3>1, <3>3
    <2>3. SubSeq(path, i + 1, Len(path)) \in Seq(STRING)
      <3> HIDE DEF i
      <3> QED BY <2>2
    <2>4. m \in 1 .. Len(mounts)
      <3> DEFINE name == path[i]
                 I == {j \in 1 .. Len(mounts) : mounts[j].name = name}
      <3>1. m = IF I # {} THEN Min(I) ELSE 0
        BY DEF find_mount, SelectInSeq
      <3>2. I \in SUBSET Nat
        <4> HIDE DEF name
        <4> QED OBVIOUS
      <3>3. I # {} => Min(I) \in I
        <4> HIDE DEF I
        <4> QED BY <3>2, MinPlace
      <3>4. I # {}
        BY <1>3, <3>1
      <3> QED BY <3>1, <3>3, <3>4
    <2>5. mounts[m].folder \in DOMAIN Folders
      <3> HIDE DEF m
      <3>1. mounts[m] \in MountT
        BY <2>4
      <3> QED BY <3>1 DEF MountT
    <2> HIDE DEF i, m, p
    <2>6. p.res = Found(Place(mounts[m].folder, None)) /\ p.rest \in Seq(STRING)
      BY <2>1, <2>3
    <2>7. PlaceOK(p.res) /\ ~ p.res.at.root
      BY <2>5, <2>6 DEF PlaceOK, Found, Place
    <2> QED BY <2>6, <2>7 DEF p
  <1> QED BY <1>1, <1>2, <1>3

LEMMA OpenPathOK ==
  ASSUME mounts \in Seq(MountT), NEW path \in Seq(STRING)
  PROVE  PlaceOK(open_path_full(path))
  <1> DEFINE p == proc_open_dir(path)
             first == p.res
             rest == p.rest
             N == Len(p.rest)
             Rec(g) == Walk(first, rest, N, g)
             s == CHOOSE g : Rec(g)
  <1>0. /\ PlaceOK(first) /\ rest \in Seq(STRING)
        /\ rest # <<>> /\ first.ok => ~ first.at.root
    BY ProcOpenDir
  <1>1. open_path_full(path) = s[N]
    BY Zenon DEF open_path_full, Walk
  <1> HIDE DEF p
  <1>2. N \in Nat
    BY <1>0
  <1>3. \E g : Rec(g)
    <2> HIDE DEF first, rest, N
    <2> QED BY <1>2, AfterExists
  <1>4. Rec(s)
    <2> HIDE DEF Rec
    <2> QED BY <1>3, Zenon
  <1>5. \A n \in 0 .. N : s[n] = IF n = 0 THEN first ELSE init_step(s[n - 1], rest[n])
    <2> HIDE DEF s, N, first, rest
    <2> QED BY <1>4 DEF Walk
  <1>6. CASE N = 0
    <2>1. s[N] = first
      <3> HIDE DEF s, first, Rec
      <3> QED BY <1>2, <1>5, <1>6
    <2> HIDE DEF s, first, Rec, N
    <2> QED BY <1>0, <1>1, <2>1
  <1>7. CASE N # 0
    <2>0. first.ok => ~ first.at.root
      BY <1>0, <1>7
    <2> HIDE DEF Rec, s, N, first, rest
    <2> DEFINE Good(r) == PlaceOK(r) /\ (r.ok => ~ r.at.root)
               Bad == {n \in Nat : n \in 0 .. N /\ ~ Good(s[n])}
    <2>1. ASSUME Bad # {} PROVE FALSE
      <3>1. PICK m \in Bad : \A k \in Bad : m <= k
        <4>1. Bad \in SUBSET Nat
          OBVIOUS
        <4> HIDE DEF Bad
        <4> QED BY <2>1, <4>1, LeastExists
      <3>2. m \in Nat /\ m \in 0 .. N /\ ~ Good(s[m])
        OBVIOUS
      <3>3. Good(first)
        BY <1>0, <2>0
      <3>4. m # 0
        <4> HIDE DEF Good
        <4> QED BY <1>2, <1>5, <3>2, <3>3
      <3>5. m - 1 \in 0 .. N /\ m - 1 \in Nat /\ ~ (m <= m - 1)
        BY <1>2, <3>2, <3>4
      <3>6. Good(s[m - 1])
        <4> HIDE DEF Good
        <4> QED BY <3>1, <3>5
      <3>7. Good(init_step(s[m - 1], rest[m]))
        BY <3>6, StepOK
      <3> HIDE DEF Good
      <3> QED BY <1>5, <3>2, <3>4, <3>7
    <2>2. N \notin Bad
      BY <2>1
    <2>3. Good(s[N])
      <3> HIDE DEF Good
      <3> QED BY <1>2, <2>2
    <2> QED BY <1>1, <2>3
  <1> QED BY <1>6, <1>7

-------------------------------------------------------------------------------
(* Handles.                                                                *)

\* The text of a folder has a line for each name, in order.
LEMMA TextOf ==
  ASSUME NEW ns \in Texts
  PROVE  /\ dir_names_to_handle(ns) \in Texts
         /\ Len(dir_names_to_handle(ns)) = 2 * Len(ns)
         /\ \A k \in 1 .. Len(ns) : /\ dir_names_to_handle(ns)[2 * k - 1] = ns[k]
                                    /\ dir_names_to_handle(ns)[2 * k] = "\n"
  <1> DEFINE N == Len(ns)
             t == dir_names_to_handle(ns)
  <1>0. N \in Nat /\ 2 * N \in Nat /\ \A k \in 1 .. N : ns[k] \in Bytes
    BY DEF Texts
  <1>1. t = [i \in 1 .. 2 * N |-> IF i % 2 = 1 THEN ns[(i + 1) \div 2] ELSE "\n"]
    BY DEF dir_names_to_handle
  <1> HIDE DEF N, t
  <1>2. ASSUME NEW i \in 1 .. 2 * N PROVE t[i] \in Bytes
    <2>1. i % 2 = 1 => (i + 1) \div 2 \in 1 .. N
      BY <1>0
    <2>2. t[i] = IF i % 2 = 1 THEN ns[(i + 1) \div 2] ELSE "\n"
      BY <1>1
    <2>3. "\n" \in Bytes
      BY DEF Bytes
    <2>4. CASE i % 2 = 1
      BY <1>0, <2>1, <2>2, <2>4
    <2>5. CASE i % 2 # 1
      BY <2>2, <2>3, <2>5
    <2> QED BY <2>4, <2>5
  <1>3. t \in [1 .. 2 * N -> Bytes]
    BY <1>1, <1>2
  <1>4. t \in Seq(Bytes) /\ Len(t) = 2 * N
    BY <1>0, <1>3
  <1>5. ASSUME NEW k \in 1 .. N PROVE t[2 * k - 1] = ns[k] /\ t[2 * k] = "\n"
    <2>1. /\ 2 * k - 1 \in 1 .. 2 * N /\ (2 * k - 1) % 2 = 1 /\ ((2 * k - 1) + 1) \div 2 = k
          /\ 2 * k \in 1 .. 2 * N /\ (2 * k) % 2 # 1
      BY <1>0
    <2> QED BY <1>1, <2>1
  <1> QED BY <1>4, <1>5 DEF N, t, Texts

\* A place that exists: what PlaceOK says of one that was found.
There(at) == \/ at = Root
             \/ /\ ~ at.root /\ at.folder \in DOMAIN Folders
                /\ at.file = None \/ at.file \in DOMAIN Content

LEMMA NamesOfTyped ==
  ASSUME NEW S, \A e \in S : e.name \in Bytes, NEW s \in Seq(S)
  PROVE  NamesOf(s) \in Texts
  <1>1. DOMAIN s = 1 .. Len(s) /\ Len(s) \in Nat /\ \A i \in 1 .. Len(s) : s[i].name \in Bytes
    OBVIOUS
  <1>2. NamesOf(s) \in [1 .. Len(s) -> Bytes]
    BY <1>1 DEF NamesOf
  <1> QED BY <1>1, <1>2 DEF Texts

LEMMA ListingTyped ==
  ASSUME mounts \in Seq(MountT), NEW at, There(at)
  PROVE  Listing(at) \in Texts
  <1>1. CASE at.root
    <2>1. \A e \in MountT : e.name \in Bytes
      BY FilesAssumption DEF MountT, Bytes
    <2>2. NamesOf(mounts) \in Texts
      BY <2>1, NamesOfTyped
    <2> QED BY <1>1, <2>2 DEF Listing
  <1>2. CASE ~ at.root
    <2>1. at.folder \in DOMAIN Folders
      BY <1>2 DEF There, Root
    <2>2. Folders[at.folder] \in Seq(Entry)
      BY <2>1, FilesAssumption
    <2>3. \A e \in Entry : e.name \in Bytes
      BY FilesAssumption DEF Entry, Bytes
    <2>4. NamesOf(Folders[at.folder]) \in Texts
      BY <2>2, <2>3, NamesOfTyped
    <2> QED BY <1>2, <2>4 DEF Listing
  <1> QED BY <1>1, <1>2

\* A handle that was just opened.
LEMMA OpenHandle ==
  ASSUME mounts \in Seq(MountT), NEW at, There(at)
  PROVE  LET h == open_handle(at)
         IN  /\ h \in HandleT /\ h.index = 0
             /\ h.folder => at.file = None /\ h.data = dir_names_to_handle(Listing(at))
  <1> DEFINE h == open_handle(at)
  <1>1. CASE at.file = None
    <2>1. dir_names_to_handle(Listing(at)) \in Texts
      BY ListingTyped, TextOf
    <2> DEFINE d == dir_names_to_handle(Listing(at))
    <2>2. h = [folder |-> TRUE, data |-> d, index |-> 0]
      BY <1>1 DEF open_handle
    <2> HIDE DEF d, h
    <2>3. d \in Seq(Bytes)
      BY <2>1 DEF d, Texts
    <2>4. h \in HandleT
      BY <2>2, <2>3 DEF HandleT
    <2> QED BY <1>1, <2>2, <2>4 DEF d, h
  <1>2. CASE at.file # None
    <2>1. at.file \in DOMAIN Content
      BY <1>2 DEF There, Root
    <2> DEFINE d == Content[at.file]
    <2>2. h = [folder |-> FALSE, data |-> d, index |-> 0]
      BY <1>2 DEF open_handle
    <2>3. d \in Seq(Bytes)
      <3>1. d \in Seq(STRING)
        BY <2>1, FilesAssumption
      <3>2. STRING \subseteq Bytes
        BY DEF Bytes
      <3> HIDE DEF d
      <3>3. d \in [1 .. Len(d) -> STRING] /\ Len(d) \in Nat
        BY <3>1
      <3>4. d \in [1 .. Len(d) -> Bytes]
        BY <3>2, <3>3
      <3> QED BY <3>3, <3>4
    <2> HIDE DEF d, h
    <2>4. h \in HandleT
      BY <2>2, <2>3 DEF HandleT
    <2> QED BY <2>2, <2>4 DEF h
  <1> QED BY <1>1, <1>2

\* A read that gives bytes: a folder gives the next one, and moves over it.
LEMMA ReadOf ==
  ASSUME NEW h \in HandleT, h.index <= Len(h.data), NEW n \in Nat, ~ handle_read(h, n).panic
  PROVE  LET r == handle_read(h, n)
         IN  /\ r.handle \in HandleT /\ r.handle.index <= Len(r.handle.data)
             /\ r.handle.folder = h.folder /\ r.handle.data = h.data
             /\ r.bytes \in Texts
             /\ h.folder => SubSeq(h.data, 1, h.index) \o r.bytes
                            = SubSeq(h.data, 1, r.handle.index)
  <1> DEFINE r == handle_read(h, n)
             d == h.data
             k == h.index
  <1>0. d \in Seq(Bytes) /\ k \in Nat /\ k <= Len(d) /\ Len(d) \in Nat /\ h.folder \in BOOLEAN
    BY DEF HandleT
  <1>1. CASE h.folder /\ k = Len(d)
    <2>1. r = [panic |-> FALSE, bytes |-> <<>>, handle |-> h]
      BY <1>1 DEF handle_read, iterator_read, Given
    <2> HIDE DEF r, d, k
    <2>2. r.bytes = <<>> /\ r.handle = h /\ <<>> \in Seq(Bytes)
      BY <2>1
    <2>3. SubSeq(d, 1, k) \in Seq(Bytes)
      BY <1>0
    <2>4. SubSeq(d, 1, k) \o <<>> = SubSeq(d, 1, k)
      BY <2>3
    <2> QED BY <1>0, <2>2, <2>4 DEF Texts, d, k, r
  <1>2. CASE h.folder /\ k # Len(d)
    <2>1. n # 0
      BY <1>2 DEF handle_read, iterator_read, Panics
    <2>2. r = [panic |-> FALSE, bytes |-> <<d[k + 1]>>, handle |-> [h EXCEPT !.index = k + 1]]
      BY <1>2, <2>1 DEF handle_read, iterator_read, Given
    <2>3. /\ [h EXCEPT !.index = k + 1] \in HandleT
          /\ [h EXCEPT !.index = k + 1].index = k + 1
          /\ [h EXCEPT !.index = k + 1].folder = h.folder
          /\ [h EXCEPT !.index = k + 1].data = h.data
      BY <1>0 DEF HandleT
    <2> HIDE DEF r, d, k
    <2>4. k + 1 \in 1 .. Len(d) /\ k + 1 \in Nat /\ k + 1 <= Len(d)
      BY <1>0, <1>2
    <2>5. d[k + 1] \in Bytes
      BY <1>0, <2>4
    <2>6. <<d[k + 1]>> \in Seq(Bytes)
      BY <2>5
    <2>7. SubSeq(d, 1, k) \o <<d[k + 1]>> = SubSeq(d, 1, k + 1)
      <3> DEFINE a == SubSeq(d, 1, k)
                 b == <<d[k + 1]>>
                 c == SubSeq(d, 1, k + 1)
      <3>1. a \in Seq(Bytes) /\ Len(a) = k /\ \A i \in 1 .. k : a[i] = d[i]
        BY <1>0
      <3>2. c \in Seq(Bytes) /\ Len(c) = k + 1 /\ \A i \in 1 .. k + 1 : c[i] = d[i]
        BY <1>0, <2>4
      <3>3. b \in Seq(Bytes) /\ Len(b) = 1 /\ b[1] = d[k + 1]
        BY <2>6
      <3> HIDE DEF a, b, c
      <3>4. a \in Seq(Bytes) /\ b \in Seq(Bytes) /\ c \in Seq(Bytes)
        BY <3>1, <3>2, <3>3
      <3>5. a \o b \in Seq(Bytes) /\ Len(a \o b) = Len(a) + Len(b)
        BY <3>4
      <3>6. Len(a \o b) = k + 1
        BY <1>0, <3>1, <3>3, <3>5
      <3>7. ASSUME NEW i \in 1 .. k + 1 PROVE (a \o b)[i] = c[i]
        <4>1. CASE i <= k
          <5>1. i \in 1 .. Len(a)
            BY <1>0, <3>1, <4>1
          <5>2. (a \o b)[i] = a[i]
            BY <3>4, <5>1
          <5> QED BY <1>0, <3>1, <3>2, <4>1, <5>2
        <4>2. CASE ~ (i <= k)
          <5>1. i = k + 1
            BY <1>0, <4>2
          <5>2. (a \o b)[i] = b[1]
            <6>1. i > Len(a) /\ i <= Len(a) + Len(b) /\ i - Len(a) = 1 /\ i \in 1 .. Len(a) + Len(b)
              BY <1>0, <3>1, <3>3, <5>1
            <6> QED BY <3>4, <6>1
          <5> QED BY <1>0, <3>2, <3>3, <5>1, <5>2
        <4> QED BY <4>1, <4>2
      <3>8. a \o b = c
        BY <3>2, <3>4, <3>5, <3>6, <3>7, <2>4
      <3> QED BY <3>8 DEF a, b, c
    <2>8. r.bytes = <<d[k + 1]>> /\ r.handle = [h EXCEPT !.index = k + 1]
      BY <2>2
    <2>9. r.handle.index = k + 1 /\ r.handle.folder = h.folder /\ r.handle.data = h.data
      BY <2>3, <2>8, Zenon
    <2>10. r.handle \in HandleT /\ r.bytes \in Texts
      BY <2>3, <2>6, <2>8 DEF Texts
    <2>11. SubSeq(h.data, 1, h.index) \o r.bytes = SubSeq(h.data, 1, r.handle.index)
      BY <2>7, <2>8, <2>9 DEF d, k
    <2>12. r.handle.index <= Len(r.handle.data)
      BY <2>4, <2>9 DEF d
    <2> QED BY <2>9, <2>10, <2>11, <2>12 DEF r
  <1>3. CASE ~ h.folder
    <2>1. r = [panic |-> FALSE, bytes |-> SubSeq(d, 1, IF n < Len(d) THEN n ELSE Len(d)), handle |-> h]
      BY <1>3 DEF handle_read, init_read, Given, Panics
    <2> DEFINE m == IF n < Len(d) THEN n ELSE Len(d)
    <2> HIDE DEF r, d, k
    <2>2. m \in Nat /\ m <= Len(d)
      BY <1>0
    <2> HIDE DEF m
    <2>3. SubSeq(d, 1, m) \in Seq(Bytes)
      BY <1>0, <2>2
    <2>4. r.bytes = SubSeq(d, 1, m) /\ r.handle = h
      BY <2>1 DEF m
    <2> QED BY <1>0, <1>3, <2>3, <2>4 DEF Texts, d, k, r
  <1> QED BY <1>0, <1>1, <1>2, <1>3

-------------------------------------------------------------------------------
(* What each call does to the invariant.                                   *)

LEMMA Typing ==
  ASSUME IInv
  PROVE  /\ Len(handles) \in Nat /\ Ascends(handles)
         /\ \A i \in 1 .. Len(handles) :
              /\ handles[i] \in SlotT /\ handles[i].fd \in 1 .. MaxFd
              /\ handles[i].handle \in HandleT
              /\ PositionIn(handles, handles[i].fd) = i
         /\ MaxFd \in Nat /\ next_descriptor \in Int
  <1>1. handles \in Seq(SlotT)
    BY DEF IInv, Shape
  <1> DEFINE S == SlotT
  <1>2. Len(handles) \in Nat /\ \A i \in 1 .. Len(handles) : handles[i] \in S
    <2> HIDE DEF S
    <2> QED BY <1>1 DEF S
  <1>3. \A s \in S : s.fd \in 1 .. MaxFd /\ s.handle \in HandleT
    BY DEF SlotT
  <1>4. Ascends(handles)
    BY DEF IInv, Ordered, Ascends
  <1>5. MaxFd \in Nat
    BY FilesAssumption
  <1>6. next_descriptor \in Int
    BY <1>5 DEF IInv, Shape
  <1>7. \A i \in 1 .. Len(handles) : handles[i].fd \in Int
    BY <1>2, <1>3, <1>5
  <1> HIDE DEF S
  <1>8. \A i \in 1 .. Len(handles) : PositionIn(handles, handles[i].fd) = i
    BY <1>1, <1>4, <1>7, FoundIs
  <1> QED BY <1>2, <1>3, <1>4, <1>5, <1>6, <1>8 DEF S

\* A step that only answers.
LEMMA Unmoved ==
  ASSUME IInv, UNCHANGED <<mounts, handles, next_descriptor, seen, listed>>, halted' \in BOOLEAN
  PROVE  IInv'
  BY DEF IInv, Shape, Ordered, SlotAt

LEMMA FailKeeps ==
  ASSUME IInv, NEW code, Fail(code)
  PROVE  IInv'
  BY Unmoved DEF Fail

\* A handle in place of the one at place i: only its descriptor's history may change.
LEMMA Replaced ==
  ASSUME IInv, NEW i \in 1 .. Len(handles), NEW h \in HandleT, h.index <= Len(h.data),
         handles' = [handles EXCEPT ![i].handle = h],
         UNCHANGED <<mounts, next_descriptor, halted, listed>>,
         NEW text \in Texts, seen' = [seen EXCEPT ![handles[i].fd] = text],
         h.folder => /\ h.data = dir_names_to_handle(listed[handles[i].fd])
                     /\ text = SubSeq(h.data, 1, h.index)
  PROVE  IInv'
  <1>0. /\ handles \in Seq(SlotT) /\ Len(handles) \in Nat
        /\ \A j \in 1 .. Len(handles) : handles[j] \in SlotT /\ handles[j].fd \in 1 .. MaxFd
        /\ Ascends(handles)
        /\ \A j \in 1 .. Len(handles) : PositionIn(handles, handles[j].fd) = j
    BY Typing DEF IInv, Shape
  <1> DEFINE x == [handles[i] EXCEPT !.handle = h]
  <1>1. x \in SlotT /\ x.fd = handles[i].fd /\ x.handle = h
    BY <1>0 DEF SlotT
  <1>2. handles' = [handles EXCEPT ![i] = x]
    OBVIOUS
  <1> DEFINE S == SlotT
  <1> HIDE DEF x
  <1>3. /\ handles' \in Seq(S) /\ Len(handles') = Len(handles)
        /\ handles'[i] = x
        /\ \A j \in 1 .. Len(handles) : j # i => handles'[j] = handles[j]
    <2>1. x \in S /\ handles \in Seq(S)
      BY <1>0, <1>1
    <2> HIDE DEF S
    <2> QED BY <1>2, <2>1, PutFacts
  <1>4. \A j \in 1 .. Len(handles) : handles'[j].fd = handles[j].fd
    BY <1>1, <1>3
  <1>5. seen' \in [1 .. MaxFd -> Texts]
    BY DEF IInv, Shape
  <1>6. Shape'
    BY <1>3, <1>5 DEF IInv, Shape
  <1>7. Ordered'
    BY <1>3, <1>4 DEF IInv, Ordered
  <1>8. ASSUME NEW j \in 1 .. Len(handles) PROVE SlotAt(j)'
    <2>1. CASE j = i
      <3>1. handles'[j].handle = h /\ handles'[j].fd = handles[i].fd
        BY <1>1, <1>3, <2>1
      <3>2. seen'[handles[i].fd] = text
        BY <1>0 DEF IInv, Shape
      <3> QED BY <3>1, <3>2 DEF SlotAt
    <2>2. CASE j # i
      <3>1. handles'[j] = handles[j]
        BY <1>3, <2>2
      <3>2. handles[j].fd # handles[i].fd
        BY <1>0, <2>2
      <3>3. seen'[handles[j].fd] = seen[handles[j].fd]
        BY <1>0, <3>2 DEF IInv, Shape
      <3>4. SlotAt(j)
        BY DEF IInv
      <3> QED BY <3>1, <3>3, <3>4 DEF SlotAt
    <2> QED BY <2>1, <2>2
  <1>9. \A j \in 1 .. Len(handles') : SlotAt(j)'
    BY <1>3, <1>8
  <1> QED BY <1>6, <1>7, <1>9 DEF IInv

LEMMA OpenKeeps ==
  ASSUME IInv, NEW path \in Paths, NEW buffer \in Buffers, NEW write, open(path, buffer, write)
  PROVE  IInv'
  <1> DEFINE r == open_path_full(path)
             fd == next_descriptor
             h == open_handle(r.at)
             x == [fd |-> fd, handle |-> h]
             ls == IF r.at.file = None THEN Listing(r.at) ELSE <<>>
  <1>1. CASE buffer # "user" \/ write \/ ~ r.ok
    <2>1. \E code : Fail(code)
      BY <1>1 DEF Buffers, open
    <2> QED BY <2>1, FailKeeps
  <1>2. CASE ~ (buffer # "user" \/ write \/ ~ r.ok)
    <2>1. /\ fd <= MaxFd /\ next_descriptor' = next_descriptor + 1
          /\ handles' = Append(handles, x)
          /\ seen' = [seen EXCEPT ![fd] = <<>>]
          /\ listed' = [listed EXCEPT ![fd] = ls]
          /\ UNCHANGED <<mounts, halted>>
      BY <1>2 DEF open, allocate_descriptor
    <2>2. mounts \in Seq(MountT) /\ handles \in Seq(SlotT) /\ halted \in BOOLEAN
          /\ seen \in [1 .. MaxFd -> Texts] /\ listed \in [1 .. MaxFd -> Texts]
      BY DEF IInv, Shape
    <2>3. There(r.at)
      <3>1. PlaceOK(r)
        BY <2>2, OpenPathOK, FilesAssumption
      <3> QED BY <1>2, <3>1 DEF PlaceOK, There
    <2>4. /\ h \in HandleT /\ h.index = 0
          /\ h.folder => r.at.file = None /\ h.data = dir_names_to_handle(Listing(r.at))
      <3> HIDE DEF r
      <3> QED BY <2>2, <2>3, OpenHandle
    <2>5. <<>> \in Texts
      BY DEF Texts
    <2>6. ls \in Texts
      <3> HIDE DEF r
      <3> QED BY <2>2, <2>3, <2>5, ListingTyped
    <2> HIDE DEF r, h, ls
    <2>7. fd \in 1 .. MaxFd /\ MaxFd \in Nat /\ fd + 1 \in 1 .. MaxFd + 1
      <3>1. fd \in 1 .. MaxFd + 1
        BY DEF IInv, Shape
      <3>2. MaxFd \in Nat
        BY FilesAssumption
      <3>3. fd <= MaxFd
        BY <2>1
      <3> QED BY <3>1, <3>2, <3>3
    <2>8. x \in SlotT /\ x.fd = fd /\ x.handle = h
      BY <2>4, <2>7 DEF SlotT
    <2> DEFINE S == SlotT
               n == Len(handles)
    <2> HIDE DEF x, S
    <2>9. /\ handles' \in Seq(S) /\ Len(handles') = n + 1 /\ n \in Nat
          /\ \A i \in 1 .. n : handles'[i] = handles[i]
          /\ handles'[n + 1] = x
          /\ \A i \in 1 .. n + 1 : i = n + 1 \/ i \in 1 .. n
      BY <2>1, <2>2, <2>8, AppendFacts DEF S
    <2> HIDE DEF n
    <2>10. /\ \A i \in 1 .. n : handles[i].fd \in 1 .. MaxFd /\ handles[i].fd < fd
           /\ \A i, j \in 1 .. n : i < j => handles[i].fd < handles[j].fd
      BY Typing DEF IInv, Ordered, n
    <2>11. seen' \in [1 .. MaxFd -> Texts] /\ listed' \in [1 .. MaxFd -> Texts]
      BY <2>1, <2>2, <2>5, <2>6
    <2>12. Shape'
      BY <2>1, <2>2, <2>7, <2>9, <2>11 DEF Shape, S
    <2>13. Ordered'
      <3>1. ASSUME NEW i \in 1 .. n + 1 PROVE handles'[i].fd < next_descriptor'
        BY <2>1, <2>7, <2>8, <2>9, <2>10
      <3>2. ASSUME NEW i \in 1 .. n + 1, NEW j \in 1 .. n + 1, i < j
            PROVE  handles'[i].fd < handles'[j].fd
        <4>1. i \in 1 .. n
          BY <2>9, <3>2
        <4>2. handles'[i] = handles[i]
          BY <2>9, <4>1
        <4>3. CASE j \in 1 .. n
          BY <2>9, <2>10, <3>2, <4>1, <4>2, <4>3
        <4>4. CASE j = n + 1
          BY <2>8, <2>9, <2>10, <4>1, <4>2, <4>4
        <4> QED BY <2>9, <4>3, <4>4
      <3> QED BY <2>9, <3>1, <3>2 DEF Ordered
    <2>14. ASSUME NEW i \in 1 .. n + 1 PROVE SlotAt(i)'
      <3>1. CASE i = n + 1
        <4>1. handles'[i].fd = fd /\ handles'[i].handle = h
          BY <2>8, <2>9, <3>1
        <4>2. seen'[fd] = <<>> /\ listed'[fd] = ls
          BY <2>1, <2>2, <2>7
        <4>3. h.data \in Seq(Bytes) /\ h.index <= Len(h.data)
          BY <2>4 DEF HandleT
        <4>4. SubSeq(h.data, 1, 0) = <<>>
          BY <4>3
        <4>5. h.folder => ls = Listing(r.at)
          BY <2>4 DEF ls
        <4> QED BY <2>4, <4>1, <4>2, <4>3, <4>4, <4>5 DEF SlotAt
      <3>2. CASE i \in 1 .. n
        <4>1. handles'[i] = handles[i] /\ handles[i].fd # fd /\ handles[i].fd \in 1 .. MaxFd
          BY <2>7, <2>9, <2>10, <3>2
        <4>2. seen'[handles[i].fd] = seen[handles[i].fd] /\ listed'[handles[i].fd] = listed[handles[i].fd]
          BY <2>1, <2>2, <4>1
        <4>3. SlotAt(i)
          BY <3>2 DEF IInv, n
        <4> QED BY <4>1, <4>2, <4>3 DEF SlotAt
      <3> QED BY <2>9, <3>1, <3>2
    <2> QED BY <2>9, <2>12, <2>13, <2>14 DEF IInv
  <1> QED BY <1>1, <1>2

LEMMA SeekKeeps ==
  ASSUME IInv, NEW fd \in 0 .. MaxFd, NEW to \in Seeks, seek(fd, to)
  PROVE  IInv'
  <1> DEFINE i == Position(fd)
             h == handles[i].handle
  <1>1. CASE i = 0 \/ handle_seek(h, to) # "Ok"
    <2>1. \E code : Fail(code)
      BY <1>1 DEF seek
    <2> QED BY <2>1, FailKeeps
  <1>2. CASE ~ (i = 0 \/ handle_seek(h, to) # "Ok")
    <2>1. /\ handles' = [handles EXCEPT ![i].handle.index = to]
          /\ UNCHANGED <<mounts, next_descriptor, halted, seen, listed>>
      BY <1>2 DEF seek
    <2>2. i \in 1 .. Len(handles) /\ handles[i].fd = fd
      <3>1. i = PositionIn(handles, fd) /\ Len(handles) \in Nat
        BY PositionIs, Typing
      <3> HIDE DEF i
      <3> QED BY <1>2, <3>1, PositionFacts
    <2>3. h \in HandleT /\ handles[i].fd \in 1 .. MaxFd
      BY <2>2, Typing
    <2>4. ~ h.folder /\ to \in Nat /\ to <= Len(h.data)
      <3>1. to \in Nat
        BY FilesAssumption
      <3>2. Len(h.data) \in Nat
        BY <2>3 DEF HandleT
      <3>3. ~ h.folder /\ ~ (to > Len(h.data))
        BY <1>2 DEF handle_seek
      <3> HIDE DEF h
      <3> QED BY <3>1, <3>2, <3>3
    <2> HIDE DEF i
    <2> DEFINE g == [h EXCEPT !.index = to]
    <2>5. g \in HandleT /\ ~ g.folder /\ g.index <= Len(g.data)
      BY <2>3, <2>4 DEF HandleT
    <2>6. handles' = [handles EXCEPT ![i].handle = g]
      BY <2>1
    <2>7. seen[fd] \in Texts /\ seen' = [seen EXCEPT ![handles[i].fd] = seen[fd]]
      BY <2>1, <2>2, <2>3 DEF IInv, Shape
    <2> HIDE DEF g
    <2> QED BY <2>1, <2>2, <2>5, <2>6, <2>7, Replaced
  <1> QED BY <1>1, <1>2

LEMMA ReadKeeps ==
  ASSUME IInv, NEW fd \in 0 .. MaxFd, NEW n \in Lens, NEW buffer \in Buffers, read(fd, n, buffer)
  PROVE  IInv'
  <1> DEFINE i == Position(fd)
             h == handles[i].handle
             r == handle_read(h, n)
  <1>1. CASE buffer # "user" \/ i = 0 \/ r.panic
    <2>1. \E code : Fail(code)
      BY <1>1 DEF Buffers, read
    <2> QED BY <2>1, FailKeeps
  <1>2. CASE ~ (buffer # "user" \/ i = 0 \/ r.panic)
    <2>1. /\ handles' = [handles EXCEPT ![i].handle = r.handle]
          /\ seen' = [seen EXCEPT ![fd] = @ \o r.bytes]
          /\ UNCHANGED <<mounts, next_descriptor, halted, listed>>
      BY <1>2 DEF read
    <2>2. i \in 1 .. Len(handles) /\ handles[i].fd = fd
      <3>1. i = PositionIn(handles, fd) /\ Len(handles) \in Nat
        BY PositionIs, Typing
      <3> HIDE DEF i
      <3> QED BY <1>2, <3>1, PositionFacts
    <2>3. h \in HandleT /\ handles[i].fd \in 1 .. MaxFd /\ SlotAt(i)
      BY <2>2, Typing DEF IInv
    <2>4. n \in Nat
      BY FilesAssumption
    <2>5. /\ r.handle \in HandleT /\ r.handle.index <= Len(r.handle.data)
          /\ r.handle.folder = h.folder /\ r.handle.data = h.data
          /\ r.bytes \in Texts
          /\ h.folder => SubSeq(h.data, 1, h.index) \o r.bytes
                         = SubSeq(h.data, 1, r.handle.index)
      <3>1. h.index <= Len(h.data)
        BY <2>3 DEF SlotAt
      <3> HIDE DEF h, i
      <3> QED BY <1>2, <2>3, <2>4, <3>1, ReadOf
    <2>6. h.folder => /\ h.data = dir_names_to_handle(listed[fd])
                      /\ seen[fd] = SubSeq(h.data, 1, h.index)
      BY <2>2, <2>3 DEF SlotAt
    <2> DEFINE g == r.handle
               text == seen[fd] \o r.bytes
    <2>7. seen[fd] \in Texts
      BY <2>2, <2>3 DEF IInv, Shape
    <2>8. text \in Texts
      <3> HIDE DEF r
      <3> QED BY <2>5, <2>7 DEF Texts
    <2>9. seen' = [seen EXCEPT ![handles[i].fd] = text] /\ handles' = [handles EXCEPT ![i].handle = g]
      BY <2>1, <2>2
    <2>10. g.folder => /\ g.data = dir_names_to_handle(listed[handles[i].fd])
                       /\ text = SubSeq(g.data, 1, g.index)
      <3> HIDE DEF h, r, i
      <3> QED BY <2>2, <2>5, <2>6
    <2>11. g \in HandleT /\ g.index <= Len(g.data)
      BY <2>5
    <2>12. UNCHANGED <<mounts, next_descriptor, halted, listed>> /\ i \in 1 .. Len(handles)
      BY <2>1, <2>2
    <2> HIDE DEF i, r, g, text
    <2> QED BY <2>8, <2>9, <2>10, <2>11, <2>12, Replaced
  <1> QED BY <1>1, <1>2

LEMMA CloseKeeps ==
  ASSUME IInv, NEW fd \in 0 .. MaxFd, close(fd)
  PROVE  IInv'
  <1> DEFINE p == Position(fd)
             n == Len(handles)
             S == SlotT
  <1>1. CASE p = 0
    <2>1. \E code : Fail(code)
      BY <1>1 DEF close
    <2> QED BY <2>1, FailKeeps
  <1>2. CASE p # 0
    <2>1. /\ handles' = RemoveAt(handles, p)
          /\ seen' = [seen EXCEPT ![fd] = <<>>]
          /\ listed' = [listed EXCEPT ![fd] = <<>>]
          /\ UNCHANGED <<mounts, next_descriptor, halted>>
      BY <1>2 DEF close
    <2>2. p \in 1 .. n /\ handles[p].fd = fd
      <3>1. p = PositionIn(handles, fd) /\ Len(handles) \in Nat
        BY PositionIs, Typing
      <3> HIDE DEF p
      <3> QED BY <1>2, <3>1, PositionFacts
    <2> HIDE DEF p, n, S
    <2>3. /\ handles' \in Seq(S) /\ Len(handles') = n - 1 /\ n \in Nat
          /\ \A j \in 1 .. n - 1 : handles'[j] = handles[IF j < p THEN j ELSE j + 1]
      <3>1. handles \in Seq(S)
        BY DEF IInv, Shape, S
      <3> QED BY <2>1, <2>2, <3>1, RemoveFacts DEF n
    <2> DEFINE At(j) == IF j < p THEN j ELSE j + 1
    <2>4. /\ \A j \in 1 .. n - 1 : At(j) \in 1 .. n /\ At(j) # p
          /\ \A i, j \in 1 .. n - 1 : i < j => At(i) < At(j)
      BY <2>2, <2>3
    <2>5. \A j \in 1 .. n - 1 : handles'[j] = handles[At(j)]
      BY <2>3
    <2> HIDE DEF At
    <2>6. \A i \in 1 .. n : /\ handles[i].fd \in 1 .. MaxFd
                            /\ PositionIn(handles, handles[i].fd) = i
                            /\ handles[i].fd < next_descriptor
      BY Typing DEF n, IInv, Ordered
    <2>7. \A j \in 1 .. n - 1 : handles[At(j)].fd # fd /\ handles[At(j)].fd \in 1 .. MaxFd
      BY <2>2, <2>4, <2>6
    <2>8. seen' \in [1 .. MaxFd -> Texts] /\ listed' \in [1 .. MaxFd -> Texts]
      <3>1. <<>> \in Texts
        BY DEF Texts
      <3> QED BY <2>1, <3>1 DEF IInv, Shape
    <2>9. Shape'
      BY <2>1, <2>3, <2>8 DEF IInv, Shape, S
    <2>10. Ordered'
      <3>1. \A i, j \in 1 .. n : i < j => handles[i].fd < handles[j].fd
        BY DEF IInv, Ordered, n
      <3>2. \A j \in 1 .. n - 1 : handles'[j].fd < next_descriptor'
        BY <2>1, <2>4, <2>5, <2>6
      <3>3. \A i, j \in 1 .. n - 1 : i < j => handles'[i].fd < handles'[j].fd
        BY <2>4, <2>5, <3>1
      <3> QED BY <2>3, <3>2, <3>3 DEF Ordered
    <2>11. ASSUME NEW j \in 1 .. n - 1 PROVE SlotAt(j)'
      <3>1. SlotAt(At(j))
        BY <2>4 DEF IInv, n
      <3>2. /\ seen'[handles[At(j)].fd] = seen[handles[At(j)].fd]
            /\ listed'[handles[At(j)].fd] = listed[handles[At(j)].fd]
        BY <2>1, <2>7 DEF IInv, Shape
      <3> QED BY <2>5, <3>1, <3>2 DEF SlotAt
    <2> QED BY <2>3, <2>9, <2>10, <2>11 DEF IInv
  <1> QED BY <1>1, <1>2

\* A step of the kernel that changes only the mounts.
LEMMA Remounted ==
  ASSUME IInv, mounts' \in Seq(MountT), UNCHANGED <<handles, next_descriptor, halted, seen, listed>>
  PROVE  IInv'
  BY DEF IInv, Shape, Ordered, SlotAt

LEMMA MountsKeep ==
  ASSUME IInv,
         \/ \E name \in Names, folder \in Roots : mount(name, folder)
         \/ \E name \in Names : unmount(name)
  PROVE  IInv'
  <1> DEFINE M == MountT
  <1>0. mounts \in Seq(M)
    BY DEF IInv, Shape
  <1>1. ASSUME NEW name \in Names, NEW folder \in Roots, mount(name, folder) PROVE IInv'
    <2> DEFINE m == [name |-> name, folder |-> folder]
    <2>1. m \in M
      BY FilesAssumption DEF MountT
    <2>2. mounts' = Append(mounts, m) /\ UNCHANGED <<handles, next_descriptor, halted, seen, listed>>
      BY <1>1 DEF mount
    <2>3. mounts' \in Seq(M)
      <3> HIDE DEF m, M
      <3> QED BY <1>0, <2>1, <2>2
    <2> QED BY <2>2, <2>3, Remounted
  <1>2. ASSUME NEW name \in Names, unmount(name) PROVE IInv'
    <2> DEFINE i == find_mount(name)
               I == {j \in 1 .. Len(mounts) : mounts[j].name = name}
    <2>1. i # 0 /\ mounts' = RemoveAt(mounts, i)
          /\ UNCHANGED <<handles, next_descriptor, halted, seen, listed>>
      BY <1>2 DEF unmount
    <2>2. i = IF I # {} THEN Min(I) ELSE 0
      BY DEF find_mount, SelectInSeq
    <2>3. I \in SUBSET Nat
      <3> HIDE DEF M
      <3> QED BY <1>0
    <2>4. I # {} => Min(I) \in I
      <3> HIDE DEF I
      <3> QED BY <2>3, MinPlace
    <2>5. i \in 1 .. Len(mounts)
      BY <2>1, <2>2, <2>4
    <2>6. mounts' \in Seq(M)
      <3> HIDE DEF i, M
      <3> QED BY <1>0, <2>1, <2>5, RemoveFacts
    <2> QED BY <2>1, <2>6, Remounted
  <1> QED BY <1>1, <1>2

LEMMA MemoryKeeps ==
  ASSUME IInv, NEW fd, read_file_to_memory(fd)
  PROVE  IInv'
  <1>1. \E code : Fail(code)
    BY DEF read_file_to_memory
  <1> QED BY <1>1, FailKeeps

LEMMA Initially ==
  ASSUME Init
  PROVE  IInv
  <1>1. <<>> \in Seq(SlotT) /\ <<>> \in Texts /\ 1 .. Len(handles) = {}
    <2>1. handles = <<>>
      BY DEF Init
    <2>2. 1 .. Len(handles) = {}
      BY <2>1
    <2> QED BY <2>2 DEF Texts
  <1>2. MaxFd \in Nat /\ 1 \in 1 .. MaxFd + 1 /\ mounts \in Seq(MountT)
    <2>1. MaxFd \in Nat
      BY FilesAssumption
    <2>2. mounts \in Seq(MountT)
      BY FilesAssumption DEF Init, MountT
    <2> QED BY <2>1, <2>2
  <1>3. Shape
    <2>1. handles \in Seq(SlotT) /\ mounts \in Seq(MountT) /\ halted \in BOOLEAN
      BY <1>1, <1>2 DEF Init
    <2>2. next_descriptor \in 1 .. MaxFd + 1
      BY <1>2 DEF Init
    <2>3. seen \in [1 .. MaxFd -> Texts] /\ listed \in [1 .. MaxFd -> Texts]
      BY <1>1 DEF Init
    <2> QED BY <2>1, <2>2, <2>3 DEF Shape
  <1> QED BY <1>1, <1>3 DEF IInv, Ordered

LEMMA Inductive ==
  ASSUME IInv, [Next]_vars
  PROVE  IInv'
  <1>1. CASE \E path \in Paths, buffer \in Buffers, write \in BOOLEAN : open(path, buffer, write)
    BY <1>1, OpenKeeps
  <1>2. CASE \E fd \in 0 .. MaxFd, to \in Seeks : seek(fd, to)
    BY <1>2, SeekKeeps
  <1>3. CASE \E fd \in 0 .. MaxFd, n \in Lens, buffer \in Buffers : read(fd, n, buffer)
    BY <1>3, ReadKeeps
  <1>4. CASE \E fd \in 0 .. MaxFd : close(fd)
    BY <1>4, CloseKeeps
  <1>5. CASE \E fd \in 0 .. MaxFd : read_file_to_memory(fd)
    BY <1>5, MemoryKeeps
  <1>6. CASE \/ \E name \in Names, folder \in Roots : mount(name, folder)
             \/ \E name \in Names : unmount(name)
    BY <1>6, MountsKeep
  <1>7. CASE Halted \/ UNCHANGED vars
    <2>1. halted \in BOOLEAN
      BY DEF IInv, Shape
    <2> QED BY <1>7, <2>1, Unmoved DEF Halted, vars
  <1> QED BY <1>1, <1>2, <1>3, <1>4, <1>5, <1>6, <1>7 DEF Next

LEMMA Invariant ==
  Spec => []IInv
  BY Initially, Inductive, PTL DEF Spec

-------------------------------------------------------------------------------
(* Theorems.                                                               *)

\* What is in front of a place and what is behind it are the whole.
LEMMA Whole ==
  ASSUME NEW S, NEW s \in Seq(S), NEW k \in Nat, k <= Len(s)
  PROVE  SubSeq(s, 1, k) \o SubSeq(s, k + 1, Len(s)) = s
  <1> DEFINE a == SubSeq(s, 1, k)
             b == SubSeq(s, k + 1, Len(s))
             n == Len(s)
  <1>0. n \in Nat /\ k <= n /\ n - k \in Nat
    OBVIOUS
  <1>1. a \in Seq(S) /\ Len(a) = k /\ \A i \in 1 .. k : a[i] = s[i]
    BY <1>0
  <1>2. b \in Seq(S) /\ Len(b) = n - k /\ \A i \in 1 .. n - k : b[i] = s[k + i]
    <2>1. \A i \in 1 .. n - k : k + i \in 1 .. n /\ (k + 1) + i - 1 = k + i
      BY <1>0
    <2> QED BY <1>0, <2>1
  <1> HIDE DEF a, b
  <1>3. a \in Seq(S) /\ b \in Seq(S)
    BY <1>1, <1>2
  <1>4. a \o b \in Seq(S) /\ Len(a \o b) = Len(a) + Len(b)
    BY <1>3
  <1>5. Len(a \o b) = n
    BY <1>0, <1>1, <1>2, <1>4
  <1>6. ASSUME NEW i \in 1 .. n PROVE (a \o b)[i] = s[i]
    <2>1. CASE i <= k
      <3>1. i \in 1 .. Len(a)
        BY <1>0, <1>1, <2>1
      <3>2. (a \o b)[i] = a[i]
        BY <1>3, <3>1
      <3> QED BY <1>0, <1>1, <2>1, <3>2
    <2>2. CASE ~ (i <= k)
      <3> DEFINE j == i - k
      <3>1. j \in 1 .. n - k /\ k + j = i
        BY <1>0, <2>2
      <3>2. (a \o b)[i] = b[j]
        <4>1. i > Len(a) /\ i <= Len(a) + Len(b) /\ i - Len(a) = j /\ i \in 1 .. Len(a) + Len(b)
          BY <1>0, <1>1, <1>2, <2>2, <3>1
        <4> QED BY <1>3, <4>1
      <3> HIDE DEF j
      <3> QED BY <1>2, <3>1, <3>2
    <2> QED BY <2>1, <2>2
  <1>7. a \o b = s
    <2> HIDE DEF n
    <2>1. Len(s) = n
      BY DEF n
    <2> QED BY <1>0, <1>4, <1>5, <1>6, <2>1
  <1> QED BY <1>7 DEF a, b

\* The state stays in its domain: no handle is past its end, and every mount leads to
\* a folder there is.
THEOREM TypeCorrect ==
  Spec => []TypeOK
  <1>1. ASSUME IInv PROVE TypeOK
    <2>1. mounts \in Seq([name : Names, folder : DOMAIN Folders])
      BY <1>1 DEF IInv, Shape, MountT
    <2>2. next_descriptor \in 1 .. MaxFd + 1 /\ halted \in BOOLEAN
      BY <1>1 DEF IInv, Shape
    <2>3. DOMAIN handles = 1 .. Len(handles)
      BY <1>1 DEF IInv, Shape
    <2>4. ASSUME NEW i \in 1 .. Len(handles)
          PROVE  /\ handles[i].fd \in 1 .. MaxFd
                 /\ handles[i].handle.index \in 0 .. Len(handles[i].handle.data)
      <3>1. handles[i].fd \in 1 .. MaxFd /\ handles[i].handle \in HandleT
        BY <1>1, Typing
      <3>2. handles[i].handle.index <= Len(handles[i].handle.data)
        BY <1>1 DEF IInv, SlotAt
      <3> DEFINE h == handles[i].handle
      <3>3. h.index \in Nat /\ Len(h.data) \in Nat
        BY <3>1 DEF HandleT
      <3> HIDE DEF h
      <3> QED BY <3>1, <3>2, <3>3 DEF h
    <2> QED BY <2>1, <2>2, <2>3, <2>4 DEF TypeOK
  <1> QED BY <1>1, Invariant, PTL

\* What a program has read of a folder and what is left are the names the folder had
\* when it was opened, a line each, whatever was mounted in between: dir_names_to_handle
\* and IteratorFileHandle neither skip a name nor give one twice.
THEOREM ListingIsWhole ==
  Spec => []ListingWhole
  <1>1. ASSUME IInv PROVE ListingWhole
    <2>1. DOMAIN handles = 1 .. Len(handles)
      BY <1>1 DEF IInv, Shape
    <2> DEFINE H(i) == handles[i].handle
               D(i) == handles[i].fd
               Text(i) == seen[D(i)] \o SubSeq(H(i).data, H(i).index + 1, Len(H(i).data))
    <2>2. ASSUME NEW i \in 1 .. Len(handles), H(i).folder
          PROVE  /\ Len(Text(i)) = 2 * Len(listed[D(i)])
                 /\ \A k \in DOMAIN listed[D(i)] : /\ Text(i)[2 * k - 1] = listed[D(i)][k]
                                                   /\ Text(i)[2 * k] = "\n"
      <3> DEFINE h == H(i)
                 d == D(i)
                 ns == listed[d]
                 t == Text(i)
      <3>1. h \in HandleT /\ d \in 1 .. MaxFd
        BY <1>1, Typing
      <3>2. h.index <= Len(h.data) /\ h.data = dir_names_to_handle(ns)
            /\ seen[d] = SubSeq(h.data, 1, h.index)
        BY <1>1, <2>2 DEF IInv, SlotAt
      <3>3. ns \in Texts
        BY <1>1, <3>1 DEF IInv, Shape
      <3>4. h.data \in Seq(Bytes) /\ h.index \in Nat
        BY <3>1 DEF HandleT
      <3>5. t = SubSeq(h.data, 1, h.index) \o SubSeq(h.data, h.index + 1, Len(h.data))
        BY <3>2
      <3>6. t = h.data
        <4> HIDE DEF h, t
        <4> QED BY <3>2, <3>4, <3>5, Whole
      <3>7. t = dir_names_to_handle(ns)
        BY <3>2, <3>6
      <3>8. DOMAIN ns = 1 .. Len(ns)
        <4> HIDE DEF ns
        <4> QED BY <3>3 DEF Texts
      <3> HIDE DEF t, ns
      <3>9. /\ Len(t) = 2 * Len(ns)
            /\ \A k \in 1 .. Len(ns) : t[2 * k - 1] = ns[k] /\ t[2 * k] = "\n"
        BY <3>3, <3>7, TextOf
      <3> QED BY <3>8, <3>9 DEF t, ns
    <2> QED BY <2>1, <2>2 DEF ListingWhole
  <1> QED BY <1>1, Invariant, PTL

-------------------------------------------------------------------------------
(* Descriptors keep their meaning.                                         *)

\* What a step leaves at a descriptor was there before, read on or moved only by a
\* call on it, or the descriptor is new.
Traced(d, i, j) ==
  /\ handles[i].fd = d /\ handles'[j].handle.data = handles[i].handle.data
  /\ handles'[j].handle # handles[i].handle => ret'.call \in {"read", "seek"} /\ ret'.arg = d
Traceable(d) ==
  \A j \in 1 .. Len(handles') : handles'[j].fd = d =>
    d >= next_descriptor \/ \E i \in 1 .. Len(handles) : Traced(d, i, j)

StableAt(d) ==
  /\ d < next_descriptor /\ ~ Open(d) => ~ Open(d)'
  /\ Open(d) /\ Open(d)' =>
       /\ HandleOf(d)'.data = HandleOf(d).data
       /\ HandleOf(d)' # HandleOf(d) => ret'.call \in {"read", "seek"} /\ ret'.arg = d

LEMMA TracedStable ==
  ASSUME IInv, IInv', NEW d \in 1 .. MaxFd, Traceable(d)
  PROVE  StableAt(d)
  <1>0. Len(handles) \in Nat /\ Len(handles') \in Nat
    BY DEF IInv, Shape
  <1>1. /\ \A i \in 1 .. Len(handles) : PositionIn(handles, handles[i].fd) = i
        /\ \A i \in 1 .. Len(handles) : handles[i].fd < next_descriptor
        /\ next_descriptor \in Int /\ d \in Int
    BY Typing DEF IInv, Ordered
  <1> DEFINE p == PositionIn(handles, d)
             q == PositionIn(handles', d)
  <1>2. Open(d) <=> p # 0
    BY PositionIs DEF Open
  <1>a. Position(d)' = q
    BY DEF Position, PositionIn, SelectInSeq
  <1>3. Open(d)' <=> q # 0
    BY <1>a DEF Open
  <1>4. HandleOf(d) = handles[p].handle
    BY PositionIs DEF HandleOf
  <1>5. HandleOf(d)' = handles'[q].handle
    BY <1>a DEF HandleOf
  <1>6. p # 0 => p \in 1 .. Len(handles) /\ handles[p].fd = d
    BY <1>0, PositionFacts
  <1>7. q # 0 => q \in 1 .. Len(handles') /\ handles'[q].fd = d
    BY <1>0, PositionFacts
  <1>8. \A i \in 1 .. Len(handles) : handles[i].fd = d => p = i
    BY <1>1
  <1> HIDE DEF p, q
  <1>9. ASSUME q # 0 PROVE d >= next_descriptor \/ \E i \in 1 .. Len(handles) : Traced(d, i, q)
    BY <1>7, <1>9 DEF Traceable
  <1>10. ASSUME d < next_descriptor, q # 0 PROVE p # 0 /\ Traced(d, p, q)
    <2>1. PICK i \in 1 .. Len(handles) : Traced(d, i, q)
      BY <1>1, <1>9, <1>10
    <2>2. p = i
      BY <1>8, <2>1 DEF Traced
    <2> QED BY <1>0, <2>1, <2>2
  <1>11. p # 0 => d < next_descriptor
    BY <1>1, <1>6
  <1>12. d < next_descriptor /\ ~ Open(d) => ~ Open(d)'
    BY <1>2, <1>3, <1>10
  <1>13. ASSUME Open(d), Open(d)'
         PROVE  /\ HandleOf(d)'.data = HandleOf(d).data
                /\ HandleOf(d)' # HandleOf(d) => ret'.call \in {"read", "seek"} /\ ret'.arg = d
    <2>1. Traced(d, p, q)
      BY <1>2, <1>3, <1>10, <1>11, <1>13
    <2> QED BY <1>4, <1>5, <2>1 DEF Traced
  <1> QED BY <1>12, <1>13 DEF StableAt

LEMMA SameTable ==
  ASSUME handles' = handles
  PROVE  \A d : Traceable(d)
  BY DEF Traceable, Traced

LEMMA ReplacedTraced ==
  ASSUME IInv, NEW i \in 1 .. Len(handles), NEW h, h.data = handles[i].handle.data,
         handles' = [handles EXCEPT ![i].handle = h],
         ret'.call \in {"read", "seek"} /\ ret'.arg = handles[i].fd
  PROVE  \A d : Traceable(d)
  <1>1. handles \in Seq(SlotT) /\ Len(handles) \in Nat /\ \A j \in 1 .. Len(handles) : handles[j] \in SlotT
    BY Typing DEF IInv, Shape
  <1> DEFINE x == [handles[i] EXCEPT !.handle = h]
  <1>2. x.fd = handles[i].fd /\ x.handle = h
    BY <1>1 DEF SlotT
  <1>3. handles' = [handles EXCEPT ![i] = x]
    OBVIOUS
  <1> DEFINE S == SlotT
  <1> HIDE DEF x, S
  <1>4. /\ Len(handles') = Len(handles) /\ handles'[i] = x
        /\ \A j \in 1 .. Len(handles) : j # i => handles'[j] = handles[j]
    <2>1. handles \in Seq(S)
      BY <1>1 DEF S
    <2> QED BY <1>3, <2>1
  <1>5. ASSUME NEW d, NEW j \in 1 .. Len(handles), handles'[j].fd = d PROVE Traced(d, j, j)
    <2>1. CASE j = i
      BY <1>2, <1>4, <1>5, <2>1 DEF Traced
    <2>2. CASE j # i
      BY <1>4, <1>5, <2>2 DEF Traced
    <2> QED BY <2>1, <2>2
  <1> QED BY <1>4, <1>5 DEF Traceable

LEMMA OpenTraced ==
  ASSUME IInv, NEW path, NEW buffer \in Buffers, NEW write, open(path, buffer, write)
  PROVE  \A d : Traceable(d)
  <1> DEFINE r == open_path_full(path)
             x == [fd |-> next_descriptor, handle |-> open_handle(r.at)]
             n == Len(handles)
  <1>1. CASE buffer # "user" \/ write \/ ~ r.ok
    <2>1. handles' = handles
      BY <1>1 DEF Buffers, open, Fail
    <2> QED BY <2>1, SameTable
  <1>2. CASE ~ (buffer # "user" \/ write \/ ~ r.ok)
    <2>1. handles' = Append(handles, x)
      BY <1>2 DEF open, allocate_descriptor
    <2>2. x.fd = next_descriptor /\ next_descriptor \in Int
      BY Typing
    <2> DEFINE S == SlotT \cup {x}
    <2>3. handles \in Seq(S)
      <3>1. handles \in [1 .. n -> SlotT] /\ n \in Nat
        BY DEF IInv, Shape
      <3>2. handles \in [1 .. n -> S]
        BY <3>1
      <3> HIDE DEF S
      <3> QED BY <3>1, <3>2
    <2>4. x \in S
      OBVIOUS
    <2> HIDE DEF x, S
    <2>5. /\ Len(handles') = n + 1 /\ n \in Nat
          /\ \A i \in 1 .. n : handles'[i] = handles[i]
          /\ handles'[n + 1] = x
          /\ \A i \in 1 .. n + 1 : i = n + 1 \/ i \in 1 .. n
      BY <2>1, <2>3, <2>4, AppendFacts
    <2> HIDE DEF n
    <2>6. ASSUME NEW d, NEW j \in 1 .. n + 1, handles'[j].fd = d
          PROVE  d >= next_descriptor \/ \E i \in 1 .. n : Traced(d, i, j)
      <3>1. CASE j = n + 1
        BY <2>2, <2>5, <2>6, <3>1
      <3>2. CASE j \in 1 .. n
        <4>1. Traced(d, j, j)
          BY <2>5, <2>6, <3>2 DEF Traced
        <4> QED BY <3>2, <4>1
      <3> QED BY <2>5, <3>1, <3>2
    <2> QED BY <2>5, <2>6 DEF Traceable, n
  <1> QED BY <1>1, <1>2

LEMMA SeekTraced ==
  ASSUME IInv, NEW fd \in 0 .. MaxFd, NEW to \in Seeks, seek(fd, to)
  PROVE  \A d : Traceable(d)
  <1> DEFINE i == Position(fd)
             h == handles[i].handle
  <1>1. CASE i = 0 \/ handle_seek(h, to) # "Ok"
    <2>1. handles' = handles
      BY <1>1 DEF seek, Fail
    <2> QED BY <2>1, SameTable
  <1>2. CASE ~ (i = 0 \/ handle_seek(h, to) # "Ok")
    <2>1. /\ handles' = [handles EXCEPT ![i].handle.index = to]
          /\ ret' = [call |-> "seek", arg |-> fd, code |-> "Ok"]
      BY <1>2 DEF seek, Answer
    <2>2. i \in 1 .. Len(handles) /\ handles[i].fd = fd
      <3>1. i = PositionIn(handles, fd) /\ Len(handles) \in Nat
        BY PositionIs, Typing
      <3> HIDE DEF i
      <3> QED BY <1>2, <3>1, PositionFacts
    <2>3. h \in HandleT
      BY <2>2, Typing
    <2> HIDE DEF i
    <2> DEFINE g == [h EXCEPT !.index = to]
    <2>4. g.data = h.data
      BY <2>3 DEF HandleT
    <2>5. handles' = [handles EXCEPT ![i].handle = g]
      BY <2>1
    <2>6. ret'.call \in {"read", "seek"} /\ ret'.arg = handles[i].fd
      BY <2>1, <2>2
    <2> HIDE DEF g
    <2> QED BY <2>2, <2>4, <2>5, <2>6, ReplacedTraced
  <1> QED BY <1>1, <1>2

LEMMA ReadTraced ==
  ASSUME IInv, NEW fd \in 0 .. MaxFd, NEW n \in Lens, NEW buffer \in Buffers, read(fd, n, buffer)
  PROVE  \A d : Traceable(d)
  <1> DEFINE i == Position(fd)
             h == handles[i].handle
             r == handle_read(h, n)
  <1>1. CASE buffer # "user" \/ i = 0 \/ r.panic
    <2>1. handles' = handles
      BY <1>1 DEF Buffers, read, Fail
    <2> QED BY <2>1, SameTable
  <1>2. CASE ~ (buffer # "user" \/ i = 0 \/ r.panic)
    <2>1. /\ handles' = [handles EXCEPT ![i].handle = r.handle]
          /\ ret' = [call |-> "read", arg |-> fd, code |-> "Ok"]
      BY <1>2 DEF read, Answer
    <2>2. i \in 1 .. Len(handles) /\ handles[i].fd = fd
      <3>1. i = PositionIn(handles, fd) /\ Len(handles) \in Nat
        BY PositionIs, Typing
      <3> HIDE DEF i
      <3> QED BY <1>2, <3>1, PositionFacts
    <2>3. h \in HandleT /\ h.index <= Len(h.data) /\ n \in Nat
      BY <2>2, Typing, FilesAssumption DEF IInv, SlotAt
    <2>4. r.handle.data = h.data
      <3> HIDE DEF h
      <3> QED BY <1>2, <2>3, ReadOf
    <2> DEFINE g == r.handle
    <2>5. handles' = [handles EXCEPT ![i].handle = g] /\ g.data = handles[i].handle.data
      BY <2>1, <2>4
    <2>6. ret'.call \in {"read", "seek"} /\ ret'.arg = handles[i].fd
      BY <2>1, <2>2
    <2> HIDE DEF g, i, r
    <2> QED BY <2>2, <2>5, <2>6, ReplacedTraced
  <1> QED BY <1>1, <1>2

LEMMA CloseTraced ==
  ASSUME IInv, NEW fd \in 0 .. MaxFd, close(fd)
  PROVE  \A d : Traceable(d)
  <1> DEFINE p == Position(fd)
             n == Len(handles)
             S == SlotT
  <1>1. CASE p = 0
    <2>1. handles' = handles
      BY <1>1 DEF close, Fail
    <2> QED BY <2>1, SameTable
  <1>2. CASE p # 0
    <2>1. handles' = RemoveAt(handles, p)
      BY <1>2 DEF close
    <2>2. p \in 1 .. n
      <3>1. p = PositionIn(handles, fd) /\ Len(handles) \in Nat
        BY PositionIs, Typing
      <3> HIDE DEF p
      <3> QED BY <1>2, <3>1, PositionFacts
    <2> HIDE DEF p, n, S
    <2>3. /\ Len(handles') = n - 1 /\ n \in Nat
          /\ \A j \in 1 .. n - 1 : handles'[j] = handles[IF j < p THEN j ELSE j + 1]
      <3>1. handles \in Seq(S)
        BY DEF IInv, Shape, S
      <3> QED BY <2>1, <2>2, <3>1, RemoveFacts DEF n
    <2> DEFINE At(j) == IF j < p THEN j ELSE j + 1
    <2>4. \A j \in 1 .. n - 1 : At(j) \in 1 .. n
      BY <2>2, <2>3
    <2>5. \A j \in 1 .. n - 1 : handles'[j] = handles[At(j)]
      BY <2>3
    <2> HIDE DEF At
    <2>6. ASSUME NEW d, NEW j \in 1 .. n - 1, handles'[j].fd = d PROVE Traced(d, At(j), j)
      BY <2>5, <2>6 DEF Traced
    <2>7. ASSUME NEW d, NEW j \in 1 .. n - 1, handles'[j].fd = d
          PROVE  \E i \in 1 .. n : Traced(d, i, j)
      BY <2>4, <2>6, <2>7
    <2> QED BY <2>3, <2>7 DEF Traceable, n
  <1> QED BY <1>1, <1>2

\* A descriptor means one open file from its open to its close: no other open, close,
\* mount or unmount, and no call on another descriptor, changes what it reads or where;
\* and allocate_descriptor never gives a number a second time.
THEOREM DescriptorsKeep ==
  Spec => DescriptorsStable
  <1>1. ASSUME IInv, [Next]_vars PROVE \A d \in 1 .. MaxFd : Traceable(d)
    <2> USE <1>1
    <2>1. CASE \E path \in Paths, buffer \in Buffers, write \in BOOLEAN : open(path, buffer, write)
      BY <2>1, OpenTraced
    <2>2. CASE \E fd \in 0 .. MaxFd, to \in Seeks : seek(fd, to)
      BY <2>2, SeekTraced
    <2>3. CASE \E fd \in 0 .. MaxFd, n \in Lens, buffer \in Buffers : read(fd, n, buffer)
      BY <2>3, ReadTraced
    <2>4. CASE \E fd \in 0 .. MaxFd : close(fd)
      BY <2>4, CloseTraced
    <2>5. CASE \E fd \in 0 .. MaxFd : read_file_to_memory(fd)
      BY <2>5, SameTable DEF read_file_to_memory, Fail
    <2>6. CASE \/ \E name \in Names, folder \in Roots : mount(name, folder)
               \/ \E name \in Names : unmount(name)
      BY <2>6, SameTable DEF mount, unmount
    <2>7. CASE Halted \/ UNCHANGED vars
      BY <2>7, SameTable DEF Halted, vars
    <2> QED BY <2>1, <2>2, <2>3, <2>4, <2>5, <2>6, <2>7 DEF Next
  <1>2. ASSUME IInv, IInv', [Next]_vars
        PROVE  [\A d \in 1 .. MaxFd : StableAt(d)]_vars
    BY <1>1, <1>2, TracedStable
  <1>3. ASSUME [\A d \in 1 .. MaxFd : StableAt(d)]_vars
        PROVE  [\A d \in 1 .. MaxFd :
                  /\ d < next_descriptor /\ ~ Open(d) => ~ Open(d)'
                  /\ Open(d) /\ Open(d)' =>
                       /\ HandleOf(d)'.data = HandleOf(d).data
                       /\ HandleOf(d)' # HandleOf(d) => ret'.call \in {"read", "seek"} /\ ret'.arg = d]_vars
    BY <1>3 DEF StableAt
  <1> QED BY <1>2, <1>3, Invariant, PTL DEF Spec, DescriptorsStable

-------------------------------------------------------------------------------
(* A path that opens opens what it denotes.                                *)

Stays(x) == x \in {"", "."}

LEMMA PathStep ==
  ASSUME NEW x
  PROVE  path_step(x) = "Current" <=> Stays(x)
  BY DEF path_step, Stays

\* The first component that does not stay, and the oldest mount of a name.
LEMMA FirstName ==
  ASSUME NEW path \in Seq(STRING)
  PROVE  LET i == SelectInSeq(path, LAMBDA x : path_step(x) # "Current")
         IN  /\ i = 0 => \A k \in 1 .. Len(path) : Stays(path[k])
             /\ i # 0 => /\ i \in 1 .. Len(path) /\ ~ Stays(path[i])
                         /\ \A k \in 1 .. i - 1 : Stays(path[k])
  <1> DEFINE I == {j \in 1 .. Len(path) : path_step(path[j]) # "Current"}
             i == SelectInSeq(path, LAMBDA x : path_step(x) # "Current")
  <1>1. i = IF I # {} THEN Min(I) ELSE 0
    BY DEF SelectInSeq
  <1>2. I \in SUBSET Nat
    OBVIOUS
  <1>3. I # {} => Min(I) \in I /\ \A j \in I : Min(I) <= j
    <2> HIDE DEF I
    <2> QED BY <1>2, MinPlace
  <1>4. Len(path) \in Nat
    OBVIOUS
  <1> HIDE DEF i
  <1>5. CASE I = {}
    <2>1. i = 0 /\ \A k \in 1 .. Len(path) : path_step(path[k]) = "Current"
      BY <1>1, <1>5
    <2> QED BY <2>1, PathStep DEF i
  <1>6. CASE I # {}
    <2>1. i \in I /\ \A j \in I : i <= j
      <3> HIDE DEF I
      <3> QED BY <1>1, <1>3, <1>6
    <2>2. i \in 1 .. Len(path) /\ path_step(path[i]) # "Current"
      BY <2>1
    <2>3. ASSUME NEW k \in 1 .. i - 1 PROVE path_step(path[k]) = "Current"
      <3>1. k \in 1 .. Len(path) /\ ~ (i <= k)
        BY <1>4, <2>2
      <3> QED BY <2>1, <3>1
    <2>4. i # 0
      BY <2>2
    <2> QED BY <2>2, <2>3, <2>4, PathStep DEF i
  <1> QED BY <1>5, <1>6

LEMMA OldestMount ==
  ASSUME mounts \in Seq(MountT), NEW x, find_mount(x) # 0
  PROVE  LET m == find_mount(x)
         IN  /\ m \in 1 .. Len(mounts) /\ mounts[m].name = x
             /\ \A k \in 1 .. m - 1 : mounts[k].name # x
  <1> DEFINE I == {j \in 1 .. Len(mounts) : mounts[j].name = x}
             m == find_mount(x)
  <1>1. m = IF I # {} THEN Min(I) ELSE 0
    BY DEF find_mount, SelectInSeq
  <1>2. I \in SUBSET Nat /\ Len(mounts) \in Nat
    OBVIOUS
  <1>3. I # {} => Min(I) \in I /\ \A j \in I : Min(I) <= j
    <2> HIDE DEF I
    <2> QED BY <1>2, MinPlace
  <1>4. m \in I /\ \A j \in I : m <= j
    <2> HIDE DEF I
    <2> QED BY <1>1, <1>3
  <1> HIDE DEF m
  <1>5. m \in 1 .. Len(mounts) /\ mounts[m].name = x
    BY <1>4
  <1>6. ASSUME NEW k \in 1 .. m - 1 PROVE mounts[k].name # x
    <2>1. k \in 1 .. Len(mounts) /\ ~ (m <= k)
      BY <1>2, <1>5
    <2> QED BY <1>4, <2>1
  <1> QED BY <1>5, <1>6 DEF m

\* In a folder only a component that stays opens, and it opens the folder.
LEMMA StepStays ==
  ASSUME NEW r, NEW x, r.ok => r.at.file = None, init_step(r, x).ok
  PROVE  r.ok /\ init_step(r, x) = r /\ Stays(x)
  <1>1. ~ Err.ok
    BY DEF Err
  <1>2. CASE ~ r.ok
    BY <1>2 DEF init_step
  <1>3. CASE r.ok /\ path_step(x) = "Current"
    BY <1>3, PathStep DEF init_step
  <1>4. CASE r.ok /\ path_step(x) # "Current"
    <2>1. rel_open(r.at, x) = Err
      BY <1>4 DEF rel_open
    <2> QED BY <1>1, <1>4, <2>1 DEF init_step
  <1> QED BY <1>2, <1>3, <1>4

LEMMA WalkStays ==
  ASSUME NEW first, NEW rest, NEW N \in Nat, NEW g, Walk(first, rest, N, g),
         first.ok => first.at.file = None, g[N].ok
  PROVE  first.ok /\ g[N] = first /\ \A k \in 1 .. N : Stays(rest[k])
  <1> DEFINE Good(n) == g[n].ok => first.ok /\ g[n] = first /\ \A k \in 1 .. n : Stays(rest[k])
             Bad == {n \in 0 .. N : ~ Good(n)}
  <1>1. \A n \in 0 .. N : g[n] = IF n = 0 THEN first ELSE init_step(g[n - 1], rest[n])
    BY DEF Walk
  <1>2. Good(0)
    <2>1. g[0] = first
      BY <1>1
    <2> QED BY <2>1
  <1>3. ASSUME NEW n \in 0 .. N, n # 0, Good(n - 1) PROVE Good(n)
    <2>1. n - 1 \in 0 .. N /\ n \in Nat
      BY <1>3
    <2>2. g[n] = init_step(g[n - 1], rest[n])
      BY <1>1, <1>3
    <2> SUFFICES ASSUME g[n].ok PROVE first.ok /\ g[n] = first /\ \A k \in 1 .. n : Stays(rest[k])
      OBVIOUS
    <2>3. g[n - 1].ok => g[n - 1].at.file = None
      BY <1>3
    <2>4. g[n - 1].ok /\ g[n] = g[n - 1] /\ Stays(rest[n])
      BY <2>2, <2>3, StepStays
    <2>5. first.ok /\ g[n] = first /\ \A k \in 1 .. n - 1 : Stays(rest[k])
      BY <1>3, <2>4
    <2>6. \A k \in 1 .. n : k = n \/ k \in 1 .. n - 1
      BY <2>1
    <2> QED BY <2>4, <2>5, <2>6
  <1> HIDE DEF Good
  <1>4. ASSUME Bad # {} PROVE FALSE
    <2>1. PICK m \in Bad : \A k \in Bad : m <= k
      <3>1. Bad \in SUBSET Nat
        OBVIOUS
      <3> HIDE DEF Bad
      <3> QED BY <1>4, <3>1, LeastExists
    <2>2. m \in 0 .. N /\ ~ Good(m)
      OBVIOUS
    <2>3. m # 0
      BY <1>2, <2>2
    <2>4. m - 1 \in 0 .. N /\ ~ (m <= m - 1)
      BY <2>2, <2>3
    <2>5. Good(m - 1)
      BY <2>1, <2>4
    <2> QED BY <1>3, <2>2, <2>3, <2>5
  <1>5. Good(N)
    BY <1>4
  <1> QED BY <1>5 DEF Good

\* What open_path_full finds: the root, or the folder of a mount.
LEMMA OpensAt ==
  ASSUME mounts \in Seq(MountT), NEW path \in Seq(STRING), open_path_full(path).ok
  PROVE  LET q == open_path_full(path).at
         IN  \E i \in 0 .. Len(path) :
               /\ \A k \in 1 .. Len(path) : k # i => Stays(path[k])
               /\ i = 0 => q = Root
               /\ i # 0 => /\ ~ Stays(path[i])
                           /\ \E m \in 1 .. Len(mounts) :
                                /\ mounts[m].name = path[i] /\ q = Place(mounts[m].folder, None)
                                /\ \A k \in 1 .. m - 1 : mounts[k].name # path[i]
  <1> DEFINE p == proc_open_dir(path)
             first == p.res
             rest == p.rest
             N == Len(p.rest)
             Rec(g) == Walk(first, rest, N, g)
             s == CHOOSE g : Rec(g)
             i == SelectInSeq(path, LAMBDA x : path_step(x) # "Current")
             m == find_mount(path[i])
  <1>0. rest \in Seq(STRING)
    BY ProcOpenDir
  <1>1. open_path_full(path) = s[N]
    BY Zenon DEF open_path_full, Walk
  <1>2. /\ i = 0 => first = Found(Root) /\ rest = <<>>
        /\ i # 0 /\ (path_step(path[i]) = "Parent" \/ m = 0) => first = Err
        /\ i # 0 /\ ~ (path_step(path[i]) = "Parent" \/ m = 0) =>
             first = Found(Place(mounts[m].folder, None)) /\ rest = SubSeq(path, i + 1, Len(path))
    <2>1. CASE i = 0
      <3>1. p = [res |-> Found(Root), rest |-> <<>>]
        BY <2>1 DEF proc_open_dir
      <3> HIDE DEF p
      <3> QED BY <2>1, <3>1
    <2>2. CASE i # 0 /\ (path_step(path[i]) = "Parent" \/ m = 0)
      <3>1. p = [res |-> Err, rest |-> <<>>]
        BY <2>2 DEF proc_open_dir
      <3> HIDE DEF p
      <3> QED BY <2>2, <3>1
    <2>3. CASE i # 0 /\ ~ (path_step(path[i]) = "Parent" \/ m = 0)
      <3>1. p = [res |-> Found(Place(mounts[m].folder, None)), rest |-> SubSeq(path, i + 1, Len(path))]
        BY <2>3 DEF proc_open_dir
      <3> HIDE DEF p
      <3> QED BY <2>3, <3>1
    <2> QED BY <2>1, <2>2, <2>3
  <1>3. /\ i = 0 => \A k \in 1 .. Len(path) : Stays(path[k])
        /\ i # 0 => /\ i \in 1 .. Len(path) /\ ~ Stays(path[i])
                    /\ \A k \in 1 .. i - 1 : Stays(path[k])
    BY FirstName
  <1> HIDE DEF p, i, m
  <1>4. first.ok => first.at.file = None
    BY <1>2 DEF Found, Err, Root, Place
  <1>5. N \in Nat
    BY <1>0
  <1>6. Rec(s)
    <2>1. \E g : Rec(g)
      <3> HIDE DEF first, rest, N
      <3> QED BY <1>5, AfterExists
    <2> HIDE DEF Rec
    <2> QED BY <2>1, Zenon
  <1> HIDE DEF s, first, rest
  <1>7. first.ok /\ s[N] = first /\ \A k \in 1 .. N : Stays(rest[k])
    <2> HIDE DEF N
    <2>1. s[N].ok
      BY <1>1
    <2>2. Walk(first, rest, N, s)
      BY <1>6
    <2> HIDE DEF Rec
    <2> QED BY <1>4, <1>5, <2>1, <2>2, WalkStays, ZenonT(30)
  <1>8. Len(path) \in Nat
    OBVIOUS
  <1>9. CASE i = 0
    <2>1. open_path_full(path).at = Root
      BY <1>1, <1>2, <1>7, <1>9 DEF Found
    <2>2. 0 \in 0 .. Len(path)
      BY <1>8
    <2> QED BY <1>3, <1>9, <2>1, <2>2
  <1>10. CASE i # 0
    <2>1. ~ (path_step(path[i]) = "Parent" \/ m = 0)
      BY <1>2, <1>7, <1>10 DEF Err
    <2>2. open_path_full(path).at = Place(mounts[m].folder, None)
      BY <1>1, <1>2, <1>7, <1>10, <2>1 DEF Found
    <2>3. /\ m \in 1 .. Len(mounts) /\ mounts[m].name = path[i]
          /\ \A k \in 1 .. m - 1 : mounts[k].name # path[i]
      BY <2>1, OldestMount DEF m
    <2>4. i \in 1 .. Len(path) /\ i \in 0 .. Len(path) /\ ~ Stays(path[i])
      BY <1>3, <1>8, <1>10
    <2>5. rest = SubSeq(path, i + 1, Len(path))
      BY <1>2, <1>10, <2>1
    <2>6. /\ Len(rest) = Len(path) - i
          /\ \A k \in 1 .. Len(path) - i : rest[k] = path[(i + k)]
      <3>1. i + 1 \in Nat /\ Len(path) - (i + 1) + 1 = Len(path) - i
        BY <1>8, <2>4
      <3>2. Len(SubSeq(path, i + 1, Len(path))) = Len(path) - i
        BY <1>8, <2>4
      <3>3. ASSUME NEW k \in 1 .. Len(path) - i
            PROVE  SubSeq(path, i + 1, Len(path))[k] = path[(i + k)]
        BY <1>8, <2>4
      <3> QED BY <2>5, <3>2, <3>3
    <2>7. ASSUME NEW k \in 1 .. Len(path), k # i PROVE Stays(path[k])
      <3>1. CASE k < i
        BY <1>3, <1>8, <2>4, <2>7, <3>1
      <3>2. CASE ~ (k < i)
        <4>1. k - i \in 1 .. Len(path) - i /\ i + (k - i) = k
          BY <1>8, <2>4, <2>7, <3>2
        <4>2. rest[k - i] = path[k]
          BY <2>6, <4>1
        <4>3. k - i \in 1 .. N
          BY <2>6, <4>1 DEF rest
        <4> QED BY <1>7, <4>2, <4>3
      <3> QED BY <3>1, <3>2
    <2>8. \E j \in 1 .. Len(mounts) :
            /\ mounts[j].name = path[i] /\ open_path_full(path).at = Place(mounts[j].folder, None)
            /\ \A k \in 1 .. j - 1 : mounts[k].name # path[i]
      BY <2>2, <2>3
    <2> QED BY <1>10, <2>4, <2>7, <2>8
  <1> QED BY <1>9, <1>10

\* The reference stays at the root up to the name, and at what it names after it.
LEMMA DenotedIs ==
  ASSUME NEW path \in Seq(STRING), NEW i \in 0 .. Len(path), NEW q,
         \A k \in 1 .. Len(path) : k # i => Stays(path[k]),
         i = 0 => q = Root, i # 0 => ~ Stays(path[i]) /\ Child(Root, path[i]) = {q}
  PROVE  Denoted(path) = {q}
  <1> DEFINE L == Len(path)
             P(g) == g = [n \in 0 .. L |-> IF n = 0 THEN {Root}
                            ELSE IF path[n] \in {"", "."} THEN g[n - 1]
                            ELSE UNION {Child(p, path[n]) : p \in g[n - 1]}]
             d == [n \in 0 .. L |-> IF i # 0 /\ n >= i THEN {q} ELSE {Root}]
             c == CHOOSE g : P(g)
  <1>0. L \in Nat /\ i \in Nat
    OBVIOUS
  <1>1. Denoted(path) = c[L]
    BY Zenon DEF Denoted
  <1>2. ASSUME NEW n \in 0 .. L, n # 0
        PROVE  d[n] = IF path[n] \in {"", "."} THEN d[n - 1]
                      ELSE UNION {Child(p, path[n]) : p \in d[n - 1]}
    <2>0. n \in 1 .. L /\ n - 1 \in 0 .. L
      BY <1>0, <1>2
    <2>1. CASE n = i
      <3>1. d[n] = {q} /\ d[n - 1] = {Root}
        BY <1>0, <1>2, <2>0, <2>1
      <3>2. path[n] \notin {"", "."} /\ Child(Root, path[n]) = {q}
        BY <1>2, <2>1 DEF Stays
      <3> HIDE DEF d
      <3>3. UNION {Child(p, path[n]) : p \in {Root}} = {q}
        BY <3>2
      <3> QED BY <3>1, <3>2, <3>3
    <2>2. CASE n # i
      <3>1. path[n] \in {"", "."}
        BY <2>0, <2>2 DEF Stays
      <3>2. n >= i <=> n - 1 >= i
        BY <1>0, <2>0, <2>2
      <3>3. d[n] = d[n - 1]
        BY <2>0, <3>2
      <3> HIDE DEF d
      <3> QED BY <3>1, <3>3
    <2> QED BY <2>1, <2>2
  <1>3. d[0] = {Root} /\ d[L] = {q}
    <2>1. d[0] = {Root}
      BY <1>0
    <2>2. d[L] = IF i # 0 /\ L >= i THEN {q} ELSE {Root}
      BY <1>0
    <2>3. L >= i
      BY <1>0
    <2> HIDE DEF d, L
    <2> QED BY <2>1, <2>2, <2>3
  <1>4. P(d)
    <2>1. d = [n \in 0 .. L |-> d[n]]
      OBVIOUS
    <2> HIDE DEF d
    <2>2. \A n \in 0 .. L : d[n] = IF n = 0 THEN {Root}
                            ELSE IF path[n] \in {"", "."} THEN d[n - 1]
                            ELSE UNION {Child(p, path[n]) : p \in d[n - 1]}
      BY <1>2, <1>3
    <2> QED BY <2>1, <2>2, Zenon
  <1>5. P(c)
    <2> HIDE DEF P, d
    <2> QED BY <1>4, Zenon
  <1> HIDE DEF d, c
  <1>6. \A n \in 0 .. L : c[n] = IF n = 0 THEN {Root}
                            ELSE IF path[n] \in {"", "."} THEN c[n - 1]
                            ELSE UNION {Child(p, path[n]) : p \in c[n - 1]}
    <2> HIDE DEF L
    <2> QED BY <1>5
  <1> HIDE DEF P, L
  <1> DEFINE Bad == {n \in 0 .. L : c[n] # d[n]}
  <1>7. ASSUME Bad # {} PROVE FALSE
    <2>1. PICK m \in Bad : \A k \in Bad : m <= k
      <3>1. Bad \in SUBSET Nat
        BY <1>0
      <3> HIDE DEF Bad
      <3> QED BY <1>7, <3>1, LeastExists
    <2>2. m \in 0 .. L /\ c[m] # d[m]
      OBVIOUS
    <2>3. m # 0
      BY <1>0, <1>3, <1>6, <2>2
    <2>4. m - 1 \in 0 .. L /\ ~ (m <= m - 1)
      BY <1>0, <2>2, <2>3
    <2>5. c[m - 1] = d[m - 1]
      BY <2>1, <2>4
    <2> QED BY <1>2, <1>6, <2>2, <2>3, <2>5
  <1>8. c[L] = d[L]
    BY <1>0, <1>7
  <1> QED BY <1>1, <1>3, <1>8

LEMMA OpenDenotes ==
  ASSUME mounts \in Seq(MountT), NEW path \in Seq(STRING), open_path_full(path).ok
  PROVE  open_path_full(path).at \in Denoted(path) /\ open_path_full(path).at.file = None
  <1> DEFINE q == open_path_full(path).at
  <1>1. PICK i \in 0 .. Len(path) :
          /\ \A k \in 1 .. Len(path) : k # i => Stays(path[k])
          /\ i = 0 => q = Root
          /\ i # 0 => /\ ~ Stays(path[i])
                      /\ \E m \in 1 .. Len(mounts) :
                           /\ mounts[m].name = path[i] /\ q = Place(mounts[m].folder, None)
                           /\ \A k \in 1 .. m - 1 : mounts[k].name # path[i]
    BY OpensAt
  <1> HIDE DEF q
  <1>2. ASSUME i # 0 PROVE Child(Root, path[i]) = {q}
    <2> DEFINE x == path[i]
               Firsts == {j \in 1 .. Len(mounts) : mounts[j].name = x
                                       /\ \A k \in 1 .. j - 1 : mounts[k].name # x}
    <2>1. PICK m \in 1 .. Len(mounts) :
            /\ mounts[m].name = x /\ q = Place(mounts[m].folder, None)
            /\ \A k \in 1 .. m - 1 : mounts[k].name # x
      BY <1>1, <1>2
    <2> HIDE DEF x
    <2>2. Len(mounts) \in Nat /\ DOMAIN mounts = 1 .. Len(mounts)
      OBVIOUS
    <2>3. ASSUME NEW j \in Firsts PROVE j = m
      <3>1. ~ (j < m)
        BY <2>1, <2>2, <2>3
      <3>2. ~ (m < j)
        BY <2>1, <2>2, <2>3
      <3> QED BY <2>1, <2>2, <3>1, <3>2
    <2>4. Firsts = {m}
      BY <2>1, <2>3
    <2>5. Child(Root, x) = {Place(mounts[j].folder, None) : j \in Firsts}
      BY <2>2 DEF Child, Root
    <2> HIDE DEF Firsts
    <2>6. Child(Root, x) = {q}
      BY <2>1, <2>4, <2>5
    <2> QED BY <2>6 DEF x
  <1>3. Denoted(path) = {q}
    BY <1>1, <1>2, DenotedIs
  <1>4. q.file = None
    BY <1>1 DEF Root, Place
  <1> QED BY <1>3, <1>4 DEF q

\* What a path denotes depends on the mounts only.
ChildIn(ms, p, x) ==
  LET es == Folders[p.folder]
  IN  IF p.root
      THEN {Place(ms[i].folder, None) :
              i \in {j \in DOMAIN ms : ms[j].name = x /\ \A k \in 1 .. j - 1 : ms[k].name # x}}
      ELSE {IF es[i].file THEN Place(p.folder, es[i].to) ELSE Place(es[i].to, None) :
              i \in {j \in DOMAIN es : p.file = None /\ es[j].name = x}}
DenotedIn(ms, path) ==
  LET reach[n \in 0 .. Len(path)] ==
        IF n = 0 THEN {Root}
        ELSE IF path[n] \in {"", "."} THEN reach[n - 1]
        ELSE UNION {ChildIn(ms, p, path[n]) : p \in reach[n - 1]}
  IN  reach[Len(path)]

LEMMA SamePlaces ==
  ASSUME mounts' = mounts, NEW path, NEW p
  PROVE  Denoted(path)' = Denoted(path) /\ Listing(p)' = Listing(p)
  <1>1. Denoted(path) = DenotedIn(mounts, path)
    BY Zenon DEF Denoted, DenotedIn, Child, ChildIn
  <1>2. Denoted(path)' = DenotedIn(mounts', path)
    BY Zenon DEF Denoted, DenotedIn, Child, ChildIn
  <1>3. Listing(p)' = Listing(p)
    BY DEF Listing
  <1> QED BY <1>1, <1>2, <1>3

LEMMA OpenOpens ==
  ASSUME IInv, IInv', NEW path \in Paths, NEW buffer \in Buffers, NEW write, open(path, buffer, write)
  PROVE  OpensWhatThePathSays'
  <1> DEFINE r == open_path_full(path)
  <1>0. PICK fd, q : fd = next_descriptor /\ q = r.at
    OBVIOUS
  <1> DEFINE h == open_handle(q)
             x == [fd |-> fd, handle |-> h]
             n == Len(handles)
  <1>1. CASE buffer # "user" \/ write \/ ~ r.ok
    <2>1. ret'.code # "Ok"
      BY <1>1 DEF Buffers, open, Answer
    <2> QED BY <2>1 DEF OpensWhatThePathSays
  <1>2. CASE ~ (buffer # "user" \/ write \/ ~ r.ok)
    <2>1. /\ next_descriptor' = next_descriptor + 1
          /\ handles' = Append(handles, x)
          /\ listed' = [listed EXCEPT ![fd] = IF q.file = None THEN Listing(q) ELSE <<>>]
          /\ ret'.arg = path /\ mounts' = mounts /\ fd <= MaxFd
      BY <1>0, <1>2 DEF open, allocate_descriptor, Answer
    <2>2. q \in Denoted(path) /\ q.file = None
      <3>1. mounts \in Seq(MountT) /\ path \in Seq(STRING)
        BY FilesAssumption DEF IInv, Shape
      <3> QED BY <1>0, <1>2, <3>1, OpenDenotes
    <2> HIDE DEF r
    <2>3. h.folder /\ x.fd = fd /\ x.handle = h
      BY <2>2 DEF open_handle
    <2> DEFINE S == SlotT \cup {x}
    <2>4. handles \in Seq(S)
      <3>1. handles \in [1 .. n -> SlotT] /\ n \in Nat
        BY DEF IInv, Shape
      <3>2. handles \in [1 .. n -> S]
        BY <3>1
      <3> HIDE DEF S
      <3> QED BY <3>1, <3>2
    <2>5. x \in S
      OBVIOUS
    <2> HIDE DEF x, S, h
    <2>6. Len(handles') = n + 1 /\ n \in Nat /\ handles'[n + 1] = x
      BY <2>1, <2>4, <2>5, AppendFacts
    <2>7. handles' # <<>> /\ handles'[Len(handles')].fd = fd /\ Len(handles') \in 1 .. Len(handles')
      BY <2>3, <2>6
    <2>8. Position(fd)' = Len(handles')
      <3> DEFINE hs == handles'
                 T == SlotT
      <3>1. hs \in Seq(T) /\ \A i \in 1 .. Len(hs) : hs[i].fd \in Int
        <4>1. hs \in Seq(SlotT)
          BY DEF IInv, Shape
        <4>2. \A i \in 1 .. Len(hs) : hs[i] \in SlotT
          BY <4>1
        <4> QED BY <4>1, <4>2 DEF SlotT
      <3>2. Ascends(hs)
        BY DEF IInv, Ordered, Ascends
      <3> HIDE DEF hs, T
      <3>3. hs[Len(hs)].fd = fd /\ Len(hs) \in 1 .. Len(hs)
        BY <2>7 DEF hs
      <3>4. PositionIn(hs, hs[Len(hs)].fd) = Len(hs)
        BY <3>1, <3>2, <3>3, FoundIs
      <3>5. Position(fd)' = PositionIn(handles', fd)
        BY DEF Position, PositionIn, SelectInSeq
      <3> QED BY <2>7, <3>4, <3>5 DEF hs
    <2>9. HandleOf(fd)' = h
      BY <2>3, <2>6, <2>8 DEF HandleOf
    <2>10. fd \in 1 .. MaxFd /\ next_descriptor' - 1 = fd
      <3>1. fd \in 1 .. MaxFd + 1 /\ MaxFd \in Nat
        BY <1>0, FilesAssumption DEF IInv, Shape
      <3> QED BY <1>0, <2>1, <3>1
    <2>11. listed'[fd] = Listing(q)
      <3>1. listed \in [1 .. MaxFd -> Texts]
        BY DEF IInv, Shape
      <3> QED BY <2>1, <2>2, <2>10, <3>1
    <2>12. Denoted(path)' = Denoted(path) /\ Listing(q)' = Listing(q)
      BY <2>1, SamePlaces
    <2>13. \E p \in Denoted(ret.arg)' :
             IF p.file = None THEN listed'[fd] = Listing(p)' /\ HandleOf(fd)'.folder
             ELSE HandleOf(fd)'.data = Content[p.file] /\ ~ HandleOf(fd)'.folder
      BY <2>1, <2>2, <2>3, <2>9, <2>11, <2>12
    <2> QED BY <2>7, <2>10, <2>13 DEF OpensWhatThePathSays
  <1> QED BY <1>1, <1>2

LEMMA SameOpens ==
  ASSUME OpensWhatThePathSays, UNCHANGED vars
  PROVE  OpensWhatThePathSays'
  <1>1. /\ mounts' = mounts /\ handles' = handles /\ next_descriptor' = next_descriptor
        /\ ret' = ret /\ listed' = listed
    BY DEF vars
  <1> SUFFICES ASSUME ret.call = "open" /\ ret.code = "Ok" PROVE OpensWhatThePathSays'
    BY <1>1 DEF OpensWhatThePathSays
  <1>2. PICK d, path : d = next_descriptor - 1 /\ path = ret.arg
    OBVIOUS
  <1>3. PICK p \in Denoted(path) :
          IF p.file = None THEN listed[d] = Listing(p) /\ HandleOf(d).folder
          ELSE HandleOf(d).data = Content[p.file] /\ ~ HandleOf(d).folder
    BY <1>2 DEF OpensWhatThePathSays
  <1>4. handles # <<>> /\ handles[Len(handles)].fd = d
    BY <1>2 DEF OpensWhatThePathSays
  <1>5. HandleOf(d)' = HandleOf(d)
    BY <1>1 DEF HandleOf, Position, SelectInSeq
  <1>6. Denoted(path)' = Denoted(path) /\ Listing(p)' = Listing(p)
    BY <1>1, SamePlaces
  <1> QED BY <1>1, <1>2, <1>3, <1>4, <1>5, <1>6 DEF OpensWhatThePathSays

LEMMA OtherCalls ==
  ASSUME NEW fd, \/ Quiet \/ Answer("seek", fd, "Ok") \/ Answer("read", fd, "Ok")
  PROVE  OpensWhatThePathSays'
  <1>1. ASSUME NEW call, NEW arg, NEW code, Answer(call, arg, code) PROVE ret'.call = call
    BY <1>1 DEF Answer
  <1>2. ret'.call = "other" \/ ret'.call = "seek" \/ ret'.call = "read"
    BY <1>1 DEF Quiet
  <1> QED BY <1>2 DEF OpensWhatThePathSays

\* A path that opens opens what it denotes: the root of the task, or the folder of the
\* oldest mount of its name; the walk of open_path_full never stops at a folder on the
\* way, and the handle of the new descriptor lists the names of that folder.
THEOREM PathsOpenWhatTheySay ==
  Spec => []OpensWhatThePathSays
  <1>1. ASSUME Init PROVE OpensWhatThePathSays
    BY <1>1 DEF Init, OpensWhatThePathSays
  <1>2. ASSUME IInv, IInv', OpensWhatThePathSays, [Next]_vars PROVE OpensWhatThePathSays'
    <2> USE <1>2
    <2>1. CASE \E path \in Paths, buffer \in Buffers, write \in BOOLEAN : open(path, buffer, write)
      BY <2>1, OpenOpens
    <2>2. CASE \E fd \in 0 .. MaxFd, to \in Seeks : seek(fd, to)
      BY <2>2, OtherCalls DEF seek
    <2>3. CASE \E fd \in 0 .. MaxFd, n \in Lens, buffer \in Buffers : read(fd, n, buffer)
      BY <2>3, OtherCalls DEF read
    <2>4. CASE \E fd \in 0 .. MaxFd : close(fd)
      BY <2>4, OtherCalls DEF close
    <2>5. CASE \E fd \in 0 .. MaxFd : read_file_to_memory(fd)
      BY <2>5, OtherCalls DEF read_file_to_memory
    <2>6. CASE \E name \in Names, folder \in Roots : mount(name, folder)
      BY <2>6, OtherCalls DEF mount
    <2>7. CASE \E name \in Names : unmount(name)
      BY <2>7, OtherCalls DEF unmount
    <2>8. CASE Halted \/ UNCHANGED vars
      BY <2>8, SameOpens DEF Halted
    <2> QED BY <2>1, <2>2, <2>3, <2>4, <2>5, <2>6, <2>7, <2>8 DEF Next
  <1> QED BY <1>1, <1>2, Invariant, PTL DEF Spec

===============================================================================
