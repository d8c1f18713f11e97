--------------------------- MODULE CapabilityProofs ---------------------------
(***************************************************************************)
(* Proofs about Capability for every family of tasks, every grant at boot  *)
(* and every bound on the handles.                                         *)
(***************************************************************************)
EXTENDS Capability, FiniteSetTheorems, TLAPS

\* c derives from a boot capability of every parent-closed family t is in.
Granted(t, c) ==
  \A S \in UpClosed : t \in S =>
    \E a \in S : \E k \in 1..Len(BootCaps[a]) : Derives(c, BootCaps[a][k])

\* s may be the table of t when the next handle is n.
GoodTable(t, s, n) ==
  /\ s \in Seq(Entry)
  /\ \A i \in 1..Len(s) : s[i].handle < n
  /\ \A i, j \in 1..Len(s) : i < j => s[i].handle < s[j].handle
  /\ \A i \in 1..Len(s) : Granted(t, s[i].cap)

\* The inductive invariant.
IInv ==
  /\ TypeOK
  /\ \A t \in Tasks : GoodTable(t, handles[t], next_handle[t])

\* The invariant gives the two safety properties.
LEMMA InvImplies == IInv => FreshHandles /\ NoAmplification
  <1>1. IInv => FreshHandles
    BY DEF IInv, GoodTable, FreshHandles
  <1>2. IInv => NoAmplification
    BY DEF IInv, GoodTable, Granted, NoAmplification, UpClosed
  <1> QED BY <1>1, <1>2

-------------------------------------------------------------------------------
(* The storage.                                                            *)

\* RemoveAt shortens a table by one and keeps the order of the others (Vec::remove).
LEMMA RemoveFacts ==
  ASSUME NEW s \in Seq(Entry), NEW i \in 1..Len(s)
  PROVE  /\ RemoveAt(s, i) \in Seq(Entry)
         /\ Len(RemoveAt(s, i)) = Len(s) - 1
         /\ Len(s) \in Nat
         /\ \A j \in 1 .. Len(s) - 1 :
              RemoveAt(s, i)[j] = IF j < i THEN s[j] ELSE s[j + 1]
  <1>1. Len(s) \in Nat /\ Len(s) - 1 \in Nat
    OBVIOUS
  <1>2. \A j \in 1 .. Len(s) - 1 : s[j] \in Entry /\ s[j + 1] \in Entry
    BY <1>1
  <1>3. RemoveAt(s, i) \in [1 .. Len(s) - 1 -> Entry]
    BY <1>2 DEF RemoveAt
  <1> QED BY <1>1, <1>3 DEF RemoveAt

\* Deleting an entry keeps a table good.
LEMMA RemoveGood ==
  ASSUME NEW t, NEW s, NEW n \in Nat, GoodTable(t, s, n), NEW i \in 1..Len(s)
  PROVE  GoodTable(t, RemoveAt(s, i), n)
  <1> DEFINE r == RemoveAt(s, i)
  <1>1. s \in Seq(Entry)
    BY DEF GoodTable
  <1>2. /\ r \in Seq(Entry) /\ Len(r) = Len(s) - 1 /\ Len(s) \in Nat
        /\ \A j \in 1..Len(r) : r[j] = IF j < i THEN s[j] ELSE s[j + 1]
    BY <1>1, RemoveFacts
  <1>3. \A j \in 1..Len(r) : r[j].handle < n /\ Granted(t, r[j].cap)
    BY <1>2 DEF GoodTable
  <1>4. ASSUME NEW j \in 1..Len(r), NEW k \in 1..Len(r), j < k
        PROVE  r[j].handle < r[k].handle
    <2> DEFINE jj == IF j < i THEN j ELSE j + 1
               kk == IF k < i THEN k ELSE k + 1
    <2>1. jj \in 1..Len(s) /\ kk \in 1..Len(s) /\ jj < kk
      BY <1>2, <1>4
    <2>2. r[j] = s[jj] /\ r[k] = s[kk]
      BY <1>2
    <2> HIDE DEF jj, kk
    <2> QED BY <2>1, <2>2 DEF GoodTable
  <1> QED BY <1>2, <1>3, <1>4 DEF GoodTable

\* Appending a granted capability under the next handle keeps a table good.
LEMMA AppendGood ==
  ASSUME NEW t, NEW s, NEW n \in Nat, GoodTable(t, s, n),
         NEW c \in CapabilityT, Granted(t, c)
  PROVE  GoodTable(t, Append(s, [handle |-> n, cap |-> c]), n + 1)
  <1> DEFINE e == [handle |-> n, cap |-> c]
             r == Append(s, e)
  <1>1. s \in Seq(Entry) /\ e \in Entry
    BY DEF GoodTable, Entry
  <1>2. /\ r \in Seq(Entry) /\ Len(r) = Len(s) + 1 /\ Len(s) \in Nat
        /\ \A j \in 1..Len(s) : r[j] = s[j] /\ s[j] \in Entry
        /\ r[Len(s) + 1] = e
    BY <1>1
  <1>3. \A j \in 1..Len(s) : s[j].handle \in Nat /\ s[j].handle < n
    BY <1>2 DEF GoodTable, Entry
  <1>4. \A j \in 1..Len(r) : r[j].handle < n + 1 /\ Granted(t, r[j].cap)
    BY <1>2, <1>3 DEF GoodTable
  <1>5. ASSUME NEW j \in 1..Len(r), NEW k \in 1..Len(r), j < k
        PROVE  r[j].handle < r[k].handle
    <2>1. CASE k = Len(s) + 1
      BY <1>2, <1>3, <1>5, <2>1
    <2>2. CASE k # Len(s) + 1
      <3>1. j \in 1..Len(s) /\ k \in 1..Len(s)
        BY <1>2, <1>5, <2>2
      <3>2. s[j].handle < s[k].handle
        BY <1>5, <3>1 DEF GoodTable
      <3> QED BY <1>2, <3>1, <3>2
    <2> QED BY <2>1, <2>2
  <1> QED BY <1>2, <1>4, <1>5 DEF GoodTable

\* Using up a handle without storing anything (no memory) keeps a table good.
LEMMA MoreHandlesGood ==
  ASSUME NEW t, NEW s, NEW n \in Nat, GoodTable(t, s, n)
  PROVE  GoodTable(t, s, n + 1)
  <1>0. s \in Seq(Entry)
    BY DEF GoodTable
  <1>1. \A i \in 1..Len(s) : s[i].handle \in Nat /\ s[i].handle < n
    <2>1. \A i \in 1..Len(s) : s[i] \in Entry
      BY <1>0
    <2> QED BY <2>1 DEF GoodTable, Entry
  <1> QED BY <1>1 DEF GoodTable

\* insert preserves the invariant when the capability is granted to the target.
LEMMA InsertGood ==
  ASSUME NEW call \in Call, NEW hs \in [Tasks -> Seq(Entry)], NEW p \in Tasks,
         next_handle \in [Tasks -> Nat],
         \A t \in Tasks : GoodTable(t, hs[t], next_handle[t]),
         NEW c \in CapabilityT, Granted(p, c),
         insert(call, hs, p, c)
  PROVE  IInv'
  <1> DEFINE e == [handle |-> next_handle[p], cap |-> c]
  <1>1. /\ next_handle' \in [Tasks -> Nat]
        /\ next_handle'[p] = next_handle[p] + 1
        /\ \A t \in Tasks \ {p} : next_handle'[t] = next_handle[t]
    BY DEF insert, issue
  <1>2. ret' \in [call : Call, code : Result]
    BY DEF insert, Return, Call, Result
  <1>3. CASE handles' = hs
    <2>1. \A t \in Tasks : GoodTable(t, handles'[t], next_handle'[t])
      BY <1>1, <1>3, MoreHandlesGood
    <2> QED BY <1>1, <1>2, <1>3, <2>1 DEF IInv, TypeOK
  <1>4. CASE handles' = [hs EXCEPT ![p] = Append(@, e)]
    <2>1. \A t \in Tasks : GoodTable(t, handles'[t], next_handle'[t])
      BY <1>1, <1>4, AppendGood
    <2>2. handles' \in [Tasks -> Seq(Entry)]
      BY <1>4, <2>1 DEF GoodTable
    <2> QED BY <1>1, <1>2, <2>1, <2>2 DEF IInv, TypeOK
  <1> QED BY <1>3, <1>4 DEF insert

\* A step that replaces one table by a good one preserves the invariant.
LEMMA ReturnGood ==
  ASSUME IInv, UNCHANGED next_handle, ret' \in [call : Call, code : Result],
         NEW t \in Tasks, NEW s, GoodTable(t, s, next_handle[t]),
         handles' = [handles EXCEPT ![t] = s]
  PROVE  IInv'
  <1>1. s \in Seq(Entry)
    BY DEF GoodTable
  <1> QED BY <1>1 DEF IInv, TypeOK

\* A call that fails without touching a table preserves the invariant.
LEMMA ErrorGood ==
  ASSUME IInv, NEW call \in Call, NEW code \in Result, Error(call, code)
  PROVE  IInv'
  BY DEF IInv, TypeOK, Error, Return

\* What the invariant says of one entry of one table.
LEMMA EntryFacts ==
  ASSUME IInv, NEW t \in Tasks, NEW i \in 1..Len(handles[t])
  PROVE  /\ handles[t] \in Seq(Entry)
         /\ handles[t][i] \in Entry
         /\ handles[t][i].cap \in CapabilityT
         /\ Granted(t, handles[t][i].cap)
         /\ next_handle[t] \in Nat
         /\ GoodTable(t, handles[t], next_handle[t])
  <1>1. handles[t] \in Seq(Entry) /\ next_handle[t] \in Nat
    BY DEF IInv, TypeOK
  <1>2. handles[t][i] \in Entry
    BY <1>1
  <1>3. handles[t][i].cap \in CapabilityT
    BY <1>2 DEF Entry
  <1>4. GoodTable(t, handles[t], next_handle[t])
    BY DEF IInv
  <1>5. Granted(t, handles[t][i].cap)
    BY <1>4 DEF GoodTable
  <1> QED BY <1>1, <1>2, <1>3, <1>4, <1>5

-------------------------------------------------------------------------------
(* The calls.                                                              *)

\* The tables handed out at boot satisfy the invariant.
LEMMA InitGood == Init => IInv
  <1> SUFFICES ASSUME Init PROVE IInv
    OBVIOUS
  <1>1. ASSUME NEW t \in Tasks PROVE GoodTable(t, handles[t], next_handle[t])
    <2>1. /\ BootCaps[t] \in Seq(CapabilityT)
          /\ Len(BootCaps[t]) \in Nat
          /\ \A i \in 1..Len(BootCaps[t]) : BootCaps[t][i] \in CapabilityT
      BY CapAssumption
    <2>2. handles[t] = [i \in 1..Len(BootCaps[t]) |-> [handle |-> i - 1, cap |-> BootCaps[t][i]]]
      BY DEF Init
    <2>3. handles[t] \in Seq(Entry) /\ Len(handles[t]) = Len(BootCaps[t])
      BY <2>1, <2>2 DEF Entry
    <2>4. \A i \in 1..Len(handles[t]) : Granted(t, handles[t][i].cap)
      <3> SUFFICES ASSUME NEW i \in 1..Len(BootCaps[t]), NEW S \in UpClosed, t \in S
                   PROVE  Derives(BootCaps[t][i], BootCaps[t][i])
        BY <2>2, <2>3 DEF Granted
      <3>1. BootCaps[t][i] \in CapabilityT
        BY <2>1
      <3> QED BY <3>1, CapAssumption DEF Derives, CapabilityT, PhysAddr
    <2>5. next_handle[t] = Len(BootCaps[t])
      BY DEF Init
    <2>6. \A i \in 1..Len(handles[t]) : handles[t][i].handle = i - 1
      BY <2>1, <2>2, <2>3
    <2>7. \A i \in 1..Len(handles[t]) : handles[t][i].handle < next_handle[t]
      <3> TAKE i \in 1..Len(handles[t])
      <3>1. handles[t][i].handle = i - 1
        BY <2>6
      <3> QED BY <2>1, <2>3, <2>5, <3>1
    <2>8. \A i, j \in 1..Len(handles[t]) : i < j => handles[t][i].handle < handles[t][j].handle
      <3> TAKE i, j \in 1..Len(handles[t])
      <3>1. handles[t][i].handle = i - 1 /\ handles[t][j].handle = j - 1
        BY <2>6
      <3> QED BY <2>1, <2>3, <3>1
    <2> QED BY <2>3, <2>4, <2>7, <2>8 DEF GoodTable
  <1>2. handles \in [Tasks -> Seq(Entry)]
    BY <1>1 DEF Init, GoodTable
  <1>3. next_handle \in [Tasks -> Nat]
    BY CapAssumption DEF Init
  <1>4. ret \in [call : Call, code : Result]
    BY DEF Init, Call, Result
  <1> QED BY <1>1, <1>2, <1>3, <1>4 DEF IInv, TypeOK

\* clone preserves the invariant.
LEMMA CloneGood ==
  ASSUME IInv, NEW t \in Tasks, NEW h, clone(t, h)
  PROVE  IInv'
  <1>1. CASE \E code \in Result : Error("clone", code)
    BY <1>1, ErrorGood DEF Call
  <1>2. CASE \E i \in 1..Len(handles[t]) : insert("clone", handles, t, handles[t][i].cap)
    <2>1. PICK i \in 1..Len(handles[t]) : insert("clone", handles, t, handles[t][i].cap)
      BY <1>2
    <2> QED BY <2>1, EntryFacts, InsertGood DEF IInv, TypeOK, Call
  <1> QED BY <1>1, <1>2 DEF clone, Position, Result

\* Narrowing a range keeps what it derives from.
LEMMA NarrowGranted ==
  ASSUME NEW t \in Tasks, NEW c \in CapabilityT, Granted(t, c),
         NEW d \in CapabilityT, Derives(d, c)
  PROVE  Granted(t, d)
  <1> SUFFICES ASSUME NEW S \in UpClosed, t \in S
               PROVE  \E a \in S : \E k \in 1..Len(BootCaps[a]) : Derives(d, BootCaps[a][k])
    BY DEF Granted
  <1>0. PICK a \in S : \E k \in 1..Len(BootCaps[a]) : Derives(c, BootCaps[a][k])
    BY DEF Granted
  <1>1. PICK k \in 1..Len(BootCaps[a]) : Derives(c, BootCaps[a][k])
    BY <1>0
  <1>2. BootCaps[a][k] \in CapabilityT
    BY CapAssumption DEF UpClosed
  <1>3. Derives(d, BootCaps[a][k])
    BY <1>1, <1>2, CapAssumption, SMTT(30) DEF Derives, CapabilityT, PhysAddr
  <1> QED BY <1>3

\* What the checks of restrict guarantee.
LEMMA NarrowDerives ==
  ASSUME NEW c \in CapabilityT, NEW a, NEW b, narrows(c, a, b)
  PROVE  /\ [c EXCEPT !.from = a, !.to = b] \in CapabilityT
         /\ Derives([c EXCEPT !.from = a, !.to = b], c)
  <1> DEFINE d == [c EXCEPT !.from = a, !.to = b]
  <1>1. a \in PhysAddr /\ b \in PhysAddr /\ ~ (a < c.from \/ b > c.to)
    BY DEF narrows
  <1>2. d \in CapabilityT
    BY <1>1 DEF CapabilityT
  <1>3. d.perms = c.perms /\ d.kind = c.kind /\ d.from = a /\ d.to = b
    BY DEF CapabilityT
  <1>4. c.from \in Int /\ c.to \in Int /\ a \in Int /\ b \in Int
    BY <1>1, CapAssumption DEF CapabilityT, PhysAddr
  <1>5. c.from <= a /\ b <= c.to
    BY <1>1, <1>4
  <1> QED BY <1>2, <1>3, <1>5 DEF Derives

\* restrict preserves the invariant.
LEMMA RestrictGood ==
  ASSUME IInv, NEW t \in Tasks, NEW h, NEW a, NEW b, restrict(t, h, a, b)
  PROVE  IInv'
  <1>1. CASE \E code \in Result : Error("restrict", code)
    BY <1>1, ErrorGood DEF Call
  <1>2. CASE \E i \in 1..Len(handles[t]) :
               /\ narrows(handles[t][i].cap, a, b)
               /\ handles' = [handles EXCEPT ![t][i].cap = [@ EXCEPT !.from = a, !.to = b]]
               /\ Return("restrict", "Ok")
               /\ UNCHANGED next_handle
    <2>1. PICK i \in 1..Len(handles[t]) :
               /\ narrows(handles[t][i].cap, a, b)
               /\ handles' = [handles EXCEPT ![t][i].cap = [@ EXCEPT !.from = a, !.to = b]]
               /\ Return("restrict", "Ok")
               /\ UNCHANGED next_handle
      BY <1>2
    <2> DEFINE s == handles[t]
               c == s[i].cap
               d == [c EXCEPT !.from = a, !.to = b]
               r == [s EXCEPT ![i].cap = d]
    <2>2. /\ s \in Seq(Entry) /\ s[i] \in Entry /\ c \in CapabilityT /\ Granted(t, c)
          /\ next_handle[t] \in Nat /\ GoodTable(t, s, next_handle[t])
      BY EntryFacts
    <2>3. d \in CapabilityT /\ Derives(d, c)
      BY <2>1, <2>2, NarrowDerives
    <2>4. Granted(t, d)
      BY <2>2, <2>3, NarrowGranted
    <2>5. /\ r \in Seq(Entry) /\ Len(r) = Len(s)
          /\ \A j \in 1..Len(s) : r[j].handle = s[j].handle /\ (j # i => r[j].cap = s[j].cap)
          /\ r[i].cap = d
      BY <2>2, <2>3 DEF Entry
    <2>6. GoodTable(t, r, next_handle[t])
      BY <2>2, <2>4, <2>5 DEF GoodTable
    <2>7. handles' = [handles EXCEPT ![t] = r]
      BY <2>1 DEF IInv, TypeOK
    <2> QED BY <2>1, <2>6, <2>7, ReturnGood DEF Return, Call, Result
  <1> QED BY <1>1, <1>2 DEF restrict, Position, Result

\* cdrop preserves the invariant.
LEMMA DropGood ==
  ASSUME IInv, NEW t \in Tasks, NEW h, cdrop(t, h)
  PROVE  IInv'
  <1>1. CASE \E code \in Result : Error("drop", code)
    BY <1>1, ErrorGood DEF Call
  <1>2. CASE \E i \in 1..Len(handles[t]) :
               /\ handles' = [handles EXCEPT ![t] = RemoveAt(handles[t], i)]
               /\ Return("drop", "Ok")
               /\ UNCHANGED next_handle
    <2>1. PICK i \in 1..Len(handles[t]) :
               /\ handles' = [handles EXCEPT ![t] = RemoveAt(handles[t], i)]
               /\ Return("drop", "Ok")
               /\ UNCHANGED next_handle
      BY <1>2
    <2>2. GoodTable(t, RemoveAt(handles[t], i), next_handle[t])
      BY EntryFacts, RemoveGood
    <2>3. ret' \in [call : Call, code : Result]
      BY <2>1 DEF Return, Call, Result
    <2> QED BY <2>1, <2>2, <2>3, ReturnGood
  <1> QED BY <1>1, <1>2 DEF cdrop, Position, Result

\* A child is granted what its parent was granted.
LEMMA ChildGranted ==
  ASSUME NEW t \in Tasks, NEW p \in Tasks, Parent[p] = t, NEW c, Granted(t, c)
  PROVE  Granted(p, c)
  BY DEF Granted, UpClosed

\* Delivering to a child what its parent was granted preserves the invariant.
LEMMA DeliverGood ==
  ASSUME IInv, NEW call \in Call, NEW hs \in [Tasks -> Seq(Entry)],
         \A q \in Tasks : GoodTable(q, hs[q], next_handle[q]),
         NEW t \in Tasks, NEW p, NEW c \in CapabilityT, Granted(t, c),
         deliver(call, hs, t, p, c)
  PROVE  IInv'
  <1>1. CASE p \notin Tasks \/ ~ accepts(p, t)
    BY <1>1 DEF deliver, Return, IInv, TypeOK, Result
  <1>2. CASE p \in Tasks /\ accepts(p, t)
    <2>1. Granted(p, c)
      BY <1>2, ChildGranted DEF accepts
    <2>2. insert(call, hs, p, c)
      BY <1>2 DEF deliver
    <2> QED BY <1>2, <2>1, <2>2, InsertGood DEF IInv, TypeOK
  <1> QED BY <1>1, <1>2

\* ProcessCapShare preserves the invariant.
LEMMA ShareGood ==
  ASSUME IInv, NEW t \in Tasks, NEW p, NEW h, share(t, p, h)
  PROVE  IInv'
  <1>1. CASE \E code \in Result : Error("share", code)
    BY <1>1, ErrorGood DEF Call
  <1>2. CASE \E i \in 1..Len(handles[t]) : deliver("share", handles, t, p, handles[t][i].cap)
    <2>1. PICK i \in 1..Len(handles[t]) : deliver("share", handles, t, p, handles[t][i].cap)
      BY <1>2
    <2> QED BY <2>1, EntryFacts, DeliverGood DEF IInv, TypeOK, Call
  <1> QED BY <1>1, <1>2 DEF share, Position, Result

\* ProcessCapTransfer preserves the invariant, also when it loses the capability.
LEMMA TransferGood ==
  ASSUME IInv, NEW t \in Tasks, NEW p, NEW h, transfer(t, p, h)
  PROVE  IInv'
  <1>1. CASE \E code \in Result : Error("transfer", code)
    BY <1>1, ErrorGood DEF Call
  <1>2. CASE \E i \in 1..Len(handles[t]) :
               deliver("transfer", [handles EXCEPT ![t] = RemoveAt(handles[t], i)],
                       t, p, handles[t][i].cap)
    <2>1. PICK i \in 1..Len(handles[t]) :
               deliver("transfer", [handles EXCEPT ![t] = RemoveAt(handles[t], i)],
                       t, p, handles[t][i].cap)
      BY <1>2
    <2> DEFINE hs == [handles EXCEPT ![t] = RemoveAt(handles[t], i)]
    <2>2. GoodTable(t, RemoveAt(handles[t], i), next_handle[t])
      BY EntryFacts, RemoveGood
    <2>3. hs \in [Tasks -> Seq(Entry)]
      BY <2>2 DEF GoodTable, IInv, TypeOK
    <2>4. \A q \in Tasks : GoodTable(q, hs[q], next_handle[q])
      BY <2>2 DEF IInv, TypeOK
    <2>5. handles[t][i].cap \in CapabilityT /\ Granted(t, handles[t][i].cap)
      BY EntryFacts
    <2>6. "transfer" \in Call
      BY DEF Call
    <2> QED BY <2>1, <2>3, <2>4, <2>5, <2>6, DeliverGood
  <1> QED BY <1>1, <1>2 DEF transfer, Position, Result

\* Every system call preserves the invariant.
LEMMA StepGood == IInv /\ [Next]_vars => IInv'
  <1> SUFFICES ASSUME IInv, [Next]_vars PROVE IInv'
    OBVIOUS
  <1>1. CASE UNCHANGED vars
    BY <1>1 DEF vars, IInv, TypeOK
  <1>2. CASE Next
    <2>1. PICK t \in Tasks :
            \/ \E h \in Handle : clone(t, h)
            \/ \E h \in Handle, a, b \in Arguments : restrict(t, h, a, b)
            \/ \E h \in Handle : cdrop(t, h)
            \/ process_share_transfer(t)
      BY <1>2 DEF Next
    <2>2. CASE process_share_transfer(t)
      BY <2>2, ErrorGood, ShareGood, TransferGood DEF process_share_transfer, Call, Result
    <2> QED BY <2>1, <2>2, CloneGood, RestrictGood, DropGood
  <1> QED BY <1>1, <1>2

-------------------------------------------------------------------------------
(* The theorems.                                                           *)

\* The strengthened invariant holds in every reachable state.
THEOREM InductiveInvariant == Spec => []IInv
  BY InitGood, StepGood, PTL DEF Spec

\* Type correctness of the capability tables.
THEOREM TypeCorrect == Spec => []TypeOK
  <1>1. IInv => TypeOK
    BY DEF IInv
  <1> QED BY <1>1, InductiveInvariant, PTL

\* A handle names at most one capability of a task.
THEOREM HandlesAreFresh == Spec => []FreshHandles
  BY InvImplies, InductiveInvariant, PTL

\* No sequence of calls gives a task an authority its ancestors and it never had.
THEOREM AuthorityNeverGrows == Spec => []NoAmplification
  BY InvImplies, InductiveInvariant, PTL

-------------------------------------------------------------------------------
(* What a step may do to one table.                                        *)

Removed(t)  == \E i \in 1..Len(handles[t]) : handles'[t] = RemoveAt(handles[t], i)
Extended(t) == \E c \in CapabilityT :
                 handles'[t] = Append(handles[t], [handle |-> next_handle[t], cap |-> c])
Narrowed(t) == \E i \in 1..Len(handles[t]) : \E d \in CapabilityT :
                 /\ Derives(d, handles[t][i].cap)
                 /\ handles'[t] = [handles[t] EXCEPT ![i].cap = d]
Shape(t)    == handles'[t] = handles[t] \/ Removed(t) \/ Extended(t) \/ Narrowed(t)

\* After an insert every table but the target's is what hs says.
LEMMA InsertShape ==
  ASSUME IInv, NEW call, NEW hs \in [Tasks -> Seq(Entry)], NEW p \in Tasks,
         NEW c \in CapabilityT, hs[p] = handles[p], insert(call, hs, p, c)
  PROVE  /\ Shape(p)
         /\ \A q \in Tasks \ {p} : handles'[q] = hs[q]
  BY DEF insert, Shape, Extended

\* deliver leaves every table as it is, short of the entry that a transfer took
\* out, or extended by a fresh entry.
LEMMA DeliverShape ==
  ASSUME IInv, NEW call, NEW hs \in [Tasks -> Seq(Entry)], NEW t \in Tasks, NEW p,
         NEW c \in CapabilityT, deliver(call, hs, t, p, c),
         \A q \in Tasks \ {t} : hs[q] = handles[q],
         hs[t] = handles[t] \/ \E i \in 1..Len(handles[t]) : hs[t] = RemoveAt(handles[t], i)
  PROVE  \A q \in Tasks : Shape(q)
  <1>1. CASE p \notin Tasks \/ ~ accepts(p, t)
    BY <1>1 DEF deliver, Shape, Removed
  <1>2. CASE p \in Tasks /\ accepts(p, t)
    <2>1. p # t
      BY <1>2, CapAssumption DEF accepts
    <2>2. Shape(p) /\ \A q \in Tasks \ {p} : handles'[q] = hs[q]
      BY <1>2, <2>1, InsertShape DEF deliver
    <2> QED BY <2>1, <2>2 DEF Shape, Removed
  <1> QED BY <1>1, <1>2

\* What a call does to a table: nothing, delete one entry, narrow one entry, or
\* extend it by a fresh one.
LEMMA StepShape ==
  ASSUME IInv, Next
  PROVE  \A q \in Tasks : Shape(q)
  <1>1. CASE UNCHANGED handles
    BY <1>1 DEF Shape
  <1>2. PICK t \in Tasks :
          \/ \E h \in Handle : clone(t, h)
          \/ \E h \in Handle, a, b \in Arguments : restrict(t, h, a, b)
          \/ \E h \in Handle : cdrop(t, h)
          \/ process_share_transfer(t)
    BY DEF Next
  <1>3. handles \in [Tasks -> Seq(Entry)]
    BY DEF IInv, TypeOK
  <1>4. ASSUME NEW h, clone(t, h) PROVE \A q \in Tasks : Shape(q)
    <2>1. UNCHANGED handles \/ \E i \in 1..Len(handles[t]) :
            insert("clone", handles, t, handles[t][i].cap)
      BY <1>4 DEF clone, Position, Error
    <2>2. CASE \E i \in 1..Len(handles[t]) : insert("clone", handles, t, handles[t][i].cap)
      <3>1. PICK i \in 1..Len(handles[t]) : insert("clone", handles, t, handles[t][i].cap)
        BY <2>2
      <3> QED BY <1>3, <3>1, EntryFacts, InsertShape DEF Shape
    <2> QED BY <1>1, <2>1, <2>2
  <1>5. ASSUME NEW h, NEW a, NEW b, restrict(t, h, a, b) PROVE \A q \in Tasks : Shape(q)
    <2>1. UNCHANGED handles \/ \E i \in 1..Len(handles[t]) :
            /\ narrows(handles[t][i].cap, a, b)
            /\ handles' = [handles EXCEPT ![t][i].cap = [@ EXCEPT !.from = a, !.to = b]]
      BY <1>5 DEF restrict, Position, Error
    <2>2. ASSUME NEW i \in 1..Len(handles[t]), narrows(handles[t][i].cap, a, b),
                 handles' = [handles EXCEPT ![t][i].cap = [@ EXCEPT !.from = a, !.to = b]]
          PROVE  \A q \in Tasks : Shape(q)
      <3> DEFINE c == handles[t][i].cap
                 d == [c EXCEPT !.from = a, !.to = b]
      <3>1. c \in CapabilityT
        BY EntryFacts
      <3>2. d \in CapabilityT /\ Derives(d, c)
        BY <2>2, <3>1, NarrowDerives
      <3>3. handles'[t] = [handles[t] EXCEPT ![i].cap = d]
        BY <1>3, <2>2
      <3>4. \A q \in Tasks \ {t} : handles'[q] = handles[q]
        BY <1>3, <2>2
      <3> HIDE DEF d
      <3> QED BY <3>2, <3>3, <3>4 DEF Shape, Narrowed
    <2> QED BY <1>1, <2>1, <2>2
  <1>6. ASSUME NEW h, cdrop(t, h) PROVE \A q \in Tasks : Shape(q)
    BY <1>3, <1>6 DEF cdrop, Position, Error, Shape, Removed
  <1>7. ASSUME NEW p, NEW h, share(t, p, h) PROVE \A q \in Tasks : Shape(q)
    <2>1. UNCHANGED handles \/ \E i \in 1..Len(handles[t]) :
            deliver("share", handles, t, p, handles[t][i].cap)
      BY <1>7 DEF share, Position, Error
    <2>2. ASSUME NEW i \in 1..Len(handles[t]), deliver("share", handles, t, p, handles[t][i].cap)
          PROVE  \A q \in Tasks : Shape(q)
      BY <1>3, <2>2, EntryFacts, DeliverShape
    <2> QED BY <1>1, <2>1, <2>2
  <1>8. ASSUME NEW p, NEW h, transfer(t, p, h) PROVE \A q \in Tasks : Shape(q)
    <2>1. UNCHANGED handles \/ \E i \in 1..Len(handles[t]) :
            deliver("transfer", [handles EXCEPT ![t] = RemoveAt(handles[t], i)],
                    t, p, handles[t][i].cap)
      BY <1>8 DEF transfer, Position, Error
    <2>2. ASSUME NEW i \in 1..Len(handles[t]),
                 deliver("transfer", [handles EXCEPT ![t] = RemoveAt(handles[t], i)],
                         t, p, handles[t][i].cap)
          PROVE  \A q \in Tasks : Shape(q)
      <3> DEFINE hs == [handles EXCEPT ![t] = RemoveAt(handles[t], i)]
      <3>1. handles[t] \in Seq(Entry) /\ handles[t][i].cap \in CapabilityT
        BY EntryFacts
      <3>2. RemoveAt(handles[t], i) \in Seq(Entry)
        BY <3>1, RemoveFacts
      <3>3. /\ hs \in [Tasks -> Seq(Entry)]
            /\ \A q \in Tasks \ {t} : hs[q] = handles[q]
            /\ hs[t] = RemoveAt(handles[t], i)
        BY <1>3, <3>2
      <3> HIDE DEF hs
      <3>4. deliver("transfer", hs, t, p, handles[t][i].cap)
        BY <2>2 DEF hs
      <3> QED BY <3>1, <3>3, <3>4, DeliverShape
    <2> QED BY <1>1, <2>1, <2>2
  <1>9. process_share_transfer(t) => \A q \in Tasks : Shape(q)
    BY <1>1, <1>7, <1>8 DEF process_share_transfer, Error
  <1> QED BY <1>2, <1>4, <1>5, <1>6, <1>9

\* Of a table of the right shape every entry is fresh or was there before.
LEMMA ShapeStable ==
  ASSUME IInv, NEW t \in Tasks, Shape(t), NEW i \in 1..Len(handles'[t])
  PROVE  \/ handles'[t][i].handle >= next_handle[t]
         \/ \E j \in 1..Len(handles[t]) :
              /\ handles[t][j].handle = handles'[t][i].handle
              /\ Derives(handles'[t][i].cap, handles[t][j].cap)
  <1> DEFINE s == handles[t]
             r == handles'[t]
  <1>1. s \in Seq(Entry) /\ Len(s) \in Nat /\ next_handle[t] \in Nat
    BY DEF IInv, TypeOK
  <1>2. ASSUME NEW j \in 1..Len(s) PROVE Derives(s[j].cap, s[j].cap)
    <2>1. s[j].cap \in CapabilityT
      BY EntryFacts
    <2> QED BY <2>1, CapAssumption, SMTT(30) DEF Derives, CapabilityT, PhysAddr
  <1>3. CASE r = s
    BY <1>2, <1>3
  <1>4. CASE Removed(t)
    <2>1. PICK k \in 1..Len(s) : r = RemoveAt(s, k)
      BY <1>4 DEF Removed
    <2>2. Len(r) = Len(s) - 1 /\ r[i] = IF i < k THEN s[i] ELSE s[i + 1]
      BY <1>1, <2>1, RemoveFacts
    <2>3. \E j \in 1..Len(s) : r[i] = s[j]
      BY <1>1, <2>2
    <2> QED BY <1>2, <2>3
  <1>5. CASE Extended(t)
    <2>1. PICK c \in CapabilityT : r = Append(s, [handle |-> next_handle[t], cap |-> c])
      BY <1>5 DEF Extended
    <2>2. CASE i \in 1..Len(s)
      <3>1. r[i] = s[i]
        BY <1>1, <2>1, <2>2
      <3> QED BY <1>2, <2>2, <3>1
    <2>3. CASE i \notin 1..Len(s)
      <3>1. i = Len(s) + 1 /\ r[i] = [handle |-> next_handle[t], cap |-> c]
        BY <1>1, <2>1, <2>3
      <3> QED BY <1>1, <3>1
    <2> QED BY <2>2, <2>3
  <1>6. CASE Narrowed(t)
    <2>1. PICK k \in 1..Len(s), d \in CapabilityT :
            Derives(d, s[k].cap) /\ r = [s EXCEPT ![k].cap = d]
      BY <1>6 DEF Narrowed
    <2>2. i \in 1..Len(s) /\ s[i] \in Entry
      BY <1>1, <2>1
    <2>3. CASE i = k
      <3>1. r[i].handle = s[i].handle /\ r[i].cap = d
        BY <1>1, <2>1, <2>2, <2>3 DEF Entry
      <3> QED BY <2>1, <2>2, <2>3, <3>1
    <2>4. CASE i # k
      <3>1. r[i] = s[i]
        BY <1>1, <2>1, <2>2, <2>4
      <3> QED BY <1>2, <2>2, <3>1
    <2> QED BY <2>3, <2>4
  <1> QED BY <1>3, <1>4, <1>5, <1>6 DEF Shape

\* A handle keeps meaning the capability it was issued for, at most narrowed.
THEOREM HandlesKeepMeaning == Spec => HandlesStable
  <1> DEFINE Stable == \A t \in Tasks : \A i \in 1..Len(handles'[t]) :
                 LET e == handles'[t][i]
                 IN  \/ e.handle >= next_handle[t]
                     \/ \E j \in 1..Len(handles[t]) :
                          handles[t][j].handle = e.handle /\ Derives(e.cap, handles[t][j].cap)
  <1>1. IInv /\ [Next]_vars => [Stable]_vars
    BY StepShape, ShapeStable
  <1> QED BY <1>1, InductiveInvariant, PTL DEF Spec, HandlesStable

-------------------------------------------------------------------------------
(* What a failing call may have changed.                                   *)

Kept == ret'.code # "Ok" =>
          \/ handles' = handles
          \/ /\ ret'.call = "transfer"
             /\ \E t \in Tasks : \E i \in 1..Len(handles[t]) :
                  handles' = [handles EXCEPT ![t] = RemoveAt(@, i)]

\* A delivery that fails leaves the tables it was given.
LEMMA DeliverKept ==
  ASSUME NEW call, NEW hs, NEW t, NEW p, NEW c, deliver(call, hs, t, p, c)
  PROVE  ret'.call = call /\ (ret'.code = "Ok" \/ handles' = hs)
  BY DEF deliver, insert, Return

\* A call that fails leaves the tables alone, a transfer short of one entry.
LEMMA FailureKeeps == IInv /\ Next => Kept
  <1> SUFFICES ASSUME IInv, Next PROVE Kept
    OBVIOUS
  <1>1. ASSUME UNCHANGED handles PROVE Kept
    BY <1>1 DEF Kept
  <1>2. PICK t \in Tasks :
          \/ \E h \in Handle : clone(t, h)
          \/ \E h \in Handle, a, b \in Arguments : restrict(t, h, a, b)
          \/ \E h \in Handle : cdrop(t, h)
          \/ process_share_transfer(t)
    BY DEF Next
  <1>3. ASSUME NEW h, clone(t, h) PROVE Kept
    <2>1. UNCHANGED handles \/ \E i \in Position(handles[t], h) :
            insert("clone", handles, t, handles[t][i].cap)
      BY <1>3 DEF clone, Error
    <2>2. ASSUME NEW i, insert("clone", handles, t, handles[t][i].cap)
          PROVE  UNCHANGED handles \/ Return("clone", "Ok")
      BY <2>2 DEF insert
    <2> QED BY <1>1, <2>1, <2>2 DEF Return, Kept
  <1>4. ASSUME NEW h, NEW a, NEW b, restrict(t, h, a, b) PROVE Kept
    <2>1. UNCHANGED handles \/ Return("restrict", "Ok")
      BY <1>4 DEF restrict, Error
    <2> QED BY <1>1, <2>1 DEF Return, Kept
  <1>5. ASSUME NEW h, cdrop(t, h) PROVE Kept
    <2>1. UNCHANGED handles \/ Return("drop", "Ok")
      BY <1>5 DEF cdrop, Error
    <2> QED BY <1>1, <2>1 DEF Return, Kept
  <1>6. ASSUME NEW p, NEW h, share(t, p, h) PROVE Kept
    <2>1. UNCHANGED handles \/ \E i \in Position(handles[t], h) :
            deliver("share", handles, t, p, handles[t][i].cap)
      BY <1>6 DEF share, Error
    <2> QED BY <1>1, <2>1, DeliverKept DEF Kept
  <1>7. ASSUME NEW p, NEW h, transfer(t, p, h) PROVE Kept
    <2>1. UNCHANGED handles \/ \E i \in 1..Len(handles[t]) :
            deliver("transfer", [handles EXCEPT ![t] = RemoveAt(handles[t], i)],
                    t, p, handles[t][i].cap)
      BY <1>7 DEF transfer, Position, Error
    <2>2. ASSUME NEW i \in 1..Len(handles[t]),
                 deliver("transfer", [handles EXCEPT ![t] = RemoveAt(handles[t], i)],
                         t, p, handles[t][i].cap)
          PROVE  Kept
      BY <2>2, DeliverKept DEF Kept
    <2> QED BY <1>1, <2>1, <2>2
  <1>8. process_share_transfer(t) => Kept
    BY <1>1, <1>6, <1>7 DEF process_share_transfer, Error
  <1> QED BY <1>2, <1>3, <1>4, <1>5, <1>8

\* A failing call changes no table; only a transfer may have lost the one entry it
\* took out before it looked at its target (process_share_transfer).
THEOREM FailuresLoseLittle == Spec => FailureLosesAtMostTheTransferred
  <1>1. IInv /\ [Next]_vars => [Kept]_vars
    BY FailureKeeps
  <1> QED BY <1>1, InductiveInvariant, PTL DEF Spec, Kept, FailureLosesAtMostTheTransferred

-------------------------------------------------------------------------------
(* Capabilities that may be neither duplicated nor shared.                 *)

\* The linear entries of the tables hs.
LinearIn(hs) == {x \in UNION {{t} \X (1..Len(hs[t])) : t \in Tasks} : Linear(hs[x[1]][x[2]].cap)}

LEMMA LinearInDef ==
  ASSUME NEW hs, NEW x
  PROVE  x \in LinearIn(hs) <=>
           \E t \in Tasks : \E k \in 1..Len(hs[t]) : x = <<t, k>> /\ Linear(hs[t][k].cap)
  BY DEF LinearIn

\* They are the entries the property counts, and finitely many.
LEMMA LinearFacts ==
  ASSUME NEW hs \in [Tasks -> Seq(Entry)]
  PROVE  IsFiniteSet(LinearIn(hs)) /\ Cardinality(LinearIn(hs)) \in Nat
  <1> DEFINE C(t) == {t} \X (1..Len(hs[t]))
             f == [t \in Tasks |-> C(t)]
             A == {C(t) : t \in Tasks}
  <1>1. ASSUME NEW t \in Tasks PROVE IsFiniteSet(C(t))
    <2>1. Len(hs[t]) \in Nat
      OBVIOUS
    <2>2. IsFiniteSet(1..Len(hs[t]))
      BY <2>1, FS_Interval
    <2>3. IsFiniteSet({t})
      BY FS_Singleton
    <2> QED BY <2>2, <2>3, FS_Product
  <1>2. f \in Surjection(Tasks, A)
    BY DEF Surjection
  <1>3. IsFiniteSet(A)
    BY <1>2, CapAssumption, FS_Surjection
  <1>4. IsFiniteSet(UNION A)
    <2>1. \A T \in A : IsFiniteSet(T)
      BY <1>1
    <2> HIDE DEF A
    <2> QED BY <1>3, <2>1, FS_UNION
  <1>5. LinearIn(hs) \in SUBSET (UNION A)
    BY DEF LinearIn
  <1> HIDE DEF A
  <1>6. IsFiniteSet(LinearIn(hs))
    BY <1>4, <1>5, FS_Subset
  <1> QED BY <1>6, FS_CardinalityType

\* Tables that are linear at the same places.
LEMMA SameLinear ==
  ASSUME NEW hs, NEW hs2,
         \A q \in Tasks : /\ Len(hs2[q]) = Len(hs[q])
                          /\ \A j \in 1..Len(hs[q]) :
                               Linear(hs2[q][j].cap) <=> Linear(hs[q][j].cap)
  PROVE  LinearIn(hs2) = LinearIn(hs)
  <1>1. ASSUME NEW x PROVE x \in LinearIn(hs2) <=> x \in LinearIn(hs)
    BY LinearInDef
  <1> QED BY <1>1

\* They are the entries the property counts.
LEMMA LinearEntriesIn == LinearEntries = LinearIn(handles)
  BY DEF LinearEntries, LinearIn

\* A table extended by one entry has one linear entry more at most, and none more if
\* the new entry is not linear.
LEMMA AppendLinear ==
  ASSUME NEW hs \in [Tasks -> Seq(Entry)], NEW p \in Tasks, NEW e \in Entry
  PROVE  LET hs2 == [hs EXCEPT ![p] = Append(@, e)]
         IN  /\ Linear(e.cap) => Cardinality(LinearIn(hs2)) = Cardinality(LinearIn(hs)) + 1
             /\ ~ Linear(e.cap) => Cardinality(LinearIn(hs2)) = Cardinality(LinearIn(hs))
  <1> DEFINE hs2 == [hs EXCEPT ![p] = Append(@, e)]
             n == Len(hs[p]) + 1
  <1>1. /\ hs2 \in [Tasks -> Seq(Entry)] /\ Len(hs[p]) \in Nat /\ Len(hs2[p]) = n
        /\ \A t \in Tasks \ {p} : hs2[t] = hs[t]
        /\ \A k \in 1..Len(hs[p]) : hs2[p][k] = hs[p][k]
        /\ hs2[p][n] = e
    OBVIOUS
  <1> HIDE DEF hs2
  <1>2. <<p, n>> \notin LinearIn(hs)
    BY <1>1, LinearInDef
  <1>7. ASSUME NEW x \in LinearIn(hs2), x # <<p, n>> PROVE x \in LinearIn(hs)
    <2>1. PICK t \in Tasks : \E k \in 1..Len(hs2[t]) : x = <<t, k>> /\ Linear(hs2[t][k].cap)
      BY LinearInDef
    <2>2. PICK k \in 1..Len(hs2[t]) : x = <<t, k>> /\ Linear(hs2[t][k].cap)
      BY <2>1
    <2>3. k \in 1..Len(hs[t]) /\ hs2[t][k] = hs[t][k]
      BY <1>1, <1>7, <2>2
    <2> QED BY <2>2, <2>3, LinearInDef
  <1>8. ASSUME NEW x \in LinearIn(hs) PROVE x \in LinearIn(hs2)
    <2>1. PICK t \in Tasks : \E k \in 1..Len(hs[t]) : x = <<t, k>> /\ Linear(hs[t][k].cap)
      BY LinearInDef
    <2>2. PICK k \in 1..Len(hs[t]) : x = <<t, k>> /\ Linear(hs[t][k].cap)
      BY <2>1
    <2>3. k \in 1..Len(hs2[t]) /\ hs2[t][k] = hs[t][k]
      <3>1. CASE t = p
        BY <1>1, <3>1
      <3>2. CASE t # p
        BY <1>1, <3>2
      <3> QED BY <3>1, <3>2
    <2> QED BY <2>2, <2>3, LinearInDef
  <1>3. ASSUME Linear(e.cap) PROVE LinearIn(hs2) = LinearIn(hs) \cup {<<p, n>>}
    <2>1. ASSUME NEW x \in LinearIn(hs2) PROVE x \in LinearIn(hs) \cup {<<p, n>>}
      BY <1>1, <1>7, LinearInDef
    <2>2. <<p, n>> \in LinearIn(hs2)
      BY <1>1, <1>3, LinearInDef
    <2> QED BY <1>8, <2>1, <2>2
  <1>4. ASSUME ~ Linear(e.cap) PROVE LinearIn(hs2) = LinearIn(hs)
    <2>1. ASSUME NEW x \in LinearIn(hs2) PROVE x \in LinearIn(hs)
      <3>1. x # <<p, n>>
        BY <1>1, <1>4, LinearInDef
      <3> QED BY <1>7, <3>1
    <2> QED BY <1>8, <2>1
  <1>5. IsFiniteSet(LinearIn(hs))
    BY LinearFacts
  <1>6. Linear(e.cap) => Cardinality(LinearIn(hs2)) = Cardinality(LinearIn(hs)) + 1
    BY <1>2, <1>3, <1>5, FS_AddElement
  <1> QED BY <1>4, <1>6 DEF hs2

\* A table without one of its linear entries has one linear entry less.
LEMMA RemoveLinear ==
  ASSUME NEW hs \in [Tasks -> Seq(Entry)], NEW t \in Tasks, NEW i \in 1..Len(hs[t])
  PROVE  LET hs2 == [hs EXCEPT ![t] = RemoveAt(hs[t], i)]
         IN  /\ hs2 \in [Tasks -> Seq(Entry)]
             /\ Cardinality(LinearIn(hs2)) <= Cardinality(LinearIn(hs))
             /\ Linear(hs[t][i].cap) => Cardinality(LinearIn(hs2)) < Cardinality(LinearIn(hs))
  <1> DEFINE hs2 == [hs EXCEPT ![t] = RemoveAt(hs[t], i)]
             r == hs2[t]
             from(k) == IF k < i THEN k ELSE k + 1
             f == [x \in LinearIn(hs2) |-> IF x[1] = t THEN <<t, from(x[2])>> ELSE x]
             rest == LinearIn(hs) \ {<<t, i>>}
  <1>1. /\ hs2 \in [Tasks -> Seq(Entry)] /\ Len(hs[t]) \in Nat /\ Len(r) = Len(hs[t]) - 1
        /\ \A q \in Tasks \ {t} : hs2[q] = hs[q]
        /\ \A k \in 1..Len(r) : r[k] = hs[t][from(k)]
    BY RemoveFacts
  <1> HIDE DEF hs2
  <1>2. ASSUME NEW x \in LinearIn(hs2) PROVE f[x] \in rest
    <2>1. PICK q \in Tasks : \E k \in 1..Len(hs2[q]) : x = <<q, k>> /\ Linear(hs2[q][k].cap)
      BY LinearInDef
    <2>2. PICK k \in 1..Len(hs2[q]) : x = <<q, k>> /\ Linear(hs2[q][k].cap)
      BY <2>1
    <2>3. CASE q = t
      <3>1. f[x] = <<t, from(k)>> /\ from(k) # i /\ from(k) \in 1..Len(hs[t])
        BY <1>1, <2>2, <2>3
      <3>2. hs2[q][k] = hs[t][from(k)]
        BY <1>1, <2>3
      <3> QED BY <2>2, <3>1, <3>2, LinearInDef
    <2>4. CASE q # t
      <3>1. f[x] = x /\ hs2[q] = hs[q] /\ x # <<t, i>>
        BY <1>1, <2>2, <2>4
      <3> QED BY <2>2, <3>1, LinearInDef
    <2> QED BY <2>3, <2>4
  <1>3. ASSUME NEW x \in LinearIn(hs2), NEW y \in LinearIn(hs2), f[x] = f[y] PROVE x = y
    <2>1. /\ \E q \in Tasks : \E k \in 1..Len(hs2[q]) : x = <<q, k>>
          /\ \E q \in Tasks : \E k \in 1..Len(hs2[q]) : y = <<q, k>>
      BY LinearInDef
    <2> QED BY <1>1, <1>3, <2>1
  <1>4. f \in Injection(LinearIn(hs2), rest)
    BY <1>2, <1>3 DEF Injection, IsInjective
  <1>5. IsFiniteSet(LinearIn(hs)) /\ Cardinality(LinearIn(hs)) \in Nat
        /\ Cardinality(LinearIn(hs2)) \in Nat
    BY <1>1, LinearFacts
  <1>6. /\ IsFiniteSet(rest)
        /\ Cardinality(rest) = IF <<t, i>> \in LinearIn(hs) THEN Cardinality(LinearIn(hs)) - 1
                               ELSE Cardinality(LinearIn(hs))
    BY <1>5, FS_RemoveElement
  <1> HIDE DEF f, rest
  <1>7. Cardinality(LinearIn(hs2)) <= Cardinality(rest)
    BY <1>4, <1>6, FS_Injection
  <1>8. Linear(hs[t][i].cap) => <<t, i>> \in LinearIn(hs)
    BY LinearInDef
  <1> QED BY <1>1, <1>5, <1>6, <1>7, <1>8 DEF hs2

NoMoreLinear == Cardinality(LinearIn(handles')) <= Cardinality(LinearIn(handles))

\* insert adds one linear entry if its capability is linear, and none otherwise.
LEMMA InsertLinear ==
  ASSUME IInv, NEW call, NEW hs \in [Tasks -> Seq(Entry)], NEW p \in Tasks,
         NEW c \in CapabilityT, insert(call, hs, p, c)
  PROVE  /\ Cardinality(LinearIn(handles')) <= Cardinality(LinearIn(hs)) + 1
         /\ ~ Linear(c) => Cardinality(LinearIn(handles')) <= Cardinality(LinearIn(hs))
  <1> DEFINE e == [handle |-> next_handle[p], cap |-> c]
  <1>1. e \in Entry /\ e.cap = c
    BY DEF IInv, TypeOK, Entry
  <1>2. Cardinality(LinearIn(hs)) \in Nat
    BY LinearFacts
  <1>3. handles' = hs \/ handles' = [hs EXCEPT ![p] = Append(@, e)]
    BY DEF insert
  <1> HIDE DEF e
  <1>4. CASE handles' = hs
    BY <1>2, <1>4
  <1>5. CASE handles' = [hs EXCEPT ![p] = Append(@, e)]
    <2>1. /\ Linear(e.cap) => Cardinality(LinearIn(handles')) = Cardinality(LinearIn(hs)) + 1
          /\ ~ Linear(e.cap) => Cardinality(LinearIn(handles')) = Cardinality(LinearIn(hs))
      BY <1>1, <1>5, AppendLinear, ZenonT(60)
    <2> QED BY <1>1, <1>2, <2>1
  <1> QED BY <1>3, <1>4, <1>5

\* No call makes a linear entry more: clone and share copy only what is not linear,
\* and transfer takes the entry out before it puts it in.
LEMMA LinearStep == IInv /\ Next => NoMoreLinear
  <1> SUFFICES ASSUME IInv, Next PROVE NoMoreLinear
    OBVIOUS
  <1>0. handles \in [Tasks -> Seq(Entry)] /\ Cardinality(LinearIn(handles)) \in Nat
    BY LinearFacts DEF IInv, TypeOK
  <1>1. ASSUME UNCHANGED handles PROVE NoMoreLinear
    BY <1>0, <1>1 DEF NoMoreLinear
  <1>2. PICK t \in Tasks :
          \/ \E h \in Handle : clone(t, h)
          \/ \E h \in Handle, a, b \in Arguments : restrict(t, h, a, b)
          \/ \E h \in Handle : cdrop(t, h)
          \/ process_share_transfer(t)
    BY DEF Next
  <1>3. ASSUME NEW h, clone(t, h) PROVE NoMoreLinear
    <2>1. UNCHANGED handles \/ \E i \in 1..Len(handles[t]) :
            may_duplicate(handles[t][i].cap) /\ insert("clone", handles, t, handles[t][i].cap)
      BY <1>3 DEF clone, Position, Error
    <2>2. ASSUME NEW i \in 1..Len(handles[t]), may_duplicate(handles[t][i].cap),
                 insert("clone", handles, t, handles[t][i].cap)
          PROVE  NoMoreLinear
      <3>1. handles[t][i].cap \in CapabilityT /\ ~ Linear(handles[t][i].cap)
        BY <2>2, EntryFacts DEF may_duplicate, Linear
      <3> QED BY <1>0, <2>2, <3>1, InsertLinear DEF NoMoreLinear
    <2> QED BY <1>1, <2>1, <2>2
  <1>4. ASSUME NEW h, NEW a, NEW b, restrict(t, h, a, b) PROVE NoMoreLinear
    <2>1. UNCHANGED handles \/ \E i \in 1..Len(handles[t]) :
            handles' = [handles EXCEPT ![t][i].cap = [@ EXCEPT !.from = a, !.to = b]]
      BY <1>4 DEF restrict, Position, Error
    <2>2. ASSUME NEW i \in 1..Len(handles[t]),
                 handles' = [handles EXCEPT ![t][i].cap = [@ EXCEPT !.from = a, !.to = b]]
          PROVE  LinearIn(handles') = LinearIn(handles)
      <3> DEFINE c == handles[t][i].cap
                 d == [c EXCEPT !.from = a, !.to = b]
      <3>1. handles[t] \in Seq(Entry) /\ handles[t][i] \in Entry /\ c \in CapabilityT
        BY EntryFacts
      <3>2. d.perms = c.perms
        BY <3>1 DEF CapabilityT
      <3>3. /\ handles'[t] = [handles[t] EXCEPT ![i].cap = d]
            /\ \A q \in Tasks \ {t} : handles'[q] = handles[q]
        BY <1>0, <2>2
      <3> HIDE DEF d
      <3>4. Len(handles'[t]) = Len(handles[t]) /\ handles'[t][i].cap = d
        BY <3>1, <3>3 DEF Entry
      <3>5. \A j \in 1..Len(handles[t]) : j # i => handles'[t][j] = handles[t][j]
        BY <3>1, <3>3
      <3>6. \A q \in Tasks : Len(handles'[q]) = Len(handles[q])
                             /\ \A j \in 1..Len(handles[q]) :
                                  Linear(handles'[q][j].cap) <=> Linear(handles[q][j].cap)
        <4>1. Linear(handles'[t][i].cap) <=> Linear(handles[t][i].cap)
          BY <3>2, <3>4 DEF Linear
        <4> QED BY <3>3, <3>4, <3>5, <4>1
      <3> DEFINE hp == handles'
      <3>7. \A q \in Tasks : /\ Len(hp[q]) = Len(handles[q])
                             /\ \A j \in 1..Len(handles[q]) :
                                  Linear(hp[q][j].cap) <=> Linear(handles[q][j].cap)
        BY <3>6
      <3> HIDE DEF hp
      <3>8. LinearIn(hp) = LinearIn(handles)
        BY <3>7, SameLinear
      <3> QED BY <3>8 DEF hp
    <2>3. CASE UNCHANGED handles
      BY <1>1, <2>3
    <2>4. CASE LinearIn(handles') = LinearIn(handles)
      BY <1>0, <2>4 DEF NoMoreLinear
    <2> QED BY <2>1, <2>2, <2>3, <2>4
  <1>5. ASSUME NEW h, cdrop(t, h) PROVE NoMoreLinear
    <2>1. UNCHANGED handles \/ \E i \in 1..Len(handles[t]) :
            handles' = [handles EXCEPT ![t] = RemoveAt(handles[t], i)]
      BY <1>5 DEF cdrop, Position, Error
    <2> QED BY <1>0, <1>1, <2>1, RemoveLinear DEF NoMoreLinear
  <1>6. ASSUME NEW p, NEW h, share(t, p, h) PROVE NoMoreLinear
    <2>1. UNCHANGED handles \/ \E i \in 1..Len(handles[t]) :
            may_share(handles[t][i].cap) /\ deliver("share", handles, t, p, handles[t][i].cap)
      BY <1>6 DEF share, Position, Error
    <2>2. ASSUME NEW i \in 1..Len(handles[t]), may_share(handles[t][i].cap),
                 deliver("share", handles, t, p, handles[t][i].cap)
          PROVE  NoMoreLinear
      <3>1. handles[t][i].cap \in CapabilityT /\ ~ Linear(handles[t][i].cap)
        BY <2>2, EntryFacts DEF may_share, Linear
      <3>2. UNCHANGED handles \/ (p \in Tasks /\ insert("share", handles, p, handles[t][i].cap))
        BY <2>2 DEF deliver
      <3> QED BY <1>0, <1>1, <3>1, <3>2, InsertLinear DEF NoMoreLinear
    <2> QED BY <1>1, <2>1, <2>2
  <1>7. ASSUME NEW p, NEW h, transfer(t, p, h) PROVE NoMoreLinear
    <2>1. UNCHANGED handles \/ \E i \in 1..Len(handles[t]) :
            deliver("transfer", [handles EXCEPT ![t] = RemoveAt(handles[t], i)],
                    t, p, handles[t][i].cap)
      BY <1>7 DEF transfer, Position, Error
    <2>2. ASSUME NEW i \in 1..Len(handles[t]),
                 deliver("transfer", [handles EXCEPT ![t] = RemoveAt(handles[t], i)],
                         t, p, handles[t][i].cap)
          PROVE  NoMoreLinear
      <3> DEFINE hs == [handles EXCEPT ![t] = RemoveAt(handles[t], i)]
                 c == handles[t][i].cap
      <3>1. /\ hs \in [Tasks -> Seq(Entry)]
            /\ Cardinality(LinearIn(hs)) <= Cardinality(LinearIn(handles))
            /\ Linear(c) => Cardinality(LinearIn(hs)) < Cardinality(LinearIn(handles))
        BY <1>0, RemoveLinear
      <3>2. c \in CapabilityT
        BY EntryFacts
      <3> HIDE DEF hs, c
      <3>3. handles' = hs \/ (p \in Tasks /\ insert("transfer", hs, p, c))
        BY <2>2 DEF deliver, hs, c
      <3>4. CASE handles' = hs
        BY <3>1, <3>4 DEF NoMoreLinear
      <3>5. CASE p \in Tasks /\ insert("transfer", hs, p, c)
        <4>1. /\ Cardinality(LinearIn(handles')) <= Cardinality(LinearIn(hs)) + 1
              /\ ~ Linear(c) => Cardinality(LinearIn(handles')) <= Cardinality(LinearIn(hs))
          BY <3>1, <3>2, <3>5, InsertLinear
        <4>2. Cardinality(LinearIn(hs)) \in Nat
          BY <3>1, LinearFacts
        <4>3. handles' \in [Tasks -> Seq(Entry)]
          BY StepGood DEF IInv, TypeOK
        <4>4. Cardinality(LinearIn(handles')) \in Nat
          BY <4>3, LinearFacts
        <4> QED BY <1>0, <3>1, <4>1, <4>2, <4>4 DEF NoMoreLinear
      <3> QED BY <3>3, <3>4, <3>5
    <2> QED BY <1>1, <2>1, <2>2
  <1>8. process_share_transfer(t) => NoMoreLinear
    BY <1>1, <1>6, <1>7 DEF process_share_transfer, Error
  <1> QED BY <1>2, <1>3, <1>4, <1>5, <1>8

\* A capability without DUPLICATE and SHAREABLE is moved, never copied, by any call
\* on any tables.
THEOREM LinearIsMoved == Spec => LinearNeverCopied
  <1>1. IInv /\ [Next]_vars => [Cardinality(LinearEntries') <= Cardinality(LinearEntries)]_vars
    <2>1. LinearEntries' = LinearIn(handles')
      BY DEF LinearEntries, LinearIn
    <2> QED BY <2>1, LinearEntriesIn, LinearStep DEF NoMoreLinear
  <1> QED BY <1>1, InductiveInvariant, PTL DEF Spec, LinearNeverCopied

===============================================================================
