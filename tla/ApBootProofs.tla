----------------------------- MODULE ApBootProofs -----------------------------
(***************************************************************************)
(* Proofs about ApBoot for every list of processors the ACPI tables give.  *)
(***************************************************************************)
EXTENDS ApBoot, FiniteSetTheorems, TLAPS

Index == 1 .. Len(Processors)
Id(j) == Processors[j].apic_id

\* Processors init has not reached, the ones it is through with, and the one that
\* it has sent IPIs to and waits for.
Untouched(i) == ap[i] = "off" /\ ipis[i] = <<>> /\ slots[i] = {} /\ stack[i] = Nobody
Finished(j) ==
  LET i == Id(j)
  IN  /\ ipis[i] = <<>>
      /\ stack[i] \in {Nobody, i}
      /\ ap[i] = IF Processors[j].disabled THEN "off" ELSE "parked"
      /\ slots[i] = IF Processors[j].disabled THEN {} ELSE {i}
UnderWay(i) ==
  /\ tramp.cpu_id = i /\ tramp.stack = i
  /\ stack[i] \in {Nobody, i}
  /\ ap[i] \in {"off", "init", "parked", "exhausted"} \cup InTrampoline
  /\ ipis[i] = IF ap[i] = "off" THEN <<"INIT", "START">>
               ELSE IF ap[i] = "init" THEN <<"START">> ELSE <<>>
  /\ IF ap[i] = "exhausted" THEN slots[i] \in {{}, {i}}
     ELSE slots[i] = IF ap[i] \in {"report", "parked"} THEN {i} ELSE {}
  /\ AP_READY <=> ap[i] = "parked"

Waits == bsp \in {"trampoline", "ap"}

\* Where each processor is, relative to the one the boot processor is at.
ProcessorsAt ==
  /\ \A j \in Index : j < k => Finished(j)
  /\ \A j \in Index : j > k => Untouched(Id(j))
  /\ k \in Index => IF Waits THEN UnderWay(me) ELSE Untouched(me)

\* Where the boot processor is, and what it has done to the page.
BspAt ==
  /\ bsp \in {"clear", "cpu_id", "stack", "ipis", "trampoline", "ap"} =>
       k \in Index /\ ~ Processors[k].disabled
  /\ bsp \in {"unwrite", "done"} => k = Len(Processors) + 1
  /\ bsp = "write" => k = 1
  /\ bsp \in {"stack", "ipis"} => tramp.cpu_id = me
  /\ bsp = "ipis" => tramp.stack = me
  /\ mapped <=> bsp \notin {"write", "done"}

\* The lock of the frame allocator is with the processor that maps its thread data, or
\* has halted there.
LockAt ==
  IF Waits /\ ap[me] \in {"thread", "exhausted"} THEN frames = me ELSE frames = Nobody

\* The inductive invariant.
IInv == TypeOK /\ BspAt /\ LockAt /\ ProcessorsAt /\ slots[Bsp] = {Bsp}

-------------------------------------------------------------------------------
(* Processors.                                                             *)

\* Every APIC id belongs to one entry of the tables and is not the boot processor's.
LEMMA IdFacts ==
  /\ Len(Processors) \in Nat
  /\ \A j \in Index : Id(j) \in Ids /\ Id(j) \in Nat /\ Id(j) # Bsp /\ Id(j) # Nobody
  /\ \A i \in Ids : \E j \in Index : i = Id(j)
  /\ \A i, j \in Index : Id(i) = Id(j) => i = j
  /\ \A j \in Index : Processors[j].disabled \in BOOLEAN
  /\ Bsp \notin Ids
  <1> DEFINE R == [apic_id : Nat, disabled : BOOLEAN]
  <1>0. Processors \in Seq(R)
    BY ProcessorsAssumption
  <1>1. Len(Processors) \in Nat /\ \A j \in Index : Processors[j] \in R
    <2> HIDE DEF R
    <2> QED BY <1>0 DEF Index
  <1>2. \A j \in Index : Id(j) \in Nat /\ Id(j) # 0 /\ Id(j) # -1
    BY <1>1, ProcessorsAssumption DEF Index, Id
  <1>3. \A j \in Index : Processors[j].disabled \in BOOLEAN
    BY <1>1
  <1>4. \A i, j \in Index : Id(i) = Id(j) => i = j
    BY ProcessorsAssumption DEF Index, Id
  <1> QED BY <1>1, <1>2, <1>3, <1>4 DEF Ids, Index, Id, Bsp, Nobody

\* An application processor that is neither off nor parked, or has IPIs coming, is
\* the one the boot processor waits for.
LEMMA OnlyOneUnderWay ==
  ASSUME IInv, NEW i \in Ids, ipis[i] # <<>> \/ ap[i] \notin {"off", "parked"}
  PROVE  k \in Index /\ Waits /\ i = me /\ i = Id(k) /\ UnderWay(i)
  <1>1. PICK j \in Index : i = Id(j)
    BY IdFacts
  <1>2. k \in Nat /\ j \in Nat
    BY IdFacts DEF IInv, TypeOK, Index
  <1>3. ~ (j < k)
    BY <1>1 DEF IInv, ProcessorsAt, Finished
  <1>4. ~ (j > k)
    BY <1>1 DEF IInv, ProcessorsAt, Untouched
  <1>5. j = k
    BY <1>2, <1>3, <1>4
  <1> QED BY <1>1, <1>5 DEF IInv, ProcessorsAt, Untouched, me, Id

\* The invariant gives the safety properties.
LEMMA InvImplies ==
  IInv => OwnArguments /\ PageOutlivesUse /\ OwnThreadData /\ PageTableExclusive
  <1> SUFFICES ASSUME IInv
               PROVE  OwnArguments /\ PageOutlivesUse /\ OwnThreadData /\ PageTableExclusive
    OBVIOUS
  <1>1. \A i \in Ids : ap[i] \in InTrampoline \cup {"panic"} => Waits /\ i = me /\ UnderWay(i)
    BY OnlyOneUnderWay DEF InTrampoline
  <1>2. ASSUME NEW i \in Ids
        PROVE  /\ stack[i] \in {Nobody, i}
               /\ slots[i] \subseteq {i}
               /\ ap[i] \in {"report", "parked"} => slots[i] = {i}
               /\ ap[i] # "panic"
    <2>1. PICK j \in Index : i = Id(j)
      BY IdFacts
    <2>2. k \in Nat /\ j \in Nat
      BY IdFacts DEF IInv, TypeOK, Index
    <2>3. CASE j < k
      BY <2>1, <2>3 DEF IInv, ProcessorsAt, Finished
    <2>4. CASE j > k
      BY <2>1, <2>4 DEF IInv, ProcessorsAt, Untouched
    <2>5. CASE j = k
      BY <2>1, <2>5 DEF IInv, ProcessorsAt, Untouched, UnderWay, me, Id, InTrampoline
    <2> QED BY <2>2, <2>3, <2>4, <2>5
  <1>3. OwnArguments
    BY <1>1, <1>2 DEF OwnArguments, UnderWay
  <1>4. PageOutlivesUse
    BY <1>1 DEF PageOutlivesUse, IInv, BspAt, Waits
  <1>5. OwnThreadData
    BY <1>2 DEF OwnThreadData, Cpus, IInv
  <1>6. PageTableExclusive
    <2>1. {i \in Ids : ap[i] = "thread"} \subseteq {me}
      BY <1>1 DEF InTrampoline
    <2>2. Cardinality({i \in Ids : ap[i] = "thread"}) <= 1
      <3>1. IsFiniteSet({me}) /\ Cardinality({me}) = 1
        BY FS_Singleton
      <3> QED BY <2>1, <3>1, FS_Subset
    <2>3. bsp \in {"write", "unwrite"} => frames = Nobody /\ \A i \in Ids : ap[i] \notin InTrampoline
      <3> SUFFICES ASSUME bsp \in {"write", "unwrite"}
                   PROVE  frames = Nobody /\ \A i \in Ids : ap[i] \notin InTrampoline
        OBVIOUS
      <3>1. ~ Waits
        BY DEF Waits
      <3> QED BY <1>1, <3>1 DEF IInv, LockAt
    <2> QED BY <2>2, <2>3 DEF PageTableExclusive
  <1> QED BY <1>3, <1>4, <1>5, <1>6

-------------------------------------------------------------------------------
(* Initial states and steps.                                               *)

LEMMA InitInv == Init => IInv
  <1> SUFFICES ASSUME Init PROVE IInv
    OBVIOUS
  <1>1. TypeOK
    <2>1. 1 \in 1 .. Len(Processors) + 1
      BY IdFacts
    <2>2. ipis \in [Ids -> Seq({"INIT", "START"})]
      BY DEF Init
    <2>3. tramp \in [ready : BOOLEAN, cpu_id : Ids \cup {Nobody}, stack : Ids \cup {Nobody}]
      BY DEF Init
    <2>4. slots \in [Cpus -> SUBSET Cpus]
      BY DEF Init, Cpus
    <2> QED BY <2>1, <2>2, <2>3, <2>4 DEF Init, TypeOK
  <1>2. BspAt
    BY DEF Init, BspAt
  <1>5. LockAt
    BY DEF Init, LockAt, Waits
  <1>3. \A i \in Ids : Untouched(i)
    BY IdFacts DEF Init, Untouched, Cpus
  <1>4. ProcessorsAt
    <2>1. k = 1 /\ ~ Waits
      BY DEF Init, Waits
    <2>2. \A j \in Index : ~ (j < k) /\ Untouched(Id(j))
      BY <1>3, <2>1, IdFacts DEF Index
    <2>3. k \in Index => Untouched(me)
      BY <2>2 DEF me, Id
    <2> QED BY <2>1, <2>2, <2>3 DEF ProcessorsAt
  <1>6. slots[Bsp] = {Bsp}
    BY DEF Init, Cpus
  <1> QED BY <1>1, <1>2, <1>4, <1>5, <1>6 DEF IInv

\* A step of the boot processor before it sends IPIs, or while it waits, leaves the
\* application processors where they are.
LEMMA BspQuiet ==
  ASSUME IInv, UNCHANGED <<k, ap, ipis, stack, slots, frames>>, TypeOK', BspAt',
         \/ ~ Waits /\ ~ Waits'
         \/ Waits /\ Waits' /\ UNCHANGED <<tramp, AP_READY>>
  PROVE  IInv'
  <1>1. LockAt'
    BY DEF IInv, LockAt, me
  <1>2. ProcessorsAt'
    <2>1. \A j \in Index : (j < k => Finished(j)') /\ (j > k => Untouched(Id(j))')
      BY DEF IInv, ProcessorsAt, Finished, Untouched
    <2>2. k \in Index => IF Waits' THEN UnderWay(me)' ELSE Untouched(me)'
      BY DEF IInv, ProcessorsAt, Untouched, UnderWay, me
    <2> QED BY <2>1, <2>2 DEF ProcessorsAt, Index
  <1> QED BY <1>1, <1>2 DEF IInv

\* It goes on to the next processor when the current one is through.
LEMMA BspAdvance ==
  ASSUME IInv, k \in Index, Finished(k), frames = Nobody, k' = k + 1, ~ Waits',
         UNCHANGED <<ap, ipis, stack, slots, frames>>, TypeOK', BspAt'
  PROVE  IInv'
  <1>0. k \in Nat /\ \A j \in Index : j \in Nat
    BY IdFacts DEF Index
  <1>1. LockAt'
    BY DEF LockAt
  <1>2. \A j \in Index : j < k' => Finished(j)'
    <2>1. \A j \in Index : j < k' => Finished(j)
      BY <1>0 DEF IInv, ProcessorsAt
    <2> QED BY <2>1 DEF Finished
  <1>3. \A j \in Index : j >= k' => Untouched(Id(j))'
    <2>1. \A j \in Index : j >= k' => Untouched(Id(j))
      BY <1>0 DEF IInv, ProcessorsAt
    <2> QED BY <2>1 DEF Untouched
  <1>4. ProcessorsAt'
    <2>1. \A j \in Index : j > k' => Untouched(Id(j))'
      BY <1>0, <1>3
    <2>2. \A j \in Index : j = k' => Untouched(Id(j))'
      BY <1>0, <1>3
    <2>3. k' \in Index => Untouched(me)'
      BY <2>2 DEF Untouched, me, Id
    <2> QED BY <1>2, <2>1, <2>3 DEF ProcessorsAt, Index
  <1> QED BY <1>1, <1>4 DEF IInv

\* The steps of the boot processor.
LEMMA BspInv == ASSUME IInv, BspStep PROVE IInv'
  <1>1. CASE trampoline_write
    <2>1. TypeOK' /\ BspAt'
      BY <1>1 DEF trampoline_write, IInv, TypeOK, BspAt
    <2> QED BY <1>1, <2>1, BspQuiet DEF trampoline_write, Waits
  <1>2. CASE for_each
    <2>0. k \in 1 .. Len(Processors) + 1 /\ Len(Processors) \in Nat /\ frames = Nobody
      BY <1>2, IdFacts DEF IInv, TypeOK, for_each, LockAt, Waits
    <2>1. CASE k > Len(Processors)
      <3>1. TypeOK' /\ BspAt'
        BY <1>2, <2>0, <2>1 DEF for_each, IInv, TypeOK, BspAt
      <3> QED BY <1>2, <2>1, <3>1, BspQuiet DEF for_each, Waits
    <2>2. CASE k <= Len(Processors) /\ Processors[k].disabled
      <3>1. k \in Index /\ k + 1 \in 1 .. Len(Processors) + 1 /\ k' = k + 1 /\ bsp' = "next"
        BY <1>2, <2>0, <2>2 DEF Index, for_each, advance
      <3>2. TypeOK'
        BY <1>2, <3>1 DEF for_each, IInv, TypeOK
      <3>3. BspAt'
        BY <1>2, <3>1 DEF for_each, IInv, BspAt
      <3>4. Untouched(me) /\ ~ Waits'
        BY <1>2, <3>1 DEF for_each, IInv, ProcessorsAt, Waits
      <3>5. Finished(k)
        BY <2>2, <3>4 DEF Finished, Untouched, me, Id
      <3> QED BY <1>2, <2>0, <3>1, <3>2, <3>3, <3>4, <3>5, BspAdvance DEF for_each
    <2>3. CASE k <= Len(Processors) /\ ~ Processors[k].disabled
      <3>1. k \in Index
        BY <2>0, <2>3 DEF Index
      <3>2. TypeOK' /\ BspAt'
        BY <1>2, <2>0, <2>3, <3>1 DEF for_each, IInv, TypeOK, BspAt, Index
      <3> QED BY <1>2, <2>0, <2>3, <3>2, BspQuiet DEF for_each, Waits
    <2> QED BY <2>0, <2>1, <2>2, <2>3
  <1>3. CASE setup_ready
    <2>1. TypeOK' /\ BspAt'
      BY <1>3 DEF setup_ready, IInv, TypeOK, BspAt, Index
    <2> QED BY <1>3, <2>1, BspQuiet DEF setup_ready, Waits
  <1>4. CASE setup_cpu_id
    <2>1. k \in Index /\ me \in Ids
      BY <1>4, IdFacts DEF setup_cpu_id, IInv, BspAt, me, Id
    <2>2. TypeOK' /\ BspAt'
      BY <1>4, <2>1 DEF setup_cpu_id, IInv, TypeOK, BspAt, Index, me
    <2> QED BY <1>4, <2>2, BspQuiet DEF setup_cpu_id, Waits
  <1>5. CASE setup_stack
    <2>1. k \in Index /\ me \in Ids
      BY <1>5, IdFacts DEF setup_stack, IInv, BspAt, me, Id
    <2>2. TypeOK' /\ BspAt'
      BY <1>5, <2>1 DEF setup_stack, IInv, TypeOK, BspAt, Index, me
    <2> QED BY <1>5, <2>2, BspQuiet DEF setup_stack, Waits
  <1>6. CASE send_ipis
    <2>1. k \in Index /\ me \in Ids /\ me = Id(k) /\ Untouched(me) /\ ~ Waits
      BY <1>6, IdFacts DEF send_ipis, IInv, BspAt, ProcessorsAt, Waits, me, Id
    <2>2. /\ ipis'[me] = <<"INIT", "START">>
          /\ \A i \in Ids \ {me} : ipis'[i] = ipis[i]
          /\ ipis' \in [Ids -> Seq({"INIT", "START"})]
      <3>1. ipis[me] \o wake_up = <<"INIT", "START">>
        BY <2>1 DEF Untouched, wake_up
      <3>2. <<"INIT", "START">> \in Seq({"INIT", "START"})
        OBVIOUS
      <3> QED BY <1>6, <2>1, <3>1, <3>2 DEF send_ipis, IInv, TypeOK
    <2>3. TypeOK'
      BY <1>6, <2>2 DEF send_ipis, IInv, TypeOK, ready_before_ipi
    <2>4. BspAt'
      BY <1>6, <2>1 DEF send_ipis, IInv, BspAt
    <2>5. UnderWay(me)'
      BY <1>6, <2>1, <2>2 DEF send_ipis, IInv, BspAt, UnderWay, Untouched, me, ready_before_ipi
    <2>6. \A j \in Index : j # k => Id(j) \in Ids \ {me}
      BY <2>1, IdFacts
    <2>7. \A j \in Index : (j < k => Finished(j)') /\ (j > k => Untouched(Id(j))')
      <3>1. \A j \in Index : (j < k => Finished(j)) /\ (j > k => Untouched(Id(j)))
        BY DEF IInv, ProcessorsAt
      <3>2. \A j \in Index : j < k \/ j > k => j # k
        BY IdFacts DEF IInv, TypeOK, Index
      <3> QED BY <1>6, <2>2, <2>6, <3>1, <3>2 DEF send_ipis, Finished, Untouched
    <2>8. ProcessorsAt'
      BY <1>6, <2>5, <2>7 DEF send_ipis, ProcessorsAt, Waits, Index
    <2>9. LockAt'
      BY <1>6, <2>1 DEF send_ipis, IInv, LockAt, Untouched, me
    <2> QED BY <1>6, <2>3, <2>4, <2>8, <2>9 DEF send_ipis, IInv
  <1>7. CASE wait_trampoline
    <2>1. TypeOK' /\ BspAt'
      BY <1>7 DEF wait_trampoline, IInv, TypeOK, BspAt, Index
    <2> QED BY <1>7, <2>1, BspQuiet DEF wait_trampoline, Waits
  <1>8. CASE wait_ap
    <2>1. k \in Index /\ ~ Processors[k].disabled /\ Waits /\ UnderWay(me)
      BY <1>8 DEF wait_ap, IInv, BspAt, ProcessorsAt, Waits
    <2>2. ap[me] = "parked" /\ frames = Nobody
      BY <1>8, <2>1 DEF wait_ap, ap_is_ready, UnderWay, IInv, LockAt
    <2>3. Finished(k)
      BY <2>1, <2>2 DEF UnderWay, Finished, me, Id
    <2>4. k + 1 \in 1 .. Len(Processors) + 1
      BY <2>1, IdFacts DEF Index
    <2>5. TypeOK'
      BY <1>8, <2>4 DEF wait_ap, advance, IInv, TypeOK
    <2>6. BspAt'
      BY <1>8, <2>1 DEF wait_ap, advance, IInv, BspAt
    <2> QED BY <1>8, <2>1, <2>2, <2>3, <2>5, <2>6, BspAdvance DEF wait_ap, advance, Waits
  <1>9. CASE trampoline_unwrite
    <2>1. TypeOK' /\ BspAt'
      BY <1>9 DEF trampoline_unwrite, IInv, TypeOK, BspAt
    <2> QED BY <1>9, <2>1, BspQuiet DEF trampoline_unwrite, Waits
  <1> QED BY <1>1, <1>2, <1>3, <1>4, <1>5, <1>6, <1>7, <1>8, <1>9 DEF BspStep

\* What the steps of the application processor under way have in common.
LEMMA ApQuiet ==
  ASSUME IInv, k \in Index, Waits, NEW i, i = me, UNCHANGED <<bsp, k, mapped>>,
         TypeOK', UnderWay(i)', tramp'.cpu_id = i, tramp'.stack = i,
         frames' = (IF ap'[i] \in {"thread", "exhausted"} THEN i ELSE Nobody),
         \A x \in Ids \ {i} : /\ ap'[x] = ap[x] /\ ipis'[x] = ipis[x]
                               /\ slots'[x] = slots[x] /\ stack'[x] = stack[x],
         slots'[Bsp] = slots[Bsp]
  PROVE  IInv'
  <1>1. BspAt'
    BY DEF IInv, BspAt, me, Waits
  <1>2. LockAt'
    BY DEF LockAt, Waits, me
  <1>3. ProcessorsAt'
    <2>1. \A j \in Index : j < k \/ j > k => Id(j) \in Ids \ {i}
      BY IdFacts DEF me, Id, Index
    <2>2. \A j \in Index : (j < k => Finished(j)') /\ (j > k => Untouched(Id(j))')
      BY <2>1 DEF IInv, ProcessorsAt, Finished, Untouched
    <2>3. UnderWay(me)' /\ Waits'
      BY DEF UnderWay, me, Waits
    <2> QED BY <2>2, <2>3 DEF ProcessorsAt, Index
  <1> QED BY <1>1, <1>2, <1>3 DEF IInv

\* The steps of an application processor.
LEMMA ApInv == ASSUME IInv, NEW i \in Ids, ApStep(i) PROVE IInv'
  <1>0. ipis[i] # <<>> \/ ap[i] \notin {"off", "parked"}
    BY DEF ApStep, receive, startup_ap, long_mode_ap, kstart_lock, setup_thread_data, kstart_ready
  <1>1. k \in Index /\ Waits /\ i = me /\ i = Id(k) /\ UnderWay(i) /\ TypeOK /\ LockAt
    BY <1>0, OnlyOneUnderWay DEF IInv
  <1>2. i # Bsp /\ i \in Cpus
    BY IdFacts DEF Cpus
  <1>3. CASE receive(i)
    <2>1. CASE ap[i] = "off"
      <3>1. Head(ipis[i]) = "INIT" /\ Tail(ipis[i]) = <<"START">>
        BY <1>1, <2>1 DEF UnderWay
      <3>2. /\ ap' = [ap EXCEPT ![i] = "init"]
            /\ ipis' = [ipis EXCEPT ![i] = <<"START">>]
        BY <1>3, <3>1 DEF receive
      <3>3. <<"START">> \in Seq({"INIT", "START"})
        OBVIOUS
      <3>4. TypeOK'
        BY <1>1, <1>3, <3>2, <3>3 DEF receive, TypeOK
      <3>5. UnderWay(i)'
        BY <1>1, <1>3, <2>1, <3>2 DEF receive, UnderWay, TypeOK
      <3>6. frames = Nobody
        BY <1>1, <2>1 DEF LockAt
      <3> QED BY <1>1, <1>3, <3>2, <3>4, <3>5, <3>6, ApQuiet DEF receive, UnderWay, TypeOK
    <2>2. CASE ap[i] = "init"
      <3>1. Head(ipis[i]) = "START" /\ Tail(ipis[i]) = <<>>
        BY <1>1, <2>2 DEF UnderWay
      <3>2. /\ ap' = [ap EXCEPT ![i] = "startup"]
            /\ ipis' = [ipis EXCEPT ![i] = <<>>]
        BY <1>1, <1>3, <2>2, <3>1 DEF receive, TypeOK
      <3>4. TypeOK'
        BY <1>1, <1>3, <3>2 DEF receive, TypeOK, InTrampoline
      <3>5. UnderWay(i)'
        BY <1>1, <1>3, <2>2, <3>2 DEF receive, UnderWay, TypeOK, InTrampoline
      <3>6. frames = Nobody
        BY <1>1, <2>2 DEF LockAt
      <3> QED BY <1>1, <1>3, <3>2, <3>4, <3>5, <3>6, ApQuiet DEF receive, UnderWay, TypeOK
    <2> QED BY <1>1, <1>3, <2>1, <2>2 DEF UnderWay, receive
  <1>4. CASE startup_ap(i)
    <2>1. TypeOK'
      BY <1>1, <1>4 DEF startup_ap, TypeOK, InTrampoline
    <2>2. UnderWay(i)'
      BY <1>1, <1>4 DEF startup_ap, UnderWay, TypeOK, InTrampoline
    <2>3. frames = Nobody
      BY <1>1, <1>4 DEF LockAt, startup_ap
    <2> QED BY <1>1, <1>4, <2>1, <2>2, <2>3, ApQuiet DEF startup_ap, UnderWay, TypeOK
  <1>5. CASE long_mode_ap(i)
    <2>1. TypeOK'
      BY <1>1, <1>5 DEF long_mode_ap, TypeOK, InTrampoline
    <2>2. tramp'.cpu_id = i /\ tramp'.stack = i
      BY <1>1, <1>5 DEF long_mode_ap, UnderWay, TypeOK
    <2>3. UnderWay(i)'
      BY <1>1, <1>5, <2>2 DEF long_mode_ap, UnderWay, TypeOK, InTrampoline
    <2>4. frames = Nobody
      BY <1>1, <1>5 DEF LockAt, long_mode_ap
    <2> QED BY <1>1, <1>5, <2>1, <2>2, <2>3, <2>4, ApQuiet DEF long_mode_ap, TypeOK
  <1>6. CASE kstart_lock(i)
    <2>1. TypeOK'
      BY <1>1, <1>6 DEF kstart_lock, TypeOK, InTrampoline
    <2>2. UnderWay(i)'
      BY <1>1, <1>6 DEF kstart_lock, UnderWay, TypeOK, InTrampoline
    <2>3. frames' = i /\ ap'[i] = "thread"
      BY <1>1, <1>6 DEF kstart_lock, TypeOK
    <2> QED BY <1>1, <1>6, <2>1, <2>2, <2>3, ApQuiet DEF kstart_lock, UnderWay, TypeOK
  <1>7. CASE setup_thread_data(i)
    <2>1. tramp.cpu_id = i /\ slots[i] = {} /\ i \in Cpus
      BY <1>1, <1>2, <1>7 DEF setup_thread_data, UnderWay
    <2>2. PICK part \in {{}, {i}} :
          /\ slots' = [slots EXCEPT ![i] = part]
          /\ \/ part = {i} /\ frames' = Nobody /\ ap' = [ap EXCEPT ![i] = "report"]
             \/ frames' = frames /\ ap' = [ap EXCEPT ![i] = "exhausted"]
          /\ UNCHANGED <<bsp, k, ipis, mapped, tramp, AP_READY, stack>>
      BY <1>1, <1>7, <2>1 DEF setup_thread_data, TypeOK
    <2>8. frames = i
      BY <1>1, <1>7 DEF LockAt, setup_thread_data
    <2>3. TypeOK'
      BY <1>1, <2>1, <2>2 DEF TypeOK, InTrampoline
    <2>4. UnderWay(i)'
      BY <1>1, <1>7, <2>1, <2>2 DEF setup_thread_data, UnderWay, TypeOK, InTrampoline
    <2>5. slots'[Bsp] = slots[Bsp] /\ \A x \in Ids \ {i} : slots'[x] = slots[x]
      BY <1>1, <1>2, <2>2 DEF TypeOK, Cpus
    <2>6. /\ frames' = (IF ap'[i] \in {"thread", "exhausted"} THEN i ELSE Nobody)
          /\ \A x \in Ids \ {i} : ap'[x] = ap[x]
      BY <1>1, <2>2, <2>8 DEF TypeOK
    <2>7. tramp'.cpu_id = i /\ tramp'.stack = i
      BY <1>1, <2>2 DEF UnderWay
    <2> QED BY <1>1, <2>2, <2>3, <2>4, <2>5, <2>6, <2>7, ApQuiet
  <1>8. CASE kstart_ready(i)
    <2>1. TypeOK'
      BY <1>1, <1>8 DEF kstart_ready, TypeOK
    <2>2. UnderWay(i)'
      BY <1>1, <1>8 DEF kstart_ready, UnderWay, TypeOK
    <2>3. frames = Nobody
      BY <1>1, <1>8 DEF LockAt, kstart_ready
    <2> QED BY <1>1, <1>8, <2>1, <2>2, <2>3, ApQuiet DEF kstart_ready, UnderWay, TypeOK
  <1> QED BY <1>3, <1>4, <1>5, <1>6, <1>7, <1>8 DEF ApStep

\* Every step preserves the invariant.
LEMMA NextInv == IInv /\ [Next]_vars => IInv'
  <1> SUFFICES ASSUME IInv, [Next]_vars PROVE IInv'
    OBVIOUS
  <1>1. CASE UNCHANGED vars
    <2>1. TypeOK' /\ BspAt'
      BY <1>1 DEF vars, IInv, TypeOK, BspAt, me
    <2> QED BY <1>1, <2>1, BspQuiet DEF vars, Waits
  <1>2. CASE BspStep
    BY <1>2, BspInv
  <1>3. CASE \E i \in Ids : ApStep(i)
    BY <1>3, ApInv
  <1> QED BY <1>1, <1>2, <1>3 DEF Next, Terminated

\* The invariant holds in every reachable state, for every machine.
LEMMA Invariance == Spec => []IInv
  BY InitInv, NextInv, PTL DEF Spec

-------------------------------------------------------------------------------
(* The results.                                                            *)

\* The state of the bring-up stays in its domain.
THEOREM TypeCorrect == Spec => []TypeOK
  <1>1. IInv => TypeOK
    BY DEF IInv
  <1> QED BY <1>1, Invariance, PTL

\* However slowly a processor reads the page, it reads what Trampoline::setup wrote
\* for it, and takes its own stack.
THEOREM ArgumentsOwn == Spec => []OwnArguments
  BY InvImplies, Invariance, PTL

\* Trampoline::unwrite comes after the last use of the page.
THEOREM PageOutlives == Spec => []PageOutlivesUse
  BY InvImplies, Invariance, PTL

\* No processor maps another's thread data, and none panics over a mapped slot.
THEOREM ThreadDataOwn == Spec => []OwnThreadData
  BY InvImplies, Invariance, PTL

\* The changes of the page tables by different processors exclude each other.
THEOREM PageTablesExclusive == Spec => []PageTableExclusive
  BY InvImplies, Invariance, PTL

\* When init is done every enabled processor is parked in the kernel with its own
\* thread data, every disabled one was left alone, no IPI is on its way and the
\* lock of the frame allocator is free.
Booted ==
  bsp = "done" =>
    /\ \A j \in 1 .. Len(Processors) :
         LET i == Processors[j].apic_id
         IN  /\ ap[i] = IF Processors[j].disabled THEN "off" ELSE "parked"
             /\ slots[i] = IF Processors[j].disabled THEN {} ELSE {i}
             /\ ipis[i] = <<>>
    /\ frames = Nobody

\* init_ap_processors returns only when that is so.
THEOREM BootedWhenDone == Spec => []Booted
  <1>1. IInv => Booted
    <2> SUFFICES ASSUME IInv, bsp = "done" PROVE Booted
      BY DEF Booted
    <2>1. k = Len(Processors) + 1 /\ ~ Waits
      BY DEF IInv, BspAt, Waits
    <2>2. \A j \in Index : j < k
      BY <2>1, IdFacts DEF Index
    <2>3. \A j \in Index : Finished(j)
      BY <2>2 DEF IInv, ProcessorsAt
    <2> QED BY <2>1, <2>3 DEF Booted, Finished, Id, Index, IInv, LockAt
  <1> QED BY <1>1, Invariance, PTL

===============================================================================
