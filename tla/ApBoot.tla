-------------------------------- MODULE ApBoot --------------------------------
(***************************************************************************)
(* Bring-up of the application processors: multi_core.rs, the trampoline   *)
(* in asm/x86_64/trampoline.asm, the thread data of paging/thread.rs.      *)
(*                                                                         *)
(* The boot processor starts the others one after the other through one    *)
(* page of memory they all share, at TRAMPOLINE_ADDR.  Each started        *)
(* processor reads its arguments out of that page long after it has begun  *)
(* to run, so the boot processor must not touch the page too early.        *)
(* IPIs are delivered asynchronously (x2APIC) but neither lost nor         *)
(* reordered; consoles are left out.                                       *)
(***************************************************************************)
EXTENDS Integers, Sequences, FiniteSets

CONSTANTS
  Processors   \* application_processors of the ACPI tables: [apic_id, disabled]

ASSUME ProcessorsAssumption ==
  /\ Processors \in Seq([apic_id : Nat, disabled : BOOLEAN])
  \* APIC ids are unique, and 0 is the boot processor's: setup_thread_data(0).
  /\ \A i, j \in 1..Len(Processors) : Processors[i].apic_id = Processors[j].apic_id => i = j
  /\ \A i \in 1..Len(Processors) : Processors[i].apic_id # 0

Bsp    == 0
Ids    == {Processors[i].apic_id : i \in 1..Len(Processors)}
Cpus   == Ids \cup {Bsp}
Nobody == -1

VARIABLES
  bsp,       \* where the boot processor is
  k,         \* the processor init is at
  ap,        \* where each application processor is
  ipis,      \* the IPIs on their way to each
  mapped,    \* the trampoline page is identity mapped
  tramp,     \* the trampoline's ready, cpu_id and stack_end (named by its owner)
  AP_READY,
  frames,    \* who has the lock of the frame allocator, or Nobody
  stack,     \* the stack each application processor took
  slots      \* the thread data slots mapped, and who uses each

vars == <<bsp, k, ap, ipis, mapped, tramp, AP_READY, frames, stack, slots>>

Init ==
  /\ bsp = "write"
  /\ k = 1
  /\ ap = [i \in Ids |-> "off"]
  /\ ipis = [i \in Ids |-> <<>>]
  /\ mapped = FALSE
  /\ tramp = [ready |-> FALSE, cpu_id |-> Nobody, stack |-> Nobody]
  /\ AP_READY = FALSE
  /\ frames = Nobody
  /\ stack = [i \in Ids |-> Nobody]
  /\ slots = [s \in Cpus |-> IF s = Bsp THEN {Bsp} ELSE {}]

-------------------------------------------------------------------------------
(* The boot processor.  A "..._fault" is a broken form of the definition   *)
(* after it, used only to show that a property notices.                    *)

me == Processors[k].apic_id

\* AP_READY as init_ap_processor leaves it before it sends the IPIs.
ready_before_ipi_fault == AP_READY                         \* not reset
ready_before_ipi == FALSE

\* What the boot processor waits for last.
ap_is_ready_fault == TRUE                                  \* trampoline only
ap_is_ready == AP_READY

\* The IPIs that start a processor.
wake_up_fault == <<"INIT">>                                \* no START
wake_up == <<"INIT", "START">>

\* The processor after the current one.
advance == k + 1

\* Trampoline::write under the frame allocator's lock, which nobody else wants yet.
trampoline_write ==
  /\ bsp = "write"
  /\ frames = Nobody
  /\ mapped' = TRUE
  /\ bsp' = "next"
  /\ UNCHANGED <<k, ap, ipis, tramp, AP_READY, frames, stack, slots>>

\* The loop over application_processors, without the disabled ones.
for_each ==
  /\ bsp = "next"
  /\ IF k > Len(Processors) THEN bsp' = "unwrite" /\ k' = k
     ELSE IF Processors[k].disabled THEN bsp' = bsp /\ k' = advance
     ELSE bsp' = "clear" /\ k' = k
  /\ UNCHANGED <<ap, ipis, mapped, tramp, AP_READY, frames, stack, slots>>

\* Trampoline::setup, one store after the other.
setup_ready ==
  /\ bsp = "clear"
  /\ tramp' = [tramp EXCEPT !.ready = FALSE]
  /\ bsp' = "cpu_id"
  /\ UNCHANGED <<k, ap, ipis, mapped, AP_READY, frames, stack, slots>>

setup_cpu_id ==
  /\ bsp = "cpu_id"
  /\ tramp' = [tramp EXCEPT !.cpu_id = me]
  /\ bsp' = "stack"
  /\ UNCHANGED <<k, ap, ipis, mapped, AP_READY, frames, stack, slots>>

setup_stack ==
  /\ bsp = "stack"
  /\ tramp' = [tramp EXCEPT !.stack = me]
  /\ bsp' = "ipis"
  /\ UNCHANGED <<k, ap, ipis, mapped, AP_READY, frames, stack, slots>>

send_ipis ==
  /\ bsp = "ipis"
  /\ AP_READY' = ready_before_ipi
  /\ ipis' = [ipis EXCEPT ![me] = @ \o wake_up]
  /\ bsp' = "trampoline"
  /\ UNCHANGED <<k, ap, mapped, tramp, frames, stack, slots>>

\* The page unmapped as soon as the processor reports from it.
wait_trampoline_fault ==
  /\ bsp = "trampoline"
  /\ tramp.ready
  /\ mapped' = FALSE
  /\ bsp' = "ap"
  /\ UNCHANGED <<k, ap, ipis, tramp, AP_READY, frames, stack, slots>>

wait_trampoline ==
  /\ bsp = "trampoline"
  /\ tramp.ready
  /\ bsp' = "ap"
  /\ UNCHANGED <<k, ap, ipis, mapped, tramp, AP_READY, frames, stack, slots>>

wait_ap ==
  /\ bsp = "ap"
  /\ ap_is_ready
  /\ bsp' = "next"
  /\ k' = advance
  /\ UNCHANGED <<ap, ipis, mapped, tramp, AP_READY, frames, stack, slots>>

\* Unmaps the page; takes no lock.
trampoline_unwrite ==
  /\ bsp = "unwrite"
  /\ mapped' = FALSE
  /\ bsp' = "done"
  /\ UNCHANGED <<k, ap, ipis, tramp, AP_READY, frames, stack, slots>>

-------------------------------------------------------------------------------
(* Application processor i.                                                *)

\* INIT leaves the processor waiting for START; a START it did not wait for is ignored.
receive(i) ==
  /\ ipis[i] # <<>>
  /\ ipis' = [ipis EXCEPT ![i] = Tail(@)]
  /\ ap' = [ap EXCEPT ![i] = IF Head(ipis[i]) = "INIT" THEN "init"
                             ELSE IF @ = "init" THEN "startup" ELSE @]
  /\ UNCHANGED <<bsp, k, mapped, tramp, AP_READY, frames, stack, slots>>

\* long_mode_ap takes the stack ...
startup_ap(i) ==
  /\ ap[i] = "startup"
  /\ stack' = [stack EXCEPT ![i] = tramp.stack]
  /\ ap' = [ap EXCEPT ![i] = "long"]
  /\ UNCHANGED <<bsp, k, ipis, mapped, tramp, AP_READY, frames, slots>>

\* ... and reports that it runs, before it jumps into the kernel.
long_mode_ap(i) ==
  /\ ap[i] = "long"
  /\ tramp' = [tramp EXCEPT !.ready = TRUE]
  /\ ap' = [ap EXCEPT ![i] = "kstart"]
  /\ UNCHANGED <<bsp, k, ipis, mapped, AP_READY, frames, stack, slots>>

\* kstart_ap: lock the frame allocator ...
kstart_lock(i) ==
  /\ ap[i] = "kstart"
  /\ frames = Nobody
  /\ frames' = i
  /\ ap' = [ap EXCEPT ![i] = "thread"]
  /\ UNCHANGED <<bsp, k, ipis, mapped, tramp, AP_READY, stack, slots>>

\* ... map the thread data of the processor the arguments name, page by page ...
\* A panic, with the lock held for ever, if a page is mapped already, and if memory
\* runs out, before the first page or after some.  (That tdata and tbss fit is known:
\* the boot processor has been through the same check.)
setup_thread_data(i) ==
  /\ ap[i] = "thread"
  /\ LET s == tramp.cpu_id
     IN  IF s \notin Cpus \/ slots[s] # {}
         THEN ap' = [ap EXCEPT ![i] = "panic"] /\ UNCHANGED <<frames, slots>>
         ELSE \/ /\ slots' = [slots EXCEPT ![s] = @ \cup {i}]
                 /\ frames' = Nobody
                 /\ ap' = [ap EXCEPT ![i] = "report"]
              \/ /\ \E part \in {{}, {i}} : slots' = [slots EXCEPT ![s] = @ \cup part]
                 /\ ap' = [ap EXCEPT ![i] = "exhausted"]
                 /\ UNCHANGED frames
  /\ UNCHANGED <<bsp, k, ipis, mapped, tramp, AP_READY, stack>>

\* ... and, after a last look at the arguments, AP_READY.  It then waits for
\* BSP_READY, which nothing in the kernel ever sets.
kstart_ready(i) ==
  /\ ap[i] = "report"
  /\ AP_READY' = TRUE
  /\ ap' = [ap EXCEPT ![i] = "parked"]
  /\ UNCHANGED <<bsp, k, ipis, mapped, tramp, frames, stack, slots>>

OutOfMemory == \E i \in Ids : ap[i] = "exhausted"

\* The machine is up, or one processor has halted and the boot processor spins on it.
Terminated == (bsp = "done" \/ OutOfMemory) /\ UNCHANGED vars

-------------------------------------------------------------------------------
BspStep ==
  \/ trampoline_write
  \/ for_each
  \/ setup_ready
  \/ setup_cpu_id
  \/ setup_stack
  \/ send_ipis
  \/ wait_trampoline
  \/ wait_ap
  \/ trampoline_unwrite

ApStep(i) ==
  \/ receive(i)
  \/ startup_ap(i)
  \/ long_mode_ap(i)
  \/ kstart_lock(i)
  \/ setup_thread_data(i)
  \/ kstart_ready(i)

Next == BspStep \/ (\E i \in Ids : ApStep(i)) \/ Terminated

\* Every processor keeps executing, and IPIs arrive.
Spec == Init /\ [][Next]_vars /\ WF_vars(BspStep) /\ \A i \in Ids : WF_vars(ApStep(i))

-------------------------------------------------------------------------------
(* Properties.                                                             *)

\* The places where a processor still runs on, or reads from, the trampoline page.
InTrampoline == {"startup", "long", "kstart", "thread", "report"}

TypeOK ==
  /\ bsp \in {"write", "next", "clear", "cpu_id", "stack", "ipis", "trampoline", "ap",
              "unwrite", "done"}
  /\ k \in 1 .. Len(Processors) + 1
  /\ ap \in [Ids -> {"off", "init", "parked", "panic", "exhausted"} \cup InTrampoline]
  /\ ipis \in [Ids -> Seq({"INIT", "START"})]
  /\ mapped \in BOOLEAN
  /\ tramp \in [ready : BOOLEAN, cpu_id : Ids \cup {Nobody}, stack : Ids \cup {Nobody}]
  /\ AP_READY \in BOOLEAN
  /\ frames \in Ids \cup {Nobody}
  /\ stack \in [Ids -> Ids \cup {Nobody}]
  /\ slots \in [Cpus -> SUBSET Cpus]

\* Every application processor takes the stack and reads the arguments that were
\* set up for it, however slow it is: nothing in the page changes under it.
OwnArguments ==
  \A i \in Ids :
    /\ ap[i] \in InTrampoline => tramp.cpu_id = i /\ tramp.stack = i
    /\ stack[i] \in {Nobody, i}

\* The page stays mapped while a processor depends on it.
PageOutlivesUse == \A i \in Ids : ap[i] \in InTrampoline => mapped

\* No two processors share thread data, a processor that reports has its own, and none
\* panics over pages that are mapped already.
OwnThreadData ==
  /\ \A s \in Cpus : slots[s] \subseteq {s}
  /\ \A i \in Ids : ap[i] \in {"report", "parked"} => slots[i] = {i}
  /\ \A i \in Ids : ap[i] # "panic"

\* The page tables have no lock of their own: what changes them (under the frame
\* allocator's lock in setup_thread_data, without it in unwrite) never overlaps.
PageTableExclusive ==
  /\ bsp \in {"write", "unwrite"} => frames = Nobody /\ \A i \in Ids : ap[i] \notin InTrampoline
  /\ Cardinality({i \in Ids : ap[i] = "thread"}) <= 1

\* Unless memory runs out, the boot processor gets through the handshakes, and leaves
\* every enabled processor parked.
BootCompletes ==
  []~ OutOfMemory =>
  <>[](/\ bsp = "done"
       /\ \A j \in 1..Len(Processors) :
            ap[Processors[j].apic_id] = IF Processors[j].disabled THEN "off" ELSE "parked")

===============================================================================
