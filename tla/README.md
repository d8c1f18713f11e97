# A TLA+ development of idkernel

idkernel is a small x86-64 kernel in Rust (`src/idker`), with capabilities and
tasks. This directory holds TLA+ modules translated from its source, TLC
configurations that check them on small instances, and TLAPS proofs for every
value of the constants. `PROJECT.json` maps each definition to its lines.

## Inventory

Paths are relative to `src/idker/src`.

| Part | State | Operations | What makes it correct |
|---|---|---|---|
| Tasks: `context/{mod,registry,task,switch}.rs`, `main.rs` | registry, run queue, `TASK_ID`, one lock per task, `TASK_SWITCH_LOCKS`, saved registers | create, add, remove, `switch_to_next_task`, `switch_task`, `after_task_switch`; calls Yield, Exit, ProcessSpawn, ProcessExec | locks paired across the switch, no task lost or doubled, a context resumed once, fair queue, child lists agree with parents |
| Capabilities: `capability/` | a table (handle, capability) and a handle counter per task | clone, inspect, restrict, drop, share, transfer | authority only flows from parent to child and never grows, a handle never changes its meaning, failures lose nothing |
| Processor bring-up: `arch/x86_64/multi_core.rs`, `asm/x86_64/trampoline.asm`, `paging/thread.rs` | trampoline page, `AP_READY`, thread data slots | write, setup, IPIs, two handshakes, `kstart_ap`, unwrite | every processor reads its own arguments, the page outlives its use, boot completes |
| Frames: `paging/frame_allocator.rs`, `allocator/mod.rs` | frame iterator, heap pages, virtual base per region | `init_heap`, `allocate_frame`, `deallocate_frame` | a frame or page is in one hand at a time, nothing is lost |
| Heap: `allocator/{fixed_size_block,linked_list}.rs` | free lists, `block_free` | alloc, dealloc, `used`, `free` | memory handed out is aligned, large enough and nobody else's; the figures are right; lists are kept in free memory only |
| User address spaces: `context/{page_table,elf}.rs`, `syscalls/memory.rs` | page tables, frames | map_virt, map_phys, load ELF, drop | user mappings stay in user space, partial failure is clean, a program finds its image in memory |
| System call entry: `syscalls/{mod,asm,userspace}.rs` | `TCD`: two stack pointers per CPU | entry, exit, enter user mode | each task returns on its own stack |
| Files: `file/` | descriptor table, mounts, read positions | open, seek, read, close, mount, `read_file_to_memory` | path resolution, reads return the file |
| Devices: APIC, ACPI, GDT, IDT, consoles | registers | interrupt handlers, output | outside the models, except the timer and the IPIs |
| `task/` (async executor, keyboard); not compiled: `task/mod.rs` is one comment | tasks, ready queue, spawner, scan codes, waker | spawn, `run_ready_tasks`, `sleep_if_idle`, `add_scancode`, `poll_next` | no wake-up is lost, the CPU sleeps only when idle, scan codes are handled in order |
| `syscall`, `include_dir*`, `initproc` | none in the kernel | stubs, compile-time data | the comments of `syscall/src/common.rs` are the contract |

Interaction: system calls run on the kernel stack that `TCD` names and lock first
the registry and then tasks; a switch passes two locked tasks from one task's
context to another's; `TaskContext` owns the capability table, the files and the
page table; page tables, ELF loading and bring-up share the frame allocator, which
takes its frames from the kernel heap.

The hard parts are not parallel tasks (one CPU runs tasks, see below) but locks
that a CPU takes while it holds them, locks taken in one context and released in
another, state used long after it was stored, the asynchronous processors of the
bring-up, the interrupts between any two steps of the executor, operations that fail half way, and arithmetic on addresses. Each is
listed in `PROJECT.json` under `hazards`, at its line.

## Modules

| Module | Models | Checked by | Proved in |
|---|---|---|---|
| `Scheduler` | tasks, run queue, context switch | `MCScheduler*.cfg` | `SchedulerProofs` |
| `RoundRobin` | what the scheduler promises, without locks or registers | refinement from `Scheduler` | `SchedulerProofs` |
| `Capability` | capability tables and calls | `MCCapability*.cfg` | `CapabilityProofs` |
| `ApBoot` | bring-up of the other processors | `MCApBoot.cfg` | `ApBootProofs` |
| `FrameHeap` | boot frames, heap pages, frame allocator | `MCFrameHeap*.cfg` | `FrameHeapProofs` |
| `Elf` | what the loader accepts and copies, as functions of the file | extended by `AddressSpace` | `AddressSpaceProofs` |
| `AddressSpace` | user page tables, memory calls, program load | `MCAddressSpace*.cfg` | `AddressSpaceProofs` |
| `Files` | descriptors, mounts, paths, file handles | `MCFiles*.cfg` | `FilesProofs` |
| `Allocator` | what a `GlobalAlloc` promises | refinement from the two below | `AllocatorProofs` |
| `BlockHeap` | fixed-size block allocator | `MCAllocators.cfg` | `AllocatorProofs` |
| `ListHeap` | linked-list allocator | `MCAllocators.cfg` | `AllocatorProofs` |
| `Executor` | asynchronous executor, keyboard task, its interrupt | `MCExecutor.cfg` | `ExecutorProofs` |

Definitions named `..._fault...` stand next to the definition they break. No
specification uses them; exchanged for the original they show that a property
notices the bug.

### Scheduler

One CPU runs tasks, because an application processor never leaves `kstart_ap`
(`BSP_READY` is never set), and the timer handler calls nothing. So kernel code
is not interleaved with itself, and an action is the code between two points
where it may spin. The locks are explicit: `held` is the set of locks held for
writing, leaked guards included, and taking a held lock sets `waiting`, after
which the CPU only spins. `saved` abstracts the registers of a task to what its
stack would return into: the entry function, the inside of `switch_task`, or
nothing valid. `cont` is what the last switch loaded; `after_task_switch` runs on
that stack and its return goes there.

The committed kernel creates one task and gives it no capability (`NInit = 1`,
`Spawners = {}`). The module is the contract of the component for any number of
boot tasks, made by the same code (`boot_task`), of which any may hold a
ProcessSpawn capability. `exec` needs a child and making one hangs; the load it does
is in `AddressSpace`.

The entry of a system call (`on_syscall_raw`) puts the caller's stack pointer into
`TCD`, takes the kernel stack pointer out of it and pushes the caller's registers
there; `enter_userspace` sets that pointer when a task starts, and no switch changes
it. So `ksp` names the last task that started, whose kernel stack serves all later
calls, `frame` whose registers lie at the top of each kernel stack, `base` the stack a
saved context lies on, and `usp` whose stack pointer a call will return with. With two
programs a call of the one overwrites the frame of the other (`ResumesOwnFrame`) and
returns with its stack pointer (`ReturnsOnOwnStack`): neither holds of two programs, and
both hold for the one task the kernel boots (theorem `OneTaskKeepsItsFrame`). `ContextsValid`
says what is left with several: a context is resumed once, and only the frames on the
one stack that `TCD` names are overwritten. Yield and Exit call the switch at one
depth of the stack, so the overwritten frame is a whole one and execution goes on with
the other task's registers; the model follows it.

Two defects appear as hanging states. They are part of the model and not
excluded from any property: `HangsOnlyOnOwnLock` says these two are the only
places where the CPU can hang.

### Capability

A call runs to completion on one CPU, so a call is an action. `ret` records the
call and its result, so that properties can speak of failures. The memory failure
of `try_reserve` is a nondeterministic outcome of `insert`, after the handle was
used up, as in the code. The kernel hands out no capability at boot; `BootCaps`,
`Parent` and `Empty` make the module the contract for any family and grant.
`MaxHandle` bounds the handles a task issues (the code's counter is 64 bits wide).
`inspect` changes nothing and is left out.

### ApBoot

Each store of `Trampoline::setup` is a step, each read of the page by the started
processor is a step, and the two handshakes are separate waits. The identity of
a stack is the processor it was allocated for. IPIs arrive asynchronously, in
order, and are not lost. `slots` says who uses which thread data; mapping a slot
that is mapped already is the panic of `map_to(...).expect`, with the frame
allocator's lock held. Memory may run out at any page of a slot: the processor panics
with the lock held, and the boot processor waits for it for ever, so `BootCompletes`
is about boots in which that does not happen. (`tdata` and `tbss` too large for a slot
would have stopped the boot processor in its own `setup_thread_data`.) APIC id 0 is the boot processor's (an assumption: the code
hard-wires `setup_thread_data(0)`).

### FrameHeap

Addresses are counted in pages. `init_heap` takes a frame for the next heap page
and then the frames of the page tables that `map_to` has to make for it, out of
the same iterator: this leaves gaps in the sequence of frames behind the heap.
`HeapFrameAllocator` takes pages out of the heap and remembers one virtual base
per region. The first-fit heap (external) hands out the lowest free page; small
blocks keep a page for ever, since `dealloc` puts them on a list that never
returns them. `deallocate_frame` computes the page of a frame from the base of its
region; `astray` collects the frames for which that is another page than their own.
`OneOwner` holds for every memory map: a release goes astray only across the frame of
a page table (`origin` is the first frame taken from a region, which fixed the base),
and until one does every page is in exactly one hand. A machine with more than 2 MiB of
heap has such frames, and `AllocatesUnusedFrame` is violated there. Regions under 4096
bytes, which `new` filters out, are assumed not to occur, as the boot loader's map is in
frames. In the committed kernel `deallocate_frame` is reached only by
dropping a task's page table, hence only behind the hanging Exit.

### AddressSpace

An address space is a set of page tables (`tables`, by level and index), the
frames they lie in, and the frame behind each mapped page. A call that maps a
range starts a `job`, and `map_page` maps one page of it: take a frame (unless the
frame is given by address), make the missing tables from the top down, then the
entry. It may fail at each of these, and what it took before stays taken. The same
loop maps a program (`load_elf`), where a failure is a panic; `image` is what the
loaded pages hold, `entry` the program they came from. Arithmetic that
overflows gives both outcomes, the panic of a build with overflow checks and the
wrapped value of one without. `drop` returns the tables and the stack and not the
frames behind the pages; in the committed kernel it is reached only behind the
hanging Exit.

The user stack is a box of 64 KiB without alignment, and every page it reaches is
mapped for the user. `Places` are the runs of heap frames it can reach, one more than
16 if it starts inside a page, and `Ends` the two it then fills in part. Such frames,
and those of other kernel objects (`kernel_alloc`, `kernel_free`), are `mixed`: what
else lies in them comes and goes independently of the task, and a dropped stack gives
them back only if nothing else does. `FramesExclusive` says that a mixed frame is
neither free nor anybody's own: not a page table, not the frame behind a mapped page,
not inside another stack. The program can see what shares the ends of its stack; that
is how the code is.

An argument may have bit 47 set, or a length that goes on past it: it passes the
check of bit 63, and `VirtAddr::new` then extends bit 47 upwards (`extend`). The loop
maps such a page in tables that all address spaces share (`kernel_page`), where the
model stops. The run `kernel_half` shows it; the other properties hold up to it.
`Astray` are the frames of `FrameHeap` whose release goes to another page: the drop
of a page table in one of them also ends the model. `PhysCap` is a constant:
`PhysAuthorised` is about the check against the capabilities a task has at the call,
and not about mappings that stay when a capability is restricted or given up.

`Elf` has the pure part of the load. Byte i of the file is represented by the number
i, so a page says which bytes it holds and where. `Reference` is what the ELF
format says of a page of a segment, `copied` what the loop writes: `file_index` is
computed before the loop over the pages and not advanced in it, so each page of a
segment holds what belongs on its first one. `FirstPagesRight` holds,
`ImageIsTheProgram` does not. The end of a segment is extended like an address, so one
that ends where the user half does is a panic; one that wraps round the end of the
addresses is a panic with overflow checks and otherwise maps what the wrapped end
says (`wraps`). A header's data is looked up before its type is, and
the loader stops at the first header that it cannot take, with the pages of the
headers before it mapped.

### Files

The storage of one task; a call holds its lock throughout. Navigation is the two
`open_dir` loops, one per file system, with the hand-over between them; the
reference `Denoted` walks the tree of mounts instead. `seen` and `listed` are
history. A buffer whose end overflows is a panic (`Buffers`). Since `rel_open` refuses every folder, no file can be opened: `init_read`
and the successful seek are in the module as they are in the program, and no
reachable state uses them. The kernel mounts "init" before the task starts; later
`mount` and `unmount` are the contract of `ProcRootFs`, which nothing calls yet.

### Allocator, BlockHeap, ListHeap

`Allocator` is the promise: memory of the heap, aligned, large enough, not in use,
or a null pointer (a stutter). The two allocators implement it with the same `live`,
the blocks in use. `MCAllocators` runs one of them per behaviour (`which`).
`BlockHeap` is the kernel's: lists of blocks in front of a first-fit heap of the
`linked_list_allocator` crate, which is external and answers with any free range
that is aligned, or with none, rounding the size up to a hole's size and alignment, so that the properties do not depend on its search.
`ListHeap` is compiled and not used as the global allocator. It writes its nodes into
the free memory; the two assertions of `add_free_region` are `panicked`. An
allocation that needs an alignment loses the part of its region in front of it for
ever: `LosesOnlyPadding` says that this is the only loss.

### Executor

The code is not compiled (`task/mod.rs` is a comment), and the keyboard handler of
`interrupts.rs` reads a scan code and drops it; the module has the code as it stands
and the handler as `add_scancode` is written for. A step of the executor is one
operation on something it shares with a handler, and an interrupt comes between any
two steps unless interrupts are disabled: between the look at an empty queue and the
registration of the waker, between the registration and the second look, between the
check for idleness and the `hlt`. `ArrayQueue`, `AtomicWaker` and the futures are
external; a future other than the keyboard's completes, yields or spawns, and is
pending only if it has woken itself (a future that is pending without arranging to be
woken breaks the contract of `poll`, and no executor can help it). The check before the
`hlt` is of the task queue: `SleepsOnlyWhenIdle` speaks of it and of the scan codes, and
a task left in the spawner waits for the next interrupt.
A full queue is a panic, as in the code (`expect`, `panic!`), except the queue of scan
codes, which drops the new one.

## Runs

| Run | Instance | Result |
|---|---|---|
| `scheduler` | 6 boot tasks, 2 spawners; kernel fairness | holds: 6 invariants, queue order, refinement, starvation by programs only |
| `exit_hangs` | the kernel as it boots | `DyingIsKilled` violated: `remove` reads the task whose write lock the switch holds |
| `capability` | 4 tasks, 2 programs, handles up to 2, addresses up to 3 | holds: 3 invariants, 3 action properties |
| `ap_boot` | 9 processors, one disabled, memory running out at any | holds: 4 invariants, completion |
| `frame_heap` | 12 frames in 2 regions, tables of 4 entries | holds: 3 invariants |
| `address_space` | 2 tasks, 9 frames, 8 user pages, 2 levels of tables below the root, 6 programs | holds: 5 invariants, 1 action property |
| `kernel_half` | the same, with overflow checks | `OnlyUserPages` violated: bit 47 is extended after the check |
| `elf_later_pages` | the same | `ImageIsTheProgram` violated: the second page of a segment repeats the first |
| `files` | 2 descriptors, up to 2 mounts, a folder in a folder | holds: 3 invariants, 1 action property |
| `frame_heap_gap` | 12 frames, tables of 2 entries | `AllocatesUnusedFrame` violated: a gap makes `phys_to_virt` miss |
| `allocators` | either allocator, a heap of 20 units, 5 layouts | holds: 2 invariants, 1 action property, refinement of `Allocator` |
| `executor` | 2 tasks at boot and 3 more, 6 scan codes, queues of 4, 2 and 2 | holds: 2 invariants, every scan code and task served |

Bounds. Six boot tasks give a queue in which rotation, overtaking and a task in
the middle exist, with every mix of Yield, Exit and spawn; a spawn never comes
back, so one more pid suffices (`Ids`). Four tasks in a chain give a caller, a
child that runs a program, an empty grandchild and a stranger, and two handles a
deletion in the middle followed by an insert. One processor at a time is under
way, so more than two add only length; nine keep ids, list order and a disabled
one apart. In `frame_heap` the fifth heap page needs a second level 1 table, out of the
middle of a region, so that releases go astray and releases do not; in
`frame_heap_gap` the page tables are so small (2 for 512) that the gap of the
513th page comes at the third. Nine frames hold two tasks with a program and little
more, so calls run out of memory at the frame, at a table and between two pages,
and frames go from a dropped task to a new one; a stack is one page long, so that it
fills a frame or parts of two, behind an object of the kernel or between two of them;
the addresses include unaligned ones, one with bit 47 set, one between the halves, one
with bit 63 set, lengths of zero, past the user half and near the top. The programs
are one whose segment starts inside a page and reaches into the next, one of a page, a
page without data and a segment that wraps to before its start, a file that is no
program, one with a skipped header before one whose data is not in the file, one that
ends where the user half does, and one that wraps to address 0. The build of this run is
one without overflow checks, where sums go on wrapped; that of `kernel_half` has them.
Two descriptors and two mounts give a close below an open descriptor, a mount
behind an open listing, and two mounts with one name. For the allocators a unit is 4
bytes, so that the block sizes (2, 4, 8 units), the list node (4 units, aligned to 2)
and the least piece of the fallback heap (4 units) have their true proportions;
20 units hold two or three blocks of mixed sizes, and the layouts include one whose
alignment exceeds its size and one larger than every block. In `executor` each of
the three queues fills up, and the scan codes suffice for a burst that overflows its
queue, a wake-up in the middle of a poll, and another one after the CPU has slept.

Fairness. `KernelFairness`: kernel code that can proceed does, and timer
interrupts arrive (the boot loop enables them before `hlt`). Nothing is assumed of
programs: one may compute for ever, and `OnlyProgramsStarve` says that this, a hanging
Exit and a hanging spawn are the only ways in which a queued task does not get the CPU.
In `ApBoot` each processor keeps executing. In `Executor` the CPU keeps executing,
the timer ticks, and a task that is polled again and again completes at last (strong
fairness of `poll_ready`): the inner loop of `run_ready_tasks` goes on while the queue
has tasks, so one that yields for ever keeps the spawner from being served. The code
does not enforce this of its tasks; it holds of those it was written for.

Disagreements that are in the models and have no run of their own:

- A process that spawns hangs (`syscall/src/common.rs:37` promises a process id):
  `add` locks the parent, which `spawn` holds. The scheduler's model has the hanging
  state, `HangsOnlyOnOwnLock` names it, and the theorem `HangsConfined` says there
  is no other besides that of Exit.
- `context/switch.rs:11-14` says that "the kernel timer will send an interupt to the CPU"
  and that its code "will call this function", the switch; the timer's handler prints
  and acknowledges. A program that never calls the kernel starves the others: it is the
  last disjunct of `OnlyProgramsStarve`, and without it TLC finds that behaviour.
- `syscalls/mod.rs:165` restores the "old stack pointer", and `context/switch.rs:8` says
  that "A task has a kernel stack"; with two programs in user mode both are wrong, since
  the record `TCD` is per CPU. `ReturnsOnOwnStack` and `ResumesOwnFrame` say what they
  should; TLC violates each of them with `NInit = 2`.
- `syscall/src/common.rs:23` says that FsOpen "opens a path"; nothing below a mount opens,
  since `rel_open` (`file/initfs.rs:27`) has its test the wrong way round.
  `RefusesOnlyBelowMounts` has that as its exception, and without it is violated by
  `init/a`.
- `syscall/src/common.rs:38-39` wants the target of a share or transfer empty; no
  call tests it, and `Capability` lets a running child receive.
- A spawned task in the executor may take the place of the last free slot of the
  queue that a waker then finds full: the `expect` in `wake_task` fails inside an
  interrupt handler. The `executor` run reaches this state (`panic`).

## Proofs

TLAPS proves, for every value of the constants that satisfies the assumption of the
module:

| Module | Proved | Assumption |
|---|---|---|
| `SchedulerProofs` | `TypeOK` and all six safety invariants, `NoOvertaking`, refinement of `RoundRobin`; for one task `ReturnsOnOwnStack` and `ResumesOwnFrame` | `BootAssumption` |
| `CapabilityProofs` | `TypeOK`, `FreshHandles`, `NoAmplification`, `HandlesStable`, `LinearNeverCopied`, `FailureLosesAtMostTheTransferred` | `CapAssumption` |
| `ApBootProofs` | `TypeOK`, `OwnArguments`, `PageOutlivesUse`, `OwnThreadData`, `PageTableExclusive`, `Booted` | `ProcessorsAssumption` |
| `FrameHeapProofs` | `TypeOK`, `MemoryAccounted`, `OneOwner` | `MemoryAssumption` |
| `AddressSpaceProofs` | `TypeOK`, `FramesExclusive`, `TablesComplete`, `PhysAuthorised`, `LossIsBounded`, `FirstPagesRight` | `SpaceAssumption` |
| `FilesProofs` | `TypeOK`, `ListingWhole`, `DescriptorsStable`, `OpensWhatThePathSays` | `FilesAssumption` |
| `AllocatorProofs` | `ImplementsAllocator`, `BlockMemoryAccounted`, `ListRegionsSound`, `ListLosesOnlyPadding` | `HeapAssumption` |
| `ExecutorProofs` | `NoTaskForgotten`, `SleepsOnlyWhenIdle`, `InOrder` | `ExecutorAssumption` |

TLC evaluates every assumption on the instances of the runs. They say that the
constants have their types and what the code takes for granted of its input: finite
sets of tasks, distinct APIC ids, alignments that divide each
other (they are powers of 2).

Each module has an inductive invariant `IInv`, preserved by every action, one lemma
per action or group of actions.

*Scheduler.* That a lock is free when it is taken depends on where the CPU is. `IInv`
adds `LocksAt` (which locks are held at each place), `TasksAt` (which task is current
and registered at each place), `PidsFresh` (pids not yet issued are used nowhere),
and `Resumable` (whose context is valid, at each place). A second
layer, `SInv`, is about the stacks: nobody gets a second turn before everybody had a
first one (`FirstRound`), so `TCD` names each task's own stack until the last has
started and one stack for good from then on (`StacksAt`). Lemmas on queues
(`AppendFacts`, `TailFacts`, `AppendOrder`, ...) carry what is about order and
repetition.

*Capability.* The tables are described one by one: `GoodTable` says that handles
increase and stay below the counter, and that every capability is `Granted`: every
family closed under parents that contains the task has a boot grant it derives from. A
share or transfer goes from a parent to its child, and a family that contains the child
contains the parent. The action properties follow from what a call can do to a table
(`StepShape`): nothing, delete, narrow, extend. That linear capabilities are not copied
is a bound on the cardinality of a union over the tasks; a step injects the new entries
into the old ones.

*ApBoot.* An invariant by place: `BspAt` says for each step of the boot processor what
the page holds, which IPIs are under way and which processors are where, `LockAt` who
holds the frame allocator, `ProcessorsAt` what each place of a processor implies.
`Booted` is what BootCompletes leads to: all enabled processors parked with their own
thread data when the boot processor is done.

*FrameHeap.* `Unique` gives a region at most one virtual base. `Apart` says that no two
heap pages have a frame in common and that tables, heap and the rest of the iterator are
apart; `AllThere` that at most one frame is in none of the three. `BootAt` says that
nothing is handed out during the boot, `OwnedAt` what is in whose hand after it.
`Upwards` and `InOnePiece` say that frames are taken in ascending order and that heap
pages between whose frames no table lies are mapped in one piece: so the translation
through the base of a region is the inverse of the one that gave the frame, unless a
table lies between it and the origin of the base.

*AddressSpace.* `SpaceAt` describes one address space (tables, frames, stack, what
a leaf points at), `JobAt` the half-done range of a call and what it may still map, pages
of the kernel half included; with them `FramesExclusive`, `TablesComplete` and `PhysAuthorised` are inductive. The number
of tables and frames is counted with the cardinality theorems of the library. A second
layer, `ElfAt` and `ImageAt`, follows a program while it is loaded: what the loop
copied for the headers up to the present one is what `copied` says, and `CopyRight`
proves that `copied` is `Reference` on the first page of a segment. This needs what
`parse_page_range` returns, with and without wrapping (`ParseFacts`), and what
`FlattenSeq` returns (`Flattened`).

*Files.* `Ordered` says that descriptors ascend in the table and stay below the counter,
so a search finds a descriptor where it is; `SlotAt` that a handle is not past its end,
that the text of a folder is the text of the names it had, and that the program was given
exactly the text up to the index. Opening needs that navigation ends at a place that
exists (`OpenPathOK`, by induction along the path). `DescriptorsStable` follows from
`Traceable`: what a step leaves at a descriptor was there before, or is new.
`OpensWhatThePathSays` compares two recursions along the path: the walk of
`open_path_full` never leaves the folder of a mount (`WalkStays`), and the reference
`Denoted` stays at the root up to the first name and at its oldest mount after it
(`DenotedIs`). So what the theorem says of longer paths is that they do not open, which
`RefusesOnlyBelowMounts` states of the instance of the run.

*Allocators.* For the linked list `ListInv` adds the memory reserved for each block
(rounded up for the node of a later free region): the blocks are aligned for a node and
apart; then removing, cutting and putting back a region (`TakenOut`, `Cut`, `Put`) keep
all regions apart. For the fixed-size blocks `BlocksOK` says that the units behind the
blocks in use, the blocks of the lists and the holes are pairwise apart, and that what
is behind a block of a list is aligned to its size. Both rest on lemmas about multiples
(`AlignUp`, `DividesThrough`, ...). The refinement maps `live` to itself; a null pointer
is a stutter.

`BlockMemoryAccounted` adds `Accounts`: no unit is lost, `taken` is what is not a hole,
and `block_free` is the number of units in the cores of the listed blocks (a block
without what the fallback heap added). The sums of the property are turned into
cardinalities of unions of sets that are apart (`SumExists`, `SumCounts`, and one lemma
for each of the three sums, because a lemma about an operator parameter cannot be
instantiated).

*Executor.* `CurAt` says which task is current at each place of the loop, `RegisteredAt`
that between the registration and the second look the waker is that of the task, `IdleAt`
that the queue is empty from the check to the `hlt` (interrupts are off); with them
`NoTaskForgotten` is inductive under interrupts at every step.

Induction over numbers is done with the lemma `LeastExists`: a set of numbers that is
not empty has a least one. So the existence of recursively defined functions and what
they compute along a sequence are proved where they are needed.

Only model-checked:

- `OnlyProgramsStarve`, `BootCompletes` and `EventuallyServed`: liveness under fairness is
  beyond the prover.

## Plan

1. The kernel half of the page tables as shared state, so that the model goes on after a
   mapping there; `exec` and `jmp_userspace` as part of a whole call.
2. Capabilities of `Capability` in place of the constant `PhysCap` of `AddressSpace`.

## Not modelled

- Register contents other than what a context returns into, whose frame lies on a
  stack and the two pointers of `TCD`; segment descriptors: constants, or values with
  no reader but the processor.
- Consoles, ACPI parsing, APIC registers, key decoding: device input and output.
- The clean-up of the boot loader's page tables: one pass before anything runs.
- `SimpleExecutor`: a loop that polls every task again and again, with a waker that
  does nothing.
- Calls that change no state (`inspect`, `mypid`), page flags, the kernel half of
  the page tables, which is the same in every address space.
- Build scripts, macros, user-side stubs, the emulator runner.
