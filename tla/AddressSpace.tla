------------------------------ MODULE AddressSpace ------------------------------
(***************************************************************************)
(* User address spaces: UserPageTable with its drop (context/page_table.rs)*)
(* the user stack of TaskContext::create, the mappings of Elf::mount_into, *)
(* and the system calls MemoryMapVirt, MemoryMapPhys and MemoryUnmap       *)
(* (syscalls/memory.rs).                                                   *)
(*                                                                         *)
(* A call maps page after page and may stop in the middle; every page is a *)
(* step.  Nothing else runs meanwhile, as one CPU runs tasks.  Frames come *)
(* from the kernel heap, lowest first.  The heap is shared with the objects*)
(* of the kernel, and the user stack is one of them: a box of bytes that   *)
(* need not start at a page, so the first and the last frame it reaches    *)
(* may hold parts of other objects.  Of what frames hold only the image of *)
(* a program is kept, as the loader wrote it.  Page flags are left out.    *)
(*                                                                         *)
(* The model stops at a panic, and at two things it does not follow: a page*)
(* mapped in the kernel half, which the address spaces share, and a page   *)
(* table whose release goes astray (see FrameHeap).                        *)
(***************************************************************************)
EXTENDS Elf, FiniteSets

CONSTANTS
  Tasks,
  PhysTop,     \* size of the physical address space (2^52)
  Fanout,      \* entries of a page table (512)
  Depth,       \* levels of page tables below the root (3)
  Frames,      \* the frames of the heap
  Astray,      \* those that deallocate_frame takes for another
  StackPage,   \* the page at USERSPACE_STACK_ADDR
  StackPages,  \* the pages of a stack that starts at a page (16)
  MaxMixed,    \* a bound on the frames of the other objects of the kernel
  Programs,    \* the files that are run
  RamCap,      \* the tasks holding MapVirtualToRam
  PhysCap,     \* the ranges <<from, to>> of each task's MapPhysical capabilities
  Addrs, Lens, Physs   \* the arguments programs pass

ASSUME SpaceAssumption ==
  /\ {PhysTop, Fanout, Depth} \subseteq Nat \ {0}
  /\ PhysTop % PageSize = 0 /\ 4 * PhysTop <= Top
  /\ IsFiniteSet(Frames) /\ Frames \subseteq Nat
  /\ \A f \in Frames : (f + 1) * PageSize <= PhysTop
  /\ Astray \subseteq Frames
  /\ {StackPage, StackPages, MaxMixed} \subseteq Nat /\ StackPages > 0
  /\ StackPage + StackPages < Canonical \div PageSize
  /\ Programs \subseteq FileT
  /\ RamCap \subseteq Tasks
  /\ PhysCap \in [Tasks -> SUBSET (Nat \X Nat)]
  /\ Addrs \subseteq 0 .. Top - 1 /\ Lens \subseteq 0 .. Top - 1 /\ Physs \subseteq Nat

Pages == 0 .. (Canonical \div PageSize) - 1            \* the user half
AllPages == 0 .. 2 * (Canonical \div PageSize) - 1
Table == (1 .. Depth) \X Nat

VARIABLES
  alive,    \* the tasks with an address space
  tables,   \* the page tables of each below the root: <<level, index>>
  tframes,  \* the frames they and the root are in
  root,     \* the frame of the root, as a set
  leaf,     \* the frame behind each mapped page of each task
  ram,      \* the pages backed by a frame taken for them (map_virt, ELF)
  ustack,   \* the pages of the user stack
  free,     \* the frames of the heap that nobody has
  mixed,    \* those with parts of the kernel's objects or of a stack in them
  image,    \* what the loader wrote to the pages of each task's program
  entry,    \* the program of each task, once its user_entry_point is set
  job,      \* the mapping loop under way, with the pages left
  halted    \* a panic stopped the machine, or the model stops here

stack == <<root, ustack, mixed>>
vars == <<alive, tables, tframes, leaf, ram, free, image, entry, job, halted, stack>>

NoProgram == [len |-> 0, magic |-> FALSE, phoff |-> 0, headers |-> <<>>]

Idle == [task |-> 0, kind |-> "none", pages |-> <<>>, frame |-> 0, program |-> NoProgram]
EmptyFun == [p \in {} |-> 0]

Init ==
  /\ alive = {}
  /\ tables = [t \in Tasks |-> {}]
  /\ tframes = [t \in Tasks |-> {}]
  /\ root = [t \in Tasks |-> {}]
  /\ leaf = [t \in Tasks |-> EmptyFun]
  /\ ram = [t \in Tasks |-> {}]
  /\ ustack = [t \in Tasks |-> {}]
  /\ free = Frames
  /\ mixed = {}
  /\ image = [t \in Tasks |-> EmptyFun]
  /\ entry = [t \in Tasks |-> NoProgram]
  /\ job = Idle
  /\ halted = FALSE

Ready == job = Idle /\ ~ halted

\* The program sees the code, the kernel keeps nothing of it.
Return(code) ==
  /\ halted' = (code = "panic")
  /\ UNCHANGED <<alive, tables, tframes, leaf, ram, free, image, entry, job, stack>>

Lowest(S, n) == {f \in S : Cardinality({g \in S : g < f}) < n}

\* The pages whose entries are below a table of level l: Fanout^l.
Span[l \in 0 .. Depth] == IF l = 0 THEN 1 ELSE Fanout * Span[l - 1]

TablesOf(p) == {<<l, p \div Span[l]>> : l \in 1 .. Depth}

-------------------------------------------------------------------------------
(* Arguments.  A "..._fault" is a broken form of the definition after it,  *)
(* used only to show that a property notices.                              *)

Outcome(code) == [code |-> code, pages |-> <<>>]

\* The bit that check_addr_userspace looks at is looked at before VirtAddr::new
\* extends bit 47 into it.  at + len is computed twice, before and after that.
parse_page_range_fault(at, len) ==                         \* no address made of it
  [code |-> "Ok", pages |-> PageRange(at \div PageSize, (at + len) \div PageSize)]
parse_page_range(at, len) ==
  LET from == extend(at)
      to   == (from + len) % Top
  IN  IF ~ check_addr_userspace(at) THEN Outcome("WrongParameters")
      ELSE IF OverflowChecks /\ at + len \notin 1 .. Top - 1 THEN Outcome("panic")
      ELSE IF ~ check_addr_userspace((at + len - 1) % Top) THEN Outcome("WrongParameters")
      ELSE IF ~ VirtAddr(at) THEN Outcome("panic")
      ELSE IF from % PageSize # 0 THEN Outcome("WrongParameters")
      ELSE IF (OverflowChecks /\ from + len >= Top) \/ ~ VirtAddr(to) THEN Outcome("panic")
      ELSE IF to % PageSize # 0 THEN Outcome("WrongParameters")
      ELSE [code |-> "Ok", pages |-> PageRange(page_of(from), page_of(extend(to)))]

\* The range check of map_phys.
authorised_fault(t, from, to) == \E r \in PhysCap[t] : r[1] <= from /\ r[2] >= from
authorised(t, from, to) == \E r \in PhysCap[t] : r[1] <= from /\ r[2] >= to

-------------------------------------------------------------------------------
(* Address spaces.                                                         *)

\* Where a user stack can lie: on frames that follow one another in the heap, one
\* more than StackPages of them when it does not start at a page.  The frames are
\* mapped in their order from StackPage on, whole.
Places ==
  {s \in [StackPage .. StackPage + StackPages - 1 -> Frames]
           \cup [StackPage .. StackPage + StackPages -> Frames] :
     \A p \in DOMAIN s : \A q \in DOMAIN s : p < q =>
       s[p] < s[q] /\ (q = p + 1 => \A f \in Frames : ~ (s[p] < f /\ f < s[q]))}

\* The frames such a stack fills in part.
Ends(s) ==
  LET last == StackPage + StackPages
  IN  IF last \in DOMAIN s THEN {s[StackPage], s[last]} ELSE {}

\* A stack starts inside a frame only behind something else that is in it.
Fits(s, room) ==
  \A p \in DOMAIN s : \/ s[p] \in room /\ (s[p] \in Ends(s) => p # StackPage)
                      \/ s[p] \in mixed /\ s[p] \in Ends(s)

\* The first hole that fits is taken: free frames do, what is left of mixed frames
\* before them may or may not.
Aligned(room) == {s \in Places : Ends(s) = {} /\ Fits(s, room)}
FirstFit(room) ==
  {s \in Places : Fits(s, room) /\ \A a \in Aligned(room) : s[StackPage] <= a[StackPage]}

\* TaskContext::create: a root table, a user stack, and the tables to map it.
\* Out of memory is a panic.
create(t) ==
  LET room == free \ Lowest(free, 1)
  IN  /\ Ready /\ t \notin alive
      /\ \/ Aligned(room) = {} /\ Return("panic")
         \/ \E s \in FirstFit(room) :
              LET left == room \ {s[p] : p \in DOMAIN s}
                  made == UNION {TablesOf(p) : p \in DOMAIN s}
                  n    == Cardinality(made)
              IN  /\ free # {}
                  /\ IF Cardinality(left) < n THEN Return("panic")
                     ELSE /\ alive' = alive \cup {t}
                          /\ tables' = [tables EXCEPT ![t] = made]
                          /\ tframes' = [tframes EXCEPT ![t] = Lowest(free, 1) \cup Lowest(left, n)]
                          /\ root' = [root EXCEPT ![t] = Lowest(free, 1)]
                          /\ leaf' = [leaf EXCEPT ![t] = s]
                          /\ ustack' = [ustack EXCEPT ![t] = DOMAIN s]
                          /\ free' = left \ Lowest(left, n)
                          /\ mixed' = mixed \cup Ends(s)
                          /\ UNCHANGED <<ram, image, entry, job, halted>>

Stack(t) == {leaf[t][p] : p \in ustack[t]}

\* What the drop of a task's page table and user stack gives back: the tables and
\* the frames the stack fills, not the frames the level 1 tables point to.
returned_fault(t) == tframes[t]                            \* stack kept
returned_fault_leaves(t) ==                                \* one level too deep
  tframes[t] \cup {leaf[t][p] : p \in DOMAIN leaf[t]}
returned(t) == tframes[t] \cup (Stack(t) \ mixed)

\* The root is released as the box it is, the tables below it by their frames.
\* Of the ends of the stack those are given back that nothing else lies in.
drop(t) ==
  LET ends == {f \in Stack(t) \cap mixed : \A u \in Tasks : f \in Stack(u) => u = t}
  IN  /\ Ready /\ t \in alive
      /\ IF (tframes[t] \ root[t]) \cap Astray # {} THEN Return("panic")
         ELSE \E gone \in SUBSET ends :
              /\ alive' = alive \ {t}
              /\ free' = free \cup returned(t) \cup gone
              /\ mixed' = mixed \ gone
              /\ tables' = [tables EXCEPT ![t] = {}]
              /\ tframes' = [tframes EXCEPT ![t] = {}]
              /\ root' = [root EXCEPT ![t] = {}]
              /\ leaf' = [leaf EXCEPT ![t] = EmptyFun]
              /\ ram' = [ram EXCEPT ![t] = {}]
              /\ ustack' = [ustack EXCEPT ![t] = {}]
              /\ image' = [image EXCEPT ![t] = EmptyFun]
              /\ entry' = [entry EXCEPT ![t] = NoProgram]
              /\ UNCHANGED <<job, halted>>

\* The rest of the kernel allocates an object in a frame of its own, or releases
\* the last object in one.  Objects put into mixed frames change nothing here.
kernel_alloc ==
  /\ Ready /\ free # {} /\ Cardinality(mixed) < MaxMixed
  /\ free' = free \ Lowest(free, 1)
  /\ mixed' = mixed \cup Lowest(free, 1)
  /\ UNCHANGED <<alive, tables, tframes, leaf, ram, image, entry, job, halted, root, ustack>>

kernel_free(f) ==
  /\ Ready /\ f \in mixed
  /\ \A t \in Tasks : f \notin Stack(t)
  /\ free' = free \cup {f}
  /\ mixed' = mixed \ {f}
  /\ UNCHANGED <<alive, tables, tframes, leaf, ram, image, entry, job, halted, root, ustack>>

Running(t) == t \in alive /\ entry[t] # NoProgram

Start(t, kind, pages, frame) ==
  IF pages = <<>> THEN Return("Ok")
  ELSE /\ job' = [Idle EXCEPT !.task = t, !.kind = kind, !.pages = pages, !.frame = frame]
       /\ UNCHANGED <<alive, tables, tframes, leaf, ram, free, image, entry, halted, stack>>

\* Where mount_into ends: the headers are used up, or one of them is a panic.
Loaded(t, f) ==
  /\ entry' = IF Accepted(f) = f.headers THEN [entry EXCEPT ![t] = f] ELSE entry
  /\ halted' = (Accepted(f) # f.headers)

\* Called once for a task, before its program runs: by exec, which returns what
\* Elf::new reports, or by start_initproc, which panics.
load_elf(t, f, exec) ==
  /\ Ready /\ t \in alive /\ ~ Running(t)
  /\ IF ~ new(f) THEN Return(IF exec THEN "FsNotExecutable" ELSE "panic")
     ELSE IF ElfPages(f) = <<>>
     THEN Loaded(t, f) /\ UNCHANGED <<alive, tables, tframes, leaf, ram, free, image, job, stack>>
     ELSE /\ job' = [Idle EXCEPT !.task = t, !.kind = "elf", !.pages = ElfPages(f), !.program = f]
          /\ UNCHANGED <<alive, tables, tframes, leaf, ram, free, image, entry, halted, stack>>

\* read: MemoryPerms::READ is among the permissions asked for.
map_virt(t, at, len, read) ==
  LET o == parse_page_range(at, len)
  IN  /\ Ready /\ Running(t)
      /\ IF o.code # "Ok" THEN Return(o.code)
         ELSE IF t \notin RamCap THEN Return("WrongCapability")
         ELSE IF ~ read THEN Return("WrongParameters")
         ELSE Start(t, "virt", o.pages, 0)

\* new_truncate drops the high bits; later sums leave the physical space by a panic.
map_phys(t, at, len, read, phys) ==
  LET o    == parse_page_range(at, len)
      from == phys % PhysTop
      end  == (from + len) % Top
  IN  /\ Ready /\ Running(t)
      /\ IF o.code # "Ok" THEN Return(o.code)
         ELSE IF end >= PhysTop \/ end = 0 \/ (OverflowChecks /\ from + len >= Top)
         THEN Return("panic")
         ELSE IF from % PageSize # 0 \/ end % PageSize # 0 THEN Return("WrongParameters")
         ELSE IF ~ authorised(t, from, end - 1) THEN Return("WrongCapability")
         ELSE IF ~ read THEN Return("WrongParameters")
         ELSE Start(t, "phys", o.pages, from \div PageSize)

\* MemoryUnmap answers Ok and does nothing.
unmap(t) == Ready /\ Running(t) /\ Return("Ok")

-------------------------------------------------------------------------------
(* The mapping loop.                                                       *)

\* The loader of programs unwraps what the system calls return.
Finish(code) ==
  /\ IF job.kind = "elf" /\ code = "Ok" THEN Loaded(job.task, job.program)
     ELSE halted' = (job.kind = "elf") /\ UNCHANGED entry
  /\ job' = Idle

\* The frames for missing tables, lowest first, and the frames left after them.
table_frames_fault(S, n) == Lowest(S, n - 1)               \* the last one shared
table_frames(S, n) == Lowest(S, n)

\* One page: a frame for it unless the frame is given, the tables on the way to
\* it from the top down, the entry.  What was taken before a failure stays taken.
map_page ==
  LET t    == job.task
      p    == Head(job.pages)
      own  == IF job.kind = "phys" THEN {} ELSE Lowest(free, 1)
      rest == free \ own
      miss == TablesOf(p) \ tables[t]
      n    == Cardinality(miss)
      made == {x \in miss : Cardinality({y \in miss : y[1] > x[1]}) < Cardinality(rest)}
  IN  /\ job # Idle /\ p \in Pages
      /\ IF job.kind # "phys" /\ own = {}
         THEN Finish("NoMemory") /\ UNCHANGED <<tables, tframes, leaf, ram, free, image>>
         ELSE /\ tables' = [tables EXCEPT ![t] = @ \cup made]
              /\ tframes' = [tframes EXCEPT ![t] = @ \cup table_frames(rest, n)]
              /\ free' = rest \ table_frames(rest, n)
              /\ IF Cardinality(rest) < n \/ p \in DOMAIN leaf[t]
                 THEN /\ Finish(IF Cardinality(rest) < n THEN "NoMemory" ELSE "MemoryAlreadyMapped")
                      /\ UNCHANGED <<leaf, ram, image>>
                 ELSE /\ leaf' = [leaf EXCEPT ![t] =
                           [q \in DOMAIN @ \cup {p} |->
                              IF q # p THEN @[q]
                              ELSE IF job.kind = "phys" THEN job.frame
                              ELSE CHOOSE f \in own : TRUE]]
                      /\ ram' = IF job.kind = "phys" THEN ram ELSE [ram EXCEPT ![t] = @ \cup {p}]
                      /\ image' = IF job.kind # "elf" THEN image
                                  ELSE [image EXCEPT ![t] =
                                    [q \in DOMAIN @ \cup {p} |->
                                       IF q # p THEN @[q] ELSE copied(HeaderOf(job.program, p))]]
                      /\ IF Len(job.pages) = 1 THEN Finish("Ok")
                         ELSE /\ job' = [job EXCEPT !.pages = Tail(@), !.frame = @ + 1]
                              /\ UNCHANGED <<entry, halted>>
      /\ UNCHANGED <<alive, stack>>

\* A page of the kernel half: mapped for the user in tables that are not the task's.
kernel_page ==
  /\ job # Idle /\ Head(job.pages) \notin Pages
  /\ job' = Idle
  /\ halted' = TRUE
  /\ UNCHANGED <<alive, tables, tframes, leaf, ram, free, image, entry, stack>>

\* Nothing is followed after a panic, or after a step the model does not follow.
Halted == halted /\ UNCHANGED vars

Next ==
  \/ \E t \in Tasks : create(t)
  \/ \E t \in Tasks : drop(t)
  \/ kernel_alloc
  \/ \E f \in Frames : kernel_free(f)
  \/ \E t \in Tasks, f \in Programs, exec \in BOOLEAN : load_elf(t, f, exec)
  \/ \E t \in Tasks, at \in Addrs, len \in Lens, read \in BOOLEAN : map_virt(t, at, len, read)
  \/ \E t \in Tasks, at \in Addrs, len \in Lens, read \in BOOLEAN, phys \in Physs :
       map_phys(t, at, len, read, phys)
  \/ \E t \in Tasks : unmap(t)
  \/ map_page
  \/ kernel_page
  \/ Halted

Spec == Init /\ [][Next]_vars

-------------------------------------------------------------------------------
(* Properties.                                                             *)

RamFrames(t) == {leaf[t][p] : p \in ram[t]}

\* What is a task's and nobody else's.
Own(t) == tframes[t] \cup RamFrames(t) \cup (Stack(t) \ mixed)

\* The state stays in its domain; the pages of a loop are pages of the machine, of
\* either half.
TypeOK ==
  /\ alive \subseteq Tasks
  /\ tables \in [Tasks -> SUBSET Table]
  /\ tframes \in [Tasks -> SUBSET Frames]
  /\ root \in [Tasks -> SUBSET Frames]
  /\ \A t \in Tasks : /\ DOMAIN leaf[t] \subseteq Pages
                      /\ ram[t] \cup ustack[t] \subseteq DOMAIN leaf[t]
                      /\ ram[t] \cap ustack[t] = {}
  /\ free \subseteq Frames /\ mixed \subseteq Frames
  /\ entry \in [Tasks -> Programs \cup {NoProgram}]
  /\ \A t \in Tasks : DOMAIN image[t] \subseteq ram[t]
  /\ \/ job = Idle
     \/ /\ job.task \in alive /\ job.pages # <<>>
        /\ \A i \in 1 .. Len(job.pages) : job.pages[i] \in AllPages

\* syscalls/memory.rs, of its arguments: "Check userspace".  No loop maps a page of
\* the kernel half.
OnlyUserPages == job # Idle => Head(job.pages) \in Pages

\* A frame has one use: free, shared by objects of the kernel and the ends of
\* stacks, a page table of one task, filled by the stack of one, or behind one page
\* of one; through failing calls, dropped tasks and tasks created after.
FramesExclusive ==
  /\ free \cap mixed = {}
  /\ \A t \in Tasks : /\ Own(t) \cap (free \cup mixed) = {}
                      /\ tframes[t] \cap (RamFrames(t) \cup Stack(t)) = {}
                      /\ \A p, q \in ram[t] \cup ustack[t] : leaf[t][p] = leaf[t][q] => p = q
  /\ \A t, u \in Tasks : t # u => Own(t) \cap Own(u) = {}

\* The way to every mapped page is there, and every table has a frame of its own:
\* so the drop, which walks down from the root, finds them all.
TablesComplete ==
  \A t \in alive :
    /\ \A p \in DOMAIN leaf[t] : TablesOf(p) \subseteq tables[t]
    /\ Cardinality(tframes[t]) = Cardinality(tables[t]) + 1

\* What a task maps by physical address lies in a range it has a capability for,
\* to the last byte.
PhysAuthorised ==
  \A t \in alive : \A p \in DOMAIN leaf[t] \ (ram[t] \cup ustack[t]) :
    \E r \in PhysCap[t] :
      r[1] <= leaf[t][p] * PageSize /\ leaf[t][p] * PageSize + PageSize - 1 <= r[2]

\* The frames that are nowhere any more.
Lost == Frames \ (free \cup mixed \cup UNION {Own(t) : t \in Tasks})

\* Memory is lost in two ways only: a mapping that fails loses the one frame it
\* had taken for the page, and the drop loses the frames behind the pages.
LossIsBounded ==
  [][\/ Lost' = Lost
     \/ job # Idle /\ job' = Idle /\ Cardinality(Lost' \ Lost) = 1
     \/ \E t \in alive : t \notin alive' /\ Lost' \ Lost \subseteq RamFrames(t)]_vars

\* The first page of every segment of a running program holds what the file says,
\* byte for byte and zero elsewhere, whatever the alignment and the sizes; and
\* every page the segment reaches is mapped.  (One that wraps around the end of the
\* addresses is a panic or, in a build that does not check, reaches other pages.)
FirstPagesRight ==
  \A t \in alive : Running(t) =>
    \A i \in 1 .. Len(entry[t].headers) :
      LET h == entry[t].headers[i]
      IN  Mounted(h) /\ ~ wraps(h) =>
            /\ image[t][from_page(h)] = Reference(h, from_page(h))
            /\ {p \in Pages : \E a \in h.vaddr .. h.vaddr + h.memsz - 1 : p = a \div PageSize}
                 \subseteq DOMAIN image[t]

\* common.rs: ProcessExec "Starts a program in an empty process": what a running
\* task finds in its memory is the program, on every page.
ImageIsTheProgram ==
  \A t \in alive : Running(t) =>
    \A p \in DOMAIN image[t] : image[t][p] = Reference(HeaderOf(entry[t], p), p)

===============================================================================
