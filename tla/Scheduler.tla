------------------------------- MODULE Scheduler -------------------------------
(***************************************************************************)
(* The task registry, the run queue and the context switch of the kernel:  *)
(* idker/src/context/{mod,registry,task,switch}.rs, the boot loop          *)
(* run_executor of main.rs, and the system calls Yield, Exit and           *)
(* ProcessSpawn that drive them.                                           *)
(*                                                                         *)
(* One CPU runs tasks (an application processor never leaves kstart_ap)    *)
(* and the timer interrupt switches nothing, so kernel code runs to        *)
(* completion; what may go wrong is a lock the CPU takes while it already  *)
(* holds it (a spin lock, so it spins for ever), a context loaded twice,   *)
(* a task lost from or doubled in the run queue, a frame overwritten while *)
(* its task waits: every task has a kernel stack, but the entry of a       *)
(* system call finds the stack to use in one record per CPU, TCD, which no *)
(* switch touches.  A step below is the code between two points where it   *)
(* may spin.                                                               *)
(***************************************************************************)
EXTENDS Integers, Sequences

CONSTANTS
  NInit,      \* the tasks run_executor creates and queues (the kernel: 1)
  Spawners    \* the boot tasks holding a ProcessSpawn capability (the kernel: {})

ASSUME BootAssumption ==
  /\ NInit \in Nat
  /\ Spawners \subseteq 2 .. NInit + 1

-------------------------------------------------------------------------------
(* Identifiers.  Pids count up from 2 and a spawn that gets past the       *)
(* capability check never returns, so one pid more than boot's is enough.  *)

InitTask == 1
Ids      == 1 .. NInit + 2
NoTask   == 0
BootTasks == 2 .. NInit + 1

TASKS    == 0                \* the lock around the registry; a task's lock is its id
Locks    == {TASKS} \cup Ids
NoLock   == -1

VARIABLES
  pc,        \* where the CPU is
  waiting,   \* the lock the CPU spins on, or NoLock
  held,      \* the locks held for writing, leaked guards included
  cur,       \* TASK_ID
  sw,        \* TASK_SWITCH_LOCKS: the pair of a switch in progress
  next,      \* the task a switch goes to; the task being added
  cont,      \* what switch_task loaded: where its final ret will go
  tasks,     \* TaskRegistry.tasks: the registered ids
  queue,     \* TaskRegistry.executable_tasks
  nextPid,   \* NEXT_PID
  state,     \* TaskContext.state
  parent,    \* TaskContext.parent
  children,  \* TaskContext.children
  saved,     \* TaskContext.arch_regs: what the saved stack returns into
  base,      \* arch_regs.rsp: the task whose kernel stack a saved context lies on
  frame,     \* the task whose registers lie at the top of a kernel stack
  ksp,       \* TCD.kernel_stack_pointer: the task whose stack system calls use
  usp        \* TCD.user_stack_pointer: the task whose stack pointer it holds

cpuVars  == <<cur, sw, next, cont>>
regVars  == <<tasks, queue, nextPid>>
taskVars == <<state, parent, children, saved>>
coreVars == <<pc, waiting, held, cpuVars, regVars, taskVars>>
stackVars == <<base, frame, ksp, usp>>
vars     == <<coreVars, stackVars>>

TaskState == {"Sleepy", "User", "Dying"}

\* "entry": the function pushed by create; "switch": inside switch_task, below
\* switch_to_next_task (and, of a program, below the system call that made it:
\* Yield and Exit call it at one depth, so whoever's frame lies there returns);
\* "stale": default registers, or a frame already resumed.
Context == {"entry", "switch", "stale"}

NoSwitch == [from |-> NoTask, to |-> NoTask]

-------------------------------------------------------------------------------
(* Locks of the spin crate: taking one that is held spins.                 *)

Spin(l, h) ==
  /\ waiting' = l
  /\ held' = h
  /\ UNCHANGED <<pc, cpuVars, regVars, taskVars>>

Panic ==
  /\ pc' = "panic"
  /\ UNCHANGED <<waiting, held, cpuVars, regVars, taskVars>>

\* current_task(): registry read lock, then the current task must be there.
\* What the caller does next with the task's own write lock is Then.
WithCurrentTask(Then) ==
  IF TASKS \in held THEN Spin(TASKS, held)
  ELSE IF cur \notin tasks THEN Panic
  ELSE IF cur \in held THEN Spin(cur, held)
  ELSE Then

CanLockCurrentTask == cur \in tasks /\ held \cap {TASKS, cur} = {}

At(l) == pc = l /\ waiting = NoLock

-------------------------------------------------------------------------------
(* Boot: run_executor after it registered the Sleepy task 1.               *)

Init ==
  /\ pc = "boot"
  /\ waiting = NoLock
  /\ held = {}
  /\ cur = InitTask
  /\ sw = NoSwitch
  /\ next = NoTask
  /\ cont = "stale"
  /\ tasks = {InitTask}
  /\ queue = <<>>
  /\ nextPid = 2
  /\ state = [t \in Ids |-> IF t = InitTask THEN "Sleepy" ELSE "User"]
  /\ parent = [t \in Ids |-> NoTask]
  /\ children = [t \in Ids |-> <<>>]
  /\ saved = [t \in Ids |-> "stale"]
  /\ base = [t \in Ids |-> t]
  /\ frame = [t \in Ids |-> NoTask]
  /\ ksp = NoTask
  /\ usp = NoTask

-------------------------------------------------------------------------------
(* Updates of the registry and of task contexts.  Next to an update stands *)
(* the faulty form of it (named "..._fault...") that shows a property has  *)
(* teeth; no specification uses those.                                     *)

allocate_pid_fault == nextPid + 2                          \* fetch_add(2)
allocate_pid == nextPid + 1

insert_fault(id) == tasks                                  \* never registered
insert(id) == tasks \cup {id}

push_child(p, c) == [children EXCEPT ![p] = Append(@, c)]

requeue_fault_always == Append(queue, cur)                 \* whatever its state
requeue_fault_front  == <<cur>> \o queue                   \* push_front
requeue_fault_second ==                                    \* insert(1, from)
  IF queue = <<>> \/ state[cur] # "User" THEN queue
  ELSE <<Head(queue), cur>> \o Tail(queue)
requeue == IF state[cur] = "User" THEN Append(queue, cur) ELSE queue

leak_from_fault == held \cup {cur, TASKS}                  \* registry not dropped
leak_from == held \cup {cur}

exchange_fault == [saved EXCEPT ![cur] = "stale", ![next] = "switch"]
exchange == [saved EXCEPT ![cur] = "switch", ![next] = "stale"]

\* The stack the CPU is on when it switches: the idle task never left its own,
\* a program came in by a system call, on the stack TCD names.
kernel_stack == IF cur = InitTask THEN InitTask ELSE ksp

unlock_pair_fault(h) == h \ {sw.from}                      \* target left locked
unlock_pair(h) == h \ {sw.from, sw.to}

\* TaskContext::create: a fresh pid, and a stack whose top is the entry function.
create(p) ==
  /\ nextPid' = allocate_pid
  /\ state' = [state EXCEPT ![nextPid] = "User"]
  /\ parent' = [parent EXCEPT ![nextPid] = p]
  /\ saved' = [saved EXCEPT ![nextPid] = "entry"]

boot_task ==
  /\ At("boot")
  /\ UNCHANGED stackVars
  /\ nextPid < NInit + 2
  /\ IF TASKS \in held THEN Spin(TASKS, held)
     ELSE IF InitTask \in held THEN Spin(InitTask, held \cup {TASKS})
     ELSE /\ create(InitTask)
          /\ tasks' = insert(nextPid)
          /\ children' = push_child(InitTask, nextPid)
          /\ queue' = Append(queue, nextPid)
          /\ UNCHANGED <<pc, waiting, held, cpuVars>>

\* One turn of the loop of run_executor, up to its call of the scheduler.
run_executor ==
  /\ \/ At("boot") /\ nextPid = NInit + 2
     \/ At("loop")
  /\ pc' = "switch"
  /\ UNCHANGED <<waiting, held, cpuVars, regVars, taskVars, stackVars>>

\* The handler prints and acknowledges; its only effect is to end hlt.
timer_interrupt_handler ==
  /\ At("user") \/ At("hlt")
  /\ pc' = IF pc = "hlt" THEN "loop" ELSE pc
  /\ UNCHANGED <<waiting, held, cpuVars, regVars, taskVars, stackVars>>

-------------------------------------------------------------------------------
(* The switch.                                                             *)

\* Where the caller of switch_to_next_task goes on: r is its result.
Return(r) == IF cur = InitTask THEN (IF r THEN "loop" ELSE "hlt") ELSE "user"

\* Up to the release of the registry: requeue a User task, choose the next one.
switch_to_next_task ==
  /\ At("switch")
  /\ UNCHANGED stackVars
  /\ LET to    == IF requeue = <<>> THEN InitTask ELSE Head(requeue)
         later == IF requeue = <<>> THEN <<>> ELSE Tail(requeue)
     IN  IF TASKS \in held THEN Spin(TASKS, held)
         ELSE IF cur \notin tasks THEN Panic
         ELSE IF cur \in held THEN Spin(cur, held \cup {TASKS})
         ELSE IF to = cur
         THEN /\ queue' = later
              /\ pc' = Return(FALSE)
              /\ UNCHANGED <<waiting, held, cpuVars, tasks, nextPid, taskVars>>
         ELSE IF to \notin tasks THEN Panic
         ELSE /\ queue' = later
              /\ next' = to
              /\ held' = leak_from
              /\ pc' = "target"
              /\ UNCHANGED <<waiting, cur, sw, cont, tasks, nextPid, taskVars>>

\* Take the target's lock, publish the pair, and exchange the registers, the
\* stack pointer among them; TCD stays as it is.
switch_task ==
  /\ At("target")
  /\ UNCHANGED <<frame, ksp, usp>>
  /\ IF next \in held THEN Spin(next, held) /\ UNCHANGED base
     ELSE /\ held' = held \cup {next}
          /\ cur' = next
          /\ sw' = [from |-> cur, to |-> next]
          /\ saved' = exchange
          /\ base' = [base EXCEPT ![cur] = kernel_stack]
          /\ cont' = saved[next]
          /\ pc' = "after"
          /\ UNCHANGED <<waiting, next, regVars, state, parent, children>>

\* force_write_unlock of the pair and the ret into what switch_task loaded.
Unlock(h) ==
  /\ held' = unlock_pair(h)
  /\ sw' = NoSwitch
  /\ pc' = IF cont = "entry" THEN "entry" ELSE Return(TRUE)
  /\ UNCHANGED <<waiting, cur, next, cont>>

\* A Dying task is unregistered first, with both locks of the pair still held.
after_task_switch ==
  /\ At("after")
  /\ UNCHANGED stackVars
  /\ IF state[sw.from] = "Dying"
     THEN IF TASKS \in held THEN Spin(TASKS, held)
          ELSE /\ held' = held \cup {TASKS}
               /\ tasks' = tasks \ {sw.from}
               /\ pc' = "remove"
               /\ UNCHANGED <<waiting, cpuVars, queue, nextPid, taskVars>>
     ELSE Unlock(held) /\ UNCHANGED <<regVars, taskVars>>

\* The rest of TaskRegistry::remove: read the removed task, then leave the
\* parent's child list (which holds an id at most once).
remove ==
  /\ At("remove")
  /\ UNCHANGED stackVars
  /\ LET p == parent[sw.from]
     IN  IF sw.from \in held THEN Spin(sw.from, held)
         ELSE IF p \in tasks /\ p \in held THEN Spin(p, held)
         ELSE /\ children' = IF p \in tasks
                             THEN [children EXCEPT ![p] = SelectSeq(@, LAMBDA c : c # sw.from)]
                             ELSE children
              /\ Unlock(held \ {TASKS})
              /\ UNCHANGED <<regVars, state, parent, saved>>

\* enter_userspace, after prepare_tcb: TCD gets the stack of the task that starts.
enter_userspace == ksp' = cur /\ usp' = cur

\* start_initproc: the first thing a boot task runs, on its own stack; it locks
\* itself to load its ELF.
start_initproc ==
  /\ At("entry")
  /\ IF CanLockCurrentTask THEN enter_userspace ELSE UNCHANGED <<ksp, usp>>
  /\ WithCurrentTask(/\ pc' = "user"
                     /\ UNCHANGED <<waiting, held, cpuVars, regVars, taskVars>>)
  /\ UNCHANGED <<base, frame>>

-------------------------------------------------------------------------------
(* System calls of the running task.                                       *)

\* The entry of every system call: the caller's stack pointer goes to TCD and
\* its registers to the top of the stack TCD names.  The return loads both back.
on_syscall_raw ==
  /\ usp' = cur
  /\ frame' = [frame EXCEPT ![ksp] = cur]
  /\ UNCHANGED <<base, ksp>>

Yield ==
  /\ At("user")
  /\ on_syscall_raw
  /\ pc' = "switch"
  /\ UNCHANGED <<waiting, held, cpuVars, regVars, taskVars>>

Exit ==
  /\ At("user")
  /\ on_syscall_raw
  /\ WithCurrentTask(/\ state' = [state EXCEPT ![cur] = "Dying"]
                     /\ pc' = "switch"
                     /\ UNCHANGED <<waiting, held, cpuVars, regVars, parent, children, saved>>)

\* spawn keeps its own write lock while it creates the child and asks for the registry.
spawn ==
  /\ At("user")
  /\ on_syscall_raw
  /\ WithCurrentTask(
       IF cur \notin Spawners
       THEN UNCHANGED coreVars                               \* WrongCapability
       ELSE /\ create(cur)
            /\ next' = nextPid
            /\ held' = held \cup {cur, TASKS}
            /\ pc' = "add"
            /\ UNCHANGED <<waiting, cur, sw, cont, tasks, queue, children>>)

\* TaskRegistry::add: register the child, then lock the parent to link it.
add ==
  /\ At("add")
  /\ UNCHANGED stackVars
  /\ tasks' = insert(next)
  /\ UNCHANGED <<cpuVars, queue, nextPid, state, parent, saved>>
  /\ IF next \in tasks THEN pc' = "panic" /\ UNCHANGED <<waiting, held, children>>
     ELSE IF parent[next] \in held
     THEN waiting' = parent[next] /\ UNCHANGED <<pc, held, children>>
     ELSE /\ children' = push_child(parent[next], next)
          /\ held' = held \ {cur, TASKS}
          /\ pc' = "user"
          /\ UNCHANGED waiting

\* The CPU spins: nobody else could release the lock it wants.
Spinning == waiting \in held /\ UNCHANGED vars

-------------------------------------------------------------------------------
KernelStep ==
  \/ boot_task
  \/ run_executor
  \/ switch_to_next_task
  \/ switch_task
  \/ after_task_switch
  \/ remove
  \/ start_initproc
  \/ add

UserStep == Yield \/ Exit \/ spawn

Next == KernelStep \/ UserStep \/ timer_interrupt_handler \/ Spinning

Spec == Init /\ [][Next]_vars

\* Kernel code runs on and interrupts arrive; a task may compute for ever.
KernelFairness == WF_vars(KernelStep) /\ WF_vars(timer_interrupt_handler)

KernelSpec == Spec /\ KernelFairness

-------------------------------------------------------------------------------
(* Properties.                                                             *)

Has(q, t)   == \E i \in 1..Len(q) : q[i] = t
NoRepeat(q) == \A i, j \in 1..Len(q) : q[i] = q[j] => i = j

Queued(t) == Has(queue, t)
Hung      == waiting # NoLock

\* The task that has the CPU: the next one, from the moment it leaves the queue.
running == IF pc = "target" THEN next ELSE cur

CoreTypeOK ==
  /\ pc \in {"boot", "loop", "hlt", "user", "switch", "target", "after",
             "remove", "entry", "add", "panic"}
  /\ waiting \in Locks \cup {NoLock}
  /\ held \subseteq Locks
  /\ cur \in Ids
  /\ sw \in [from : Ids \cup {NoTask}, to : Ids \cup {NoTask}]
  /\ next \in Ids \cup {NoTask}
  /\ cont \in Context
  /\ tasks \subseteq Ids
  /\ queue \in Seq(Ids)
  /\ nextPid \in 2 .. NInit + 3
  /\ state \in [Ids -> TaskState]
  /\ parent \in [Ids -> Ids \cup {NoTask}]
  /\ children \in [Ids -> Seq(Ids)]
  /\ saved \in [Ids -> Context]

StackTypeOK ==
  /\ base \in [Ids -> Ids]
  /\ frame \in [Ids -> BootTasks \cup {NoTask}]
  /\ ksp \in BootTasks \cup {NoTask}
  /\ usp \in BootTasks \cup {NoTask}

\* The types of the scheduler's state: pids stay within boot's and one more, and
\* only boot tasks enter the kernel by a system call.
TypeOK == CoreTypeOK /\ StackTypeOK

\* The lock discipline of the switch: outside the kernel and on entry to the
\* scheduler nothing is locked, and when switch_task runs the CPU holds the
\* locks of the two tasks of the switch and no other (context/mod.rs, "Here we
\* should hold no locks except for the from and to tasks").
LockDiscipline ==
  /\ pc \in {"boot", "loop", "hlt", "user", "switch", "entry"} => held = {}
  /\ pc = "target" => held = {cur}
  /\ pc = "after" => held = {sw.from, sw.to} /\ sw.from # sw.to /\ sw.to = cur

\* Of all the places that take a lock only two can hang the CPU, each on a lock
\* it holds itself: remove, on the dying task, and add, on the spawning task.
HangsOnlyOnOwnLock ==
  Hung => \/ pc = "remove" /\ waiting = sw.from /\ state[sw.from] = "Dying"
          \/ pc = "add" /\ waiting = cur /\ cur \in Spawners

\* Every registered User task is in exactly one place: it has the CPU, or it is
\* once in the run queue (a task being added is in neither yet).  Nothing else
\* is queued: not the idle task, not a Dying one, not an unregistered one.
OneHome ==
  /\ NoRepeat(queue)
  /\ \A t \in Ids : Queued(t) => t \in tasks /\ state[t] = "User"
  /\ ~ Queued(running)
  /\ \A t \in tasks : \/ state[t] # "User"
                      \/ t = running
                      \/ Queued(t)
                      \/ pc = "add" /\ t = next

\* A context is resumed at most once per save: every task a switch may go to
\* has a context that was saved (or prepared by create) and not yet resumed.
\* The registers below it are the task's own unless they lie on the one stack
\* TCD names: that of the last task to start, used by every system call since.
ContextsValid ==
  /\ \A t \in Ids : Queued(t) /\ t # cur => saved[t] \in {"entry", "switch"}
  /\ pc = "target" => saved[next] \in {"entry", "switch"}
  /\ pc = "after" => cont # "stale"
  /\ cur # InitTask => saved[InitTask] = "switch" /\ base[InitTask] = InitTask
  /\ \A t \in tasks \ {InitTask, cur} :
       saved[t] = "switch" /\ base[t] # ksp => base[t] = t /\ frame[t] = t

\* syscalls/mod.rs: a system call returns with the "old stack pointer", the one
\* its caller came with.
ReturnsOnOwnStack == pc = "user" => usp = cur

\* context/switch.rs: "putting a task on hold" keeps it as it is on its kernel
\* stack: a program that gets the CPU back finds its own registers there.
ResumesOwnFrame ==
  pc = "after" /\ cont = "switch" /\ cur # InitTask => frame[base[cur]] = cur

\* The expect() and unwrap() calls on the registry never fail.
NoPanic == pc # "panic"

\* The child lists and the parent fields agree: a registered task is in the
\* list of its parent, and whoever is in a list is registered, with that parent.
\* The one exception is the task an unfinished add or remove is about.
FamilyLinks ==
  /\ \A t \in tasks \ {InitTask} :
       (parent[t] \in Ids /\ Has(children[parent[t]], t)) \/ (pc = "add" /\ t = next)
  /\ \A p \in Ids : \A i \in 1..Len(children[p]) :
       LET c == children[p][i]
       IN  parent[c] = p /\ (c \in tasks \/ (pc = "remove" /\ c = sw.from))

\* Nobody overtakes in the run queue: a task that stays queued over a step is
\* afterwards ahead of every task that was not ahead of it before, newly queued
\* tasks included.
Ahead(q, a, b) == \E i, j \in 1..Len(q) : i < j /\ q[i] = a /\ q[j] = b
NoOvertaking ==
  [][\A a, b \in Ids :
       Queued(a) /\ Queued(a)' /\ Queued(b)' /\ a # b /\ ~ Ahead(queue, b, a)
         => Ahead(queue', a, b)]_vars

\* The refinement mapping: a Dying task is gone once it has lost the CPU.
retired == {t \in Ids : state[t] = "Dying" /\ t # running}

RR == INSTANCE RoundRobin WITH
        Task <- Ids \ {InitTask}, Idle <- InitTask,
        run <- running, ready <- queue, gone <- retired

\* The scheduler implements the round-robin scheduler.
ImplementsRoundRobin == RR!Spec

\* Only a program can starve the others: a queued task gets the CPU, unless an
\* Exit or a spawn hangs the CPU or the program that has it never calls the kernel,
\* against which timer_interrupt_handler does nothing.  Programs need not be fair.
OnlyProgramsStarve ==
  \A t \in Ids : Queued(t) ~> (running = t \/ Hung \/ [](pc = "user"))

\* task.rs: a Dying task "Will be killed after switching".
DyingIsKilled ==
  \A t \in Ids : state[t] = "Dying" ~> (t \notin tasks /\ ~ Hung)

===============================================================================
