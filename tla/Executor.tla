-------------------------------- MODULE Executor --------------------------------
(***************************************************************************)
(* The asynchronous executor (task/executor.rs) and the keyboard task it   *)
(* was made for (task/keyboard.rs).  task/mod.rs, which would declare both,*)
(* is commented out; the model is of the code as it stands, with the       *)
(* interrupt handler calling add_scancode as it is meant to.               *)
(*                                                                         *)
(* One CPU runs the executor; between any two of its steps an interrupt    *)
(* may come, unless interrupts are disabled.  A step of the executor makes *)
(* one operation on something it shares with the handlers.  ArrayQueue,    *)
(* AtomicWaker and the futures are external: a queue's operations and the  *)
(* waker's are atomic.  A future other than the keyboard's keeps to the    *)
(* contract of poll, to be pending only if it has arranged to be woken: it *)
(* is ready, or has woken itself, and may spawn.  One that breaks the      *)
(* contract sleeps for ever in any executor.                               *)
(***************************************************************************)
EXTENDS Integers, Sequences, SequencesExt

CONSTANTS
  Boot,       \* the tasks spawned before run_sync: 1 .. Boot
  NTasks,     \* the tasks there may be (a bound)
  QueueCap,   \* capacity of the task queue (128)
  SpawnCap,   \* capacity of the spawner's queue (32)
  CodeCap,    \* capacity of the scan code queue (128)
  MaxKeys     \* the scan codes the keyboard sends (a bound)

ASSUME ExecutorAssumption ==
  /\ {Boot, NTasks, QueueCap, SpawnCap, CodeCap, MaxKeys} \subseteq Nat \ {0}
  /\ Boot <= NTasks /\ Boot <= QueueCap

Keyboard == 1            \* the task that runs print_keypresses
Tasks    == 1 .. NTasks
NoTask   == 0

VARIABLES
  pc,          \* where the executor is
  cur,         \* the task being polled
  tasks,       \* Executor.tasks
  task_queue,  \* Executor.task_queue
  spawner,     \* Spawner.queue
  nextId,      \* NEXT_ID
  ready,       \* SCANCODE_QUEUE is initialised
  codes,       \* SCANCODE_QUEUE
  waker,       \* WAKER: the task to wake, or NoTask
  sent,        \* how many scan codes the keyboard has sent; they are numbered
  accepted,    \* the scan codes that got into the queue
  printed      \* the scan codes print_keypresses has handled

execVars == <<cur, tasks, task_queue, spawner, nextId>>
keyVars  == <<ready, codes, waker, sent, accepted, printed>>
vars     == <<pc, execVars, keyVars>>

Init ==
  /\ pc = "drain"
  /\ cur = NoTask
  /\ tasks = 1 .. Boot
  /\ task_queue = [i \in 1 .. Boot |-> i]
  /\ spawner = <<>>
  /\ nextId = Boot + 1
  /\ ready = FALSE
  /\ codes = <<>>
  /\ waker = NoTask
  /\ sent = 0
  /\ accepted = <<>>
  /\ printed = <<>>

-------------------------------------------------------------------------------
(* run_ready_tasks.  A "..._fault" is a broken form of the definition      *)
(* after it, used only to show that a property notices.                    *)

\* A push that the caller expects to succeed.
push_task(t) ==
  IF Len(task_queue) < QueueCap
  THEN task_queue' = Append(task_queue, t) /\ UNCHANGED pc
  ELSE pc' = "panic" /\ UNCHANGED task_queue

\* Executor::spawn of the spawner's oldest task.
spawn_fault ==                                             \* never queued
  tasks' = tasks \cup {Head(spawner)} /\ UNCHANGED <<pc, task_queue>>
spawn == tasks' = tasks \cup {Head(spawner)} /\ push_task(Head(spawner))

drain_spawner ==
  /\ pc = "drain" /\ spawner # <<>>
  /\ spawner' = Tail(spawner)
  /\ spawn
  /\ UNCHANGED <<cur, nextId, keyVars>>

spawner_empty ==
  /\ pc = "drain" /\ spawner = <<>>
  /\ pc' = "run"
  /\ UNCHANGED <<execVars, keyVars>>

\* The next task of the queue; a task that is gone is skipped.
next_task ==
  /\ pc = "run" /\ task_queue # <<>>
  /\ task_queue' = Tail(task_queue)
  /\ IF Head(task_queue) \notin tasks THEN UNCHANGED <<pc, cur>>
     ELSE /\ cur' = Head(task_queue)
          /\ pc' = IF cur' # Keyboard THEN "poll" ELSE IF ready THEN "fast" ELSE "new"
  /\ UNCHANGED <<tasks, spawner, nextId, keyVars>>

\* sleep_if_idle begins: interrupts::disable().
disable ==
  /\ pc = "run" /\ task_queue = <<>>
  /\ pc' = "check"
  /\ UNCHANGED <<execVars, keyVars>>

\* Go on with interrupts enabled, or halt in the same instruction.
sleep_if_idle ==
  /\ pc = "check"
  /\ pc' = IF task_queue = <<>> THEN "enable_and_hlt" ELSE "drain"
  /\ UNCHANGED <<execVars, keyVars>>

enable_and_hlt ==
  /\ pc = "enable_and_hlt"
  /\ pc' = "hlt"
  /\ UNCHANGED <<execVars, keyVars>>

-------------------------------------------------------------------------------
(* Polling a task other than the keyboard's.                               *)

poll_ready ==
  /\ pc = "poll"
  /\ tasks' = tasks \ {cur}
  /\ cur' = NoTask
  /\ pc' = "run"
  /\ UNCHANGED <<task_queue, spawner, nextId, keyVars>>

\* It wakes itself and is pending.
poll_yield ==
  /\ pc = "poll"
  /\ IF Len(task_queue) < QueueCap
     THEN task_queue' = Append(task_queue, cur) /\ pc' = "run" /\ cur' = NoTask
     ELSE pc' = "panic" /\ UNCHANGED <<task_queue, cur>>
  /\ UNCHANGED <<tasks, spawner, nextId, keyVars>>

\* Spawner::spawn from inside a task.
poll_spawn ==
  /\ pc = "poll" /\ nextId <= NTasks
  /\ nextId' = nextId + 1
  /\ IF Len(spawner) < SpawnCap
     THEN spawner' = Append(spawner, nextId) /\ UNCHANGED pc
     ELSE pc' = "panic" /\ UNCHANGED spawner
  /\ UNCHANGED <<cur, tasks, task_queue, keyVars>>

-------------------------------------------------------------------------------
(* Polling print_keypresses: it takes scan codes until there are none.     *)

\* ScancodeStream::new, at the first poll.
new ==
  /\ pc = "new"
  /\ ready' = TRUE
  /\ pc' = "fast"
  /\ UNCHANGED <<execVars, codes, waker, sent, accepted, printed>>

\* A scan code is there: print it and ask for the next one.
fast_path ==
  /\ pc = "fast" /\ codes # <<>>
  /\ printed' = Append(printed, Head(codes))
  /\ codes' = Tail(codes)
  /\ UNCHANGED <<pc, execVars, ready, waker, sent, accepted>>

no_code ==
  /\ pc = "fast" /\ codes = <<>>
  /\ pc' = "register"
  /\ UNCHANGED <<execVars, keyVars>>

Pending == pc' = "run" /\ cur' = NoTask

register ==
  /\ pc = "register"
  /\ waker' = cur
  /\ pc' = "again"
  /\ UNCHANGED <<execVars, ready, codes, sent, accepted, printed>>

\* The second look at the queue, now that whoever fills it will wake the task.
pop_again_fault ==                                         \* no second look
  Pending /\ UNCHANGED <<codes, printed>>
pop_again ==
  IF codes = <<>> THEN Pending /\ UNCHANGED <<codes, printed>>
  ELSE /\ printed' = Append(printed, Head(codes))
       /\ codes' = Tail(codes)
       /\ pc' = "take"
       /\ UNCHANGED cur

poll_again ==
  /\ pc = "again"
  /\ pop_again
  /\ UNCHANGED <<tasks, task_queue, spawner, nextId, ready, waker, sent, accepted>>

take ==
  /\ pc = "take"
  /\ waker' = NoTask
  /\ pc' = "fast"
  /\ UNCHANGED <<execVars, ready, codes, sent, accepted, printed>>

-------------------------------------------------------------------------------
(* Interrupts.                                                             *)

\* Between interrupts::disable() and the hlt (or enable()) there are none.
interrupts_enabled_fault == pc # "panic"
interrupts_enabled == pc \notin {"check", "enable_and_hlt", "panic"}

\* hlt ends with the handler, and run_sync begins its next turn.
Resume == IF pc = "hlt" THEN "drain" ELSE pc

\* WAKER.wake(): whoever is registered goes to the task queue, once.
wake ==
  IF waker = NoTask THEN pc' = Resume /\ UNCHANGED <<waker, task_queue>>
  ELSE /\ waker' = NoTask
       /\ IF Len(task_queue) < QueueCap
          THEN task_queue' = Append(task_queue, waker) /\ pc' = Resume
          ELSE pc' = "panic" /\ UNCHANGED task_queue

\* The keyboard sends its next scan code; it is lost if there is no room for it.
add_scancode ==
  /\ interrupts_enabled /\ sent < MaxKeys
  /\ sent' = sent + 1
  /\ IF ready /\ Len(codes) < CodeCap
     THEN /\ codes' = Append(codes, sent')
          /\ accepted' = Append(accepted, sent')
          /\ wake
     ELSE pc' = Resume /\ UNCHANGED <<codes, accepted, waker, task_queue>>
  /\ UNCHANGED <<cur, tasks, spawner, nextId, ready, printed>>

\* The timer's handler changes nothing; it matters when it ends a hlt.
timer ==
  /\ interrupts_enabled /\ pc = "hlt"
  /\ pc' = Resume
  /\ UNCHANGED <<execVars, keyVars>>

\* A panic ends in hlt_loop.
Panicked == pc = "panic" /\ UNCHANGED vars

-------------------------------------------------------------------------------
ExecutorStep ==
  \/ drain_spawner \/ spawner_empty
  \/ next_task
  \/ disable \/ sleep_if_idle \/ enable_and_hlt
  \/ poll_ready \/ poll_yield \/ poll_spawn
  \/ new \/ fast_path \/ no_code \/ register \/ poll_again \/ take

Next == ExecutorStep \/ add_scancode \/ timer \/ Panicked

\* The executor runs on, the timer ticks, and a task does not yield for ever (the
\* inner loop of run_ready_tasks would not end and the spawner would not be served).
Fairness == WF_vars(ExecutorStep) /\ WF_vars(timer) /\ SF_vars(poll_ready)

Spec == Init /\ [][Next]_vars /\ Fairness

-------------------------------------------------------------------------------
(* Properties.                                                             *)

Queued(t) == Contains(task_queue, t)

\* No wake-up is lost: a task of the executor is queued, is being polled, or is the
\* keyboard's, registered with the waker while there is nothing for it to take.
NoTaskForgotten ==
  pc # "panic" =>
    \A t \in tasks : \/ Queued(t)
                     \/ t = cur
                     \/ t = Keyboard /\ waker = Keyboard /\ codes = <<>>

\* The CPU halts only when no task is queued and no accepted scan code waits for the
\* keyboard task; no interrupt slips between the check and the hlt.  (A task may wait
\* in the spawner, which sleep_if_idle does not look at: EventuallyServed.)
SleepsOnlyWhenIdle == pc = "hlt" => task_queue = <<>> /\ codes = <<>>

\* Every scan code that got into the queue is printed, in the order of arrival; and
\* every task given to the spawner is polled, if not before then after a timer tick.
EventuallyServed ==
  /\ \A k \in 1 .. MaxKeys :
       Contains(accepted, k) ~> (pc = "panic" \/ (Contains(printed, k) /\ IsPrefix(printed, accepted)))
  /\ \A t \in Tasks : Contains(spawner, t) ~> (pc = "panic" \/ cur = t)

===============================================================================
