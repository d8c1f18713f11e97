--------------------------- MODULE SchedulerProofs ---------------------------
(***************************************************************************)
(* Proofs about Scheduler for every number of boot tasks and every set of  *)
(* spawners.                                                               *)
(***************************************************************************)
EXTENDS Scheduler, TLAPS

\* What is locked at every point of the kernel, including the two where it hangs.
LocksAt ==
  /\ pc \in {"boot", "loop", "hlt", "user", "switch", "entry"} => held = {}
  /\ pc = "target" => held = {cur}
  /\ pc = "after" => held = {sw.from, sw.to}
  /\ pc = "remove" => held = {TASKS, sw.from, sw.to}
  /\ pc = "add" => held = {TASKS, cur}
  /\ pc \in {"after", "remove"} => sw.from # sw.to /\ sw.to = cur /\ sw.from \in Ids

\* Which task may be current, and which Dying, at every point of the kernel.
TasksAt ==
  /\ pc # "panic"
  /\ cur \in tasks
  /\ InitTask \in tasks
  /\ state[InitTask] = "Sleepy"
  /\ \A t \in Ids \ {InitTask} : state[t] # "Sleepy"
  /\ \A t \in Ids : state[t] = "Dying" =>
       \/ pc \in {"switch", "target"} /\ t = cur
       \/ pc \in {"after", "remove"} /\ t = sw.from
  /\ pc \in {"boot", "loop", "hlt"} => cur = InitTask
  /\ pc \in {"user", "entry", "add"} => cur # InitTask
  /\ pc = "add" => cur \in Spawners
  /\ pc = "target" => next \in tasks /\ next # cur /\ state[next] # "Dying"
  /\ pc = "remove" => state[sw.from] = "Dying"

\* Pids are handed out once each.
PidsFresh ==
  /\ \A t \in tasks : t < nextPid
  /\ pc = "boot" => nextPid <= NInit + 2
  /\ pc \notin {"boot", "add"} => nextPid = NInit + 2
  /\ pc = "add" => /\ nextPid = NInit + 3
                   /\ next = NInit + 2
                   /\ parent[next] = cur
                   /\ state[next] = "User" /\ saved[next] = "entry"
                   /\ waiting = NoLock => next \notin tasks

\* Every task but the current one can be resumed, and the idle task is never
\* resumed into an entry function.
Resumable ==
  /\ \A t \in tasks \ {cur} : saved[t] \in {"entry", "switch"}
  /\ saved[InitTask] # "entry"
  /\ pc \in {"after", "remove"} => cont # "stale" /\ (cont = "entry" => cur # InitTask)

IInv ==
  /\ CoreTypeOK
  /\ LocksAt
  /\ HangsOnlyOnOwnLock
  /\ TasksAt
  /\ PidsFresh
  /\ OneHome
  /\ Resumable
  /\ FamilyLinks

-------------------------------------------------------------------------------
(* The record TCD and the frames on the kernel stacks.                     *)

\* A boot task still waits for its first turn, or is just getting it.
Unstarted ==
  \/ \E t \in Ids : Queued(t) /\ saved[t] = "entry"
  \/ pc = "target" /\ saved[next] = "entry"
  \/ pc \in {"after", "remove"} /\ cont = "entry"
  \/ pc = "entry"

\* The tasks that have not started are ahead of those that have, so nobody gets
\* a second turn before everybody had a first one.
FirstRound ==
  /\ saved[cur] = "stale"
  /\ pc = "boot" => \A t \in tasks \ {InitTask} : saved[t] = "entry"
  /\ \A i, j \in 1..Len(queue) :
       i < j /\ saved[queue[j]] = "entry" => saved[queue[i]] = "entry"
  /\ pc = "target" /\ saved[next] = "switch" => \A t \in Ids : Queued(t) => saved[t] # "entry"
  /\ pc \in {"after", "remove"} /\ cont = "switch"
       => \A t \in Ids : Queued(t) => saved[t] # "entry"

\* Only boot tasks and the idle task get the CPU.
Runners ==
  /\ cur \in BootTasks \cup {InitTask}
  /\ pc = "target" => next \in BootTasks \cup {InitTask}
  /\ \A t \in Ids : Queued(t) => t \in BootTasks

\* Whose frames lie where.  During the first round every stack is used by its
\* own task; afterwards TCD names one stack for good.
StacksAt ==
  /\ base[InitTask] = InitTask
  /\ \A t \in tasks \ {InitTask, cur} : saved[t] = "switch" =>
       /\ ksp # NoTask
       /\ frame[base[t]] # NoTask
       /\ base[t] # ksp => base[t] = t /\ frame[t] = t
       /\ Unstarted => base[t] = t /\ frame[t] = t
  /\ pc = "user" \/ (pc \in {"switch", "target"} /\ cur # InitTask) =>
       /\ ksp # NoTask
       /\ Unstarted => ksp = cur
       /\ usp # NoTask
  /\ pc \in {"switch", "target"} /\ cur # InitTask => frame[ksp] = cur
  /\ pc \in {"after", "remove"} /\ cont = "switch" /\ cur # InitTask =>
       /\ ksp # NoTask
       /\ base[cur] \in {cur, ksp}
       /\ frame[base[cur]] # NoTask
  /\ ksp # NoTask => usp # NoTask

SInv ==
  /\ StackTypeOK
  /\ FirstRound
  /\ Runners
  /\ StacksAt

-------------------------------------------------------------------------------
(* Facts about queues.                                                     *)

\* Appending an absent task keeps a queue free of repeats and adds that task only
\* (what queue_for_execution and the requeue do).
LEMMA AppendFacts ==
  ASSUME NEW S, NEW q \in Seq(S), NEW x \in S
  PROVE  /\ Append(q, x) \in Seq(S)
         /\ Append(q, x) # <<>>
         /\ \A t : Has(Append(q, x), t) <=> Has(q, t) \/ t = x
         /\ NoRepeat(q) /\ ~ Has(q, x) => NoRepeat(Append(q, x))
  <1> DEFINE a == Append(q, x)
  <1>1. /\ a \in Seq(S)
        /\ Len(a) = Len(q) + 1
        /\ Len(q) \in Nat
        /\ \A i \in 1..Len(q) : a[i] = q[i]
        /\ a[Len(q) + 1] = x
    OBVIOUS
  <1>2. a # <<>>
    BY <1>1
  <1>3. ASSUME NEW t PROVE Has(a, t) <=> Has(q, t) \/ t = x
    <2>1. Has(a, t) => Has(q, t) \/ t = x
      BY <1>1 DEF Has
    <2>2. Has(q, t) => Has(a, t)
      BY <1>1 DEF Has
    <2>3. t = x => Has(a, t)
      BY <1>1 DEF Has
    <2> QED BY <2>1, <2>2, <2>3
  <1>4. ASSUME NoRepeat(q), ~ Has(q, x) PROVE NoRepeat(a)
    BY <1>1, <1>4 DEF Has, NoRepeat
  <1> QED BY <1>1, <1>2, <1>3, <1>4

\* Taking the head of a repeat-free queue removes that task only (pop_front).
LEMMA TailFacts ==
  ASSUME NEW S, NEW q \in Seq(S), q # <<>>
  PROVE  /\ Tail(q) \in Seq(S)
         /\ Head(q) \in S
         /\ Has(q, Head(q))
         /\ NoRepeat(q) => /\ NoRepeat(Tail(q))
                           /\ \A t : Has(Tail(q), t) <=> Has(q, t) /\ t # Head(q)
  <1> DEFINE r == Tail(q)
  <1>1. /\ r \in Seq(S)
        /\ Len(q) \in Nat /\ Len(q) > 0
        /\ Len(r) = Len(q) - 1
        /\ \A i \in 1..Len(r) : r[i] = q[i + 1]
        /\ Head(q) = q[1]
        /\ Head(q) \in S
    OBVIOUS
  <1>2. Has(q, Head(q))
    BY <1>1 DEF Has
  <1>3. ASSUME NoRepeat(q) PROVE NoRepeat(r)
    BY <1>1, <1>3 DEF NoRepeat
  <1>4. ASSUME NoRepeat(q), NEW t PROVE Has(r, t) <=> Has(q, t) /\ t # Head(q)
    <2>1. Has(r, t) => Has(q, t) /\ t # Head(q)
      BY <1>1, <1>4 DEF Has, NoRepeat
    <2>2. ASSUME Has(q, t), t # Head(q) PROVE Has(r, t)
      <3>1. PICK i \in 1..Len(q) : q[i] = t
        BY <2>2 DEF Has
      <3>2. i - 1 \in 1..Len(r) /\ r[i - 1] = t
        BY <1>1, <2>2, <3>1
      <3> QED BY <3>2 DEF Has
    <2> QED BY <2>1, <2>2
  <1> QED BY <1>1, <1>2, <1>3, <1>4

\* The empty queue holds nobody.
LEMMA EmptyFacts == NoRepeat(<<>>) /\ \A t : ~ Has(<<>>, t)
  BY DEF NoRepeat, Has

\* The queue switch_to_next_task works on, and what is left once a task is taken.
LEMMA RequeueFacts ==
  ASSUME IInv
  PROVE  /\ requeue \in Seq(Ids)
         /\ NoRepeat(requeue) \/ pc = "target"
         /\ \A t : Has(requeue, t) <=> Queued(t) \/ (t = cur /\ state[cur] = "User")
  <1>1. CASE state[cur] = "User"
    <2>1. requeue = Append(queue, cur) /\ queue \in Seq(Ids) /\ cur \in Ids
      BY <1>1 DEF requeue, IInv, CoreTypeOK
    <2>2. pc # "target" => NoRepeat(queue) /\ ~ Has(queue, cur)
      BY DEF IInv, OneHome, running, Queued
    <2> QED BY <1>1, <2>1, <2>2, AppendFacts DEF Queued
  <1>2. CASE state[cur] # "User"
    BY <1>2 DEF requeue, IInv, CoreTypeOK, OneHome, Queued
  <1> QED BY <1>1, <1>2

-------------------------------------------------------------------------------
(* The invariant holds initially and every step preserves it.              *)

\* The state run_executor starts from satisfies the invariant.
LEMMA InitInvariant == Init => IInv
  <1> SUFFICES ASSUME Init PROVE IInv
    OBVIOUS
  <1> USE BootAssumption DEF Init, InitTask, Ids, NoTask, TASKS, Locks, NoLock, NoSwitch
  <1>1. CoreTypeOK
    BY DEF CoreTypeOK, Context, TaskState
  <1>2. LocksAt /\ HangsOnlyOnOwnLock /\ TasksAt /\ PidsFresh
    BY DEF LocksAt, HangsOnlyOnOwnLock, Hung, TasksAt, PidsFresh
  <1>3. OneHome
    BY EmptyFacts DEF OneHome, Queued, running
  <1>4. Resumable /\ FamilyLinks
    BY EmptyFacts DEF Resumable, FamilyLinks
  <1> QED BY <1>1, <1>2, <1>3, <1>4 DEF IInv

\* A step that only moves the CPU from one lock-free point to another.
LEMMA MovePreserves ==
  ASSUME IInv, waiting = NoLock, UNCHANGED <<waiting, held, cpuVars, regVars, taskVars>>,
         \/ pc = "boot" /\ nextPid = NInit + 2 /\ pc' = "switch"
         \/ pc = "loop" /\ pc' = "switch"
         \/ pc = "hlt" /\ pc' = "loop"
         \/ pc = "user" /\ pc' \in {"switch", "user"}
         \/ pc = "entry" /\ pc' = "user"
  PROVE  IInv'
  <1> USE DEF IInv, cpuVars, regVars, taskVars
  <1>1. CoreTypeOK'
    BY DEF CoreTypeOK
  <1>2. LocksAt' /\ HangsOnlyOnOwnLock'
    BY DEF LocksAt, HangsOnlyOnOwnLock, Hung
  <1>3. TasksAt'
    BY DEF TasksAt
  <1>4. PidsFresh'
    BY DEF PidsFresh
  <1>5. OneHome'
    BY DEF OneHome, Queued, running
  <1>6. Resumable'
    BY DEF Resumable
  <1>7. FamilyLinks'
    BY DEF FamilyLinks
  <1> QED BY <1>1, <1>2, <1>3, <1>4, <1>5, <1>6, <1>7

\* Creating and queueing a boot task preserves the invariant.
LEMMA BootPreserves ==
  ASSUME IInv, boot_task
  PROVE  IInv'
  <1> USE DEF IInv, cpuVars
  <1>1. /\ pc = "boot" /\ pc' = "boot" /\ held = {} /\ cur = InitTask
        /\ nextPid \in Ids /\ nextPid >= 2 /\ nextPid < NInit + 2 /\ nextPid \notin tasks
        /\ UNCHANGED <<waiting, held, cur, sw, next, cont>>
        /\ waiting = NoLock
        /\ nextPid' = nextPid + 1
        /\ state' = [state EXCEPT ![nextPid] = "User"]
        /\ parent' = [parent EXCEPT ![nextPid] = InitTask]
        /\ saved' = [saved EXCEPT ![nextPid] = "entry"]
        /\ tasks' = tasks \cup {nextPid}
        /\ children' = [children EXCEPT ![InitTask] = Append(@, nextPid)]
        /\ queue' = Append(queue, nextPid)
    BY BootAssumption DEF boot_task, At, create, allocate_pid, insert, push_child,
       LocksAt, TasksAt, PidsFresh, CoreTypeOK, Ids
  <1>2. InitTask \in Ids /\ InitTask # nextPid
    BY <1>1, BootAssumption DEF InitTask, Ids
  <1>3. /\ queue' \in Seq(Ids)
        /\ \A t : Has(queue', t) <=> Has(queue, t) \/ t = nextPid
        /\ ~ Has(queue, nextPid)
        /\ NoRepeat(queue')
    <2>1. queue \in Seq(Ids) /\ NoRepeat(queue) /\ ~ Has(queue, nextPid)
      BY <1>1 DEF OneHome, Queued, CoreTypeOK
    <2> QED BY <1>1, <2>1, AppendFacts
  <1>4. CoreTypeOK'
    BY <1>1, <1>2, <1>3, BootAssumption DEF CoreTypeOK, Ids, Context, TaskState
  <1>5. LocksAt' /\ HangsOnlyOnOwnLock'
    BY <1>1 DEF LocksAt, HangsOnlyOnOwnLock, Hung
  <1>6. TasksAt'
    BY <1>1, <1>2 DEF TasksAt, CoreTypeOK
  <1>7. PidsFresh'
    BY <1>1, BootAssumption DEF PidsFresh, CoreTypeOK, Ids
  <1>8. OneHome'
    BY <1>1, <1>2, <1>3 DEF OneHome, Queued, running, CoreTypeOK, TasksAt
  <1>9. Resumable'
    BY <1>1, <1>2 DEF Resumable, CoreTypeOK
  <1>10. FamilyLinks'
    <2>1. children[InitTask] \in Seq(Ids)
      BY <1>2 DEF CoreTypeOK
    <2>2. \A t : Has(children'[InitTask], t) <=> Has(children[InitTask], t) \/ t = nextPid
      BY <1>1, <1>2, <2>1, AppendFacts DEF CoreTypeOK
    <2>3. \A p \in Ids \ {InitTask} : children'[p] = children[p]
      BY <1>1 DEF CoreTypeOK
    <2>4. \A p, c \in Ids : Has(children[p], c) => parent[c] = p /\ c \in tasks
      BY <1>1 DEF FamilyLinks, Has, CoreTypeOK
    <2>5. \A p \in Ids : \A i \in 1..Len(children'[p]) : children'[p][i] \in Ids
      BY <1>4 DEF CoreTypeOK
    <2>6. \A p, c \in Ids : Has(children'[p], c) => parent'[c] = p /\ c \in tasks'
      BY <1>1, <1>2, <2>2, <2>3, <2>4 DEF CoreTypeOK
    <2>7. \A t \in tasks' \ {InitTask} : parent'[t] \in Ids /\ Has(children'[parent'[t]], t)
      BY <1>1, <1>2, <2>2, <2>3 DEF FamilyLinks, CoreTypeOK
    <2>8. \A p \in Ids : \A i \in 1..Len(children'[p]) :
            parent'[children'[p][i]] = p /\ children'[p][i] \in tasks'
      BY <2>5, <2>6 DEF Has
    <2> QED BY <2>7, <2>8 DEF FamilyLinks
  <1> QED BY <1>4, <1>5, <1>6, <1>7, <1>8, <1>9, <1>10

\* So does the first half of the switch: requeueing, and choosing the next task.
LEMMA SwitchToNextPreserves ==
  ASSUME IInv, switch_to_next_task
  PROVE  IInv'
  <1> DEFINE to    == IF requeue = <<>> THEN InitTask ELSE Head(requeue)
             later == IF requeue = <<>> THEN <<>> ELSE Tail(requeue)
  <1>1. pc = "switch" /\ waiting = NoLock /\ held = {} /\ cur \in tasks /\ cur \in Ids
    BY DEF switch_to_next_task, At, IInv, LocksAt, TasksAt, CoreTypeOK
  <1>2. /\ requeue \in Seq(Ids)
        /\ NoRepeat(requeue)
        /\ \A t : Has(requeue, t) <=> Queued(t) \/ (t = cur /\ state[cur] = "User")
    BY <1>1, RequeueFacts
  <1>3. /\ later \in Seq(Ids)
        /\ NoRepeat(later)
        /\ \A t : Has(later, t) <=> Has(requeue, t) /\ t # to
        /\ to = InitTask \/ Has(requeue, to)
        /\ to \in Ids
    <2>1. CASE requeue = <<>>
      BY <2>1, <1>2, EmptyFacts, BootAssumption DEF InitTask, Ids
    <2>2. CASE requeue # <<>>
      BY <2>2, <1>2, TailFacts
    <2> QED BY <2>1, <2>2
  <1>4. \A t : Queued(t) => t \in tasks /\ state[t] = "User" /\ t # InitTask
    <2>1. \A t : Queued(t) => t \in Ids
      BY DEF Queued, Has, IInv, CoreTypeOK
    <2> QED BY <2>1 DEF IInv, OneHome, TasksAt
  <1>5. to \in tasks /\ (to # InitTask => state[to] = "User")
    BY <1>1, <1>2, <1>3, <1>4 DEF IInv, TasksAt
  <1>6. CASE to = cur
    <2>1. /\ queue' = later
          /\ pc' = IF cur = InitTask THEN "hlt" ELSE "user"
          /\ UNCHANGED <<waiting, held, cpuVars, tasks, nextPid, taskVars>>
      BY <1>1, <1>6 DEF switch_to_next_task, Return, TASKS
    <2>2. cur # InitTask => state[cur] = "User"
      BY <1>5, <1>6
    <2>3. \A t : Has(queue', t) <=> Queued(t)
      BY <1>2, <1>3, <1>6, <2>1, <1>1 DEF IInv, OneHome, running
    <2> USE DEF IInv, cpuVars, taskVars
    <2>4. CoreTypeOK'
      BY <2>1, <1>3 DEF CoreTypeOK
    <2>5. LocksAt' /\ HangsOnlyOnOwnLock'
      BY <2>1, <1>1 DEF LocksAt, HangsOnlyOnOwnLock, Hung
    <2>6. TasksAt'
      BY <2>1, <2>2, <1>1 DEF TasksAt
    <2>7. PidsFresh'
      BY <2>1, <1>1 DEF PidsFresh
    <2>8. OneHome'
      BY <2>1, <2>3, <1>1, <1>3 DEF OneHome, Queued, running
    <2>9. Resumable' /\ FamilyLinks'
      BY <2>1, <1>1 DEF Resumable, FamilyLinks
    <2> QED BY <2>4, <2>5, <2>6, <2>7, <2>8, <2>9
  <1>7. CASE to # cur
    <2>1. /\ queue' = later
          /\ next' = to
          /\ held' = {cur}
          /\ pc' = "target"
          /\ UNCHANGED <<waiting, cur, sw, cont, tasks, nextPid, taskVars>>
      BY <1>1, <1>5, <1>7 DEF switch_to_next_task, leak_from, TASKS
    <2> USE DEF IInv, taskVars
    <2>2. CoreTypeOK'
      BY <2>1, <1>1, <1>3 DEF CoreTypeOK, Locks
    <2>3. LocksAt' /\ HangsOnlyOnOwnLock'
      BY <2>1, <1>1 DEF LocksAt, HangsOnlyOnOwnLock, Hung
    <2>4. TasksAt'
      BY <2>1, <1>1, <1>5, <1>7 DEF TasksAt
    <2>5. PidsFresh'
      BY <2>1, <1>1 DEF PidsFresh
    <2>6. OneHome'
      BY <2>1, <1>1, <1>2, <1>3, <1>4, <1>5 DEF OneHome, Queued, running
    <2>7. Resumable' /\ FamilyLinks'
      BY <2>1, <1>1 DEF Resumable, FamilyLinks
    <2> QED BY <2>2, <2>3, <2>4, <2>5, <2>6, <2>7
  <1> QED BY <1>6, <1>7

\* So does the second half: locking the target and exchanging the registers.
LEMMA SwitchTaskPreserves ==
  ASSUME IInv, switch_task
  PROVE  IInv'
  <1> USE DEF IInv
  <1>1. /\ pc = "target" /\ waiting = NoLock /\ held = {cur} /\ next # cur
        /\ cur \in tasks /\ next \in tasks /\ cur \in Ids /\ next \in Ids
    BY DEF switch_task, At, LocksAt, TasksAt, CoreTypeOK
  <1>2. /\ held' = {cur, next}
        /\ cur' = next
        /\ sw' = [from |-> cur, to |-> next]
        /\ saved' = [saved EXCEPT ![cur] = "switch", ![next] = "stale"]
        /\ cont' = saved[next]
        /\ pc' = "after"
        /\ UNCHANGED <<waiting, next, tasks, queue, nextPid, state, parent, children>>
    BY <1>1 DEF switch_task, exchange, regVars
  <1>3. CoreTypeOK'
    BY <1>1, <1>2 DEF CoreTypeOK, Context, Locks
  <1>4. LocksAt' /\ HangsOnlyOnOwnLock'
    BY <1>1, <1>2 DEF LocksAt, HangsOnlyOnOwnLock, Hung
  <1>5. TasksAt'
    BY <1>1, <1>2 DEF TasksAt
  <1>6. PidsFresh'
    BY <1>1, <1>2 DEF PidsFresh
  <1>7. OneHome'
    BY <1>1, <1>2 DEF OneHome, Queued, running
  <1>8. Resumable'
    BY <1>1, <1>2 DEF Resumable, CoreTypeOK, TasksAt
  <1>9. FamilyLinks'
    BY <1>1, <1>2 DEF FamilyLinks
  <1> QED BY <1>3, <1>4, <1>5, <1>6, <1>7, <1>8, <1>9

\* So does after_task_switch, which unlocks the pair or starts to unregister a
\* Dying task.
LEMMA AfterPreserves ==
  ASSUME IInv, after_task_switch
  PROVE  IInv'
  <1> USE DEF IInv
  <1>1. /\ pc = "after" /\ waiting = NoLock /\ held = {sw.from, sw.to}
        /\ sw.from # cur /\ sw.to = cur /\ sw.from \in Ids /\ cur \in Ids /\ cur \in tasks
        /\ TASKS \notin held
    <2>1. TASKS \notin Ids
      BY BootAssumption DEF Ids, TASKS
    <2> QED BY <2>1 DEF after_task_switch, At, LocksAt, TasksAt, CoreTypeOK
  <1>2. CASE state[sw.from] = "Dying"
    <2>1. /\ held' = {TASKS, sw.from, sw.to}
          /\ tasks' = tasks \ {sw.from}
          /\ pc' = "remove"
          /\ UNCHANGED <<waiting, cpuVars, queue, nextPid, taskVars>>
      BY <1>1, <1>2 DEF after_task_switch
    <2> USE DEF cpuVars, taskVars
    <2>2. CoreTypeOK'
      BY <1>1, <2>1 DEF CoreTypeOK, Locks
    <2>3. LocksAt' /\ HangsOnlyOnOwnLock'
      BY <1>1, <2>1 DEF LocksAt, HangsOnlyOnOwnLock, Hung
    <2>4. TasksAt'
      BY <1>1, <1>2, <2>1 DEF TasksAt
    <2>5. PidsFresh'
      BY <1>1, <2>1 DEF PidsFresh
    <2>6. OneHome'
      BY <1>1, <1>2, <2>1 DEF OneHome, Queued, running
    <2>7. Resumable'
      BY <1>1, <2>1 DEF Resumable
    <2>8. FamilyLinks'
      BY <1>1, <2>1 DEF FamilyLinks
    <2> QED BY <2>2, <2>3, <2>4, <2>5, <2>6, <2>7, <2>8
  <1>3. CASE state[sw.from] # "Dying"
    <2>1. /\ held' = {}
          /\ sw' = NoSwitch
          /\ pc' = IF cont = "entry" THEN "entry" ELSE IF cur = InitTask THEN "loop" ELSE "user"
          /\ UNCHANGED <<waiting, cur, next, cont, tasks, queue, nextPid, state, parent, children, saved>>
      BY <1>1, <1>3 DEF after_task_switch, Unlock, unlock_pair, Return, regVars, taskVars
    <2>2. CoreTypeOK'
      BY <1>1, <2>1 DEF CoreTypeOK, Locks, NoSwitch
    <2>3. LocksAt' /\ HangsOnlyOnOwnLock'
      BY <1>1, <2>1 DEF LocksAt, HangsOnlyOnOwnLock, Hung
    <2>4. TasksAt'
      BY <1>1, <1>3, <2>1 DEF TasksAt, Resumable
    <2>5. PidsFresh'
      BY <1>1, <2>1 DEF PidsFresh
    <2>6. OneHome'
      BY <1>1, <2>1 DEF OneHome, Queued, running
    <2>7. Resumable'
      BY <1>1, <2>1 DEF Resumable
    <2>8. FamilyLinks'
      BY <1>1, <2>1 DEF FamilyLinks
    <2> QED BY <2>2, <2>3, <2>4, <2>5, <2>6, <2>7, <2>8
  <1> QED BY <1>2, <1>3

\* remove always spins on the dying task, whose lock the switch still holds.
LEMMA RemovePreserves ==
  ASSUME IInv, remove
  PROVE  IInv'
  <1> USE DEF IInv
  <1>1. /\ pc = "remove" /\ waiting = NoLock /\ sw.from \in held /\ sw.from \in Ids
        /\ state[sw.from] = "Dying"
    BY DEF remove, At, LocksAt, TasksAt
  <1>2. /\ waiting' = sw.from
        /\ UNCHANGED <<pc, held, cur, sw, next, cont, tasks, queue, nextPid,
                       state, parent, children, saved>>
    BY <1>1 DEF remove, Spin, cpuVars, regVars, taskVars
  <1>3. CoreTypeOK'
    BY <1>1, <1>2 DEF CoreTypeOK, Locks
  <1>4. LocksAt' /\ HangsOnlyOnOwnLock' /\ TasksAt'
    BY <1>1, <1>2 DEF LocksAt, HangsOnlyOnOwnLock, TasksAt
  <1>5. PidsFresh'
    BY <1>1, <1>2 DEF PidsFresh
  <1>6. OneHome'
    BY <1>2 DEF OneHome, Queued, running
  <1>7. Resumable' /\ FamilyLinks'
    BY <1>2 DEF Resumable, FamilyLinks
  <1> QED BY <1>3, <1>4, <1>5, <1>6, <1>7

\* So does Exit, which marks the running task Dying.
LEMMA ExitPreserves ==
  ASSUME IInv, Exit
  PROVE  IInv'
  <1> USE DEF IInv
  <1>1. /\ pc = "user" /\ waiting = NoLock /\ held = {} /\ cur \in tasks /\ cur \in Ids
        /\ cur # InitTask /\ state[cur] = "User"
    BY DEF Exit, At, LocksAt, TasksAt, CoreTypeOK, TaskState
  <1>2. /\ state' = [state EXCEPT ![cur] = "Dying"]
        /\ pc' = "switch"
        /\ UNCHANGED <<waiting, held, cur, sw, next, cont, tasks, queue, nextPid,
                       parent, children, saved>>
    BY <1>1 DEF Exit, WithCurrentTask, TASKS, cpuVars, regVars
  <1>3. CoreTypeOK'
    BY <1>1, <1>2 DEF CoreTypeOK, TaskState
  <1>4. LocksAt' /\ HangsOnlyOnOwnLock'
    BY <1>1, <1>2 DEF LocksAt, HangsOnlyOnOwnLock, Hung
  <1>5. TasksAt'
    BY <1>1, <1>2 DEF TasksAt, CoreTypeOK
  <1>6. PidsFresh'
    BY <1>1, <1>2 DEF PidsFresh
  <1>7. OneHome'
    BY <1>1, <1>2 DEF OneHome, Queued, running, CoreTypeOK
  <1>8. Resumable' /\ FamilyLinks'
    BY <1>1, <1>2 DEF Resumable, FamilyLinks
  <1> QED BY <1>3, <1>4, <1>5, <1>6, <1>7, <1>8

\* So does spawn, up to its call of TaskRegistry::add.
LEMMA SpawnPreserves ==
  ASSUME IInv, spawn
  PROVE  IInv'
  <1> USE DEF IInv
  <1>1. /\ pc = "user" /\ waiting = NoLock /\ held = {} /\ cur \in tasks /\ cur \in Ids
        /\ cur # InitTask /\ nextPid = NInit + 2 /\ nextPid \in Ids /\ nextPid \notin tasks
    BY BootAssumption DEF spawn, At, LocksAt, TasksAt, CoreTypeOK, PidsFresh, Ids
  <1>2. CASE cur \notin Spawners
    <2>1. UNCHANGED coreVars
      BY <1>1, <1>2 DEF spawn, WithCurrentTask, TASKS
    <2> QED BY <1>1, <2>1, MovePreserves DEF coreVars, cpuVars, regVars, taskVars
  <1>3. CASE cur \in Spawners
    <2>1. /\ nextPid' = nextPid + 1
          /\ state' = [state EXCEPT ![nextPid] = "User"]
          /\ parent' = [parent EXCEPT ![nextPid] = cur]
          /\ saved' = [saved EXCEPT ![nextPid] = "entry"]
          /\ next' = nextPid
          /\ held' = {TASKS, cur}
          /\ pc' = "add"
          /\ UNCHANGED <<waiting, cur, sw, cont, tasks, queue, children>>
      BY <1>1, <1>3 DEF spawn, WithCurrentTask, TASKS, create, allocate_pid
    <2>2. \A t \in tasks : t # nextPid /\ t \in Ids
      BY <1>1 DEF CoreTypeOK
    <2>3. CoreTypeOK'
      BY <1>1, <2>1, BootAssumption DEF CoreTypeOK, Context, TaskState, Locks
    <2>4. LocksAt' /\ HangsOnlyOnOwnLock'
      BY <1>1, <2>1 DEF LocksAt, HangsOnlyOnOwnLock, Hung
    <2>5. TasksAt'
      BY <1>1, <1>3, <2>1, <2>2 DEF TasksAt, CoreTypeOK
    <2>6. PidsFresh'
      BY <1>1, <2>1, <2>2, BootAssumption DEF PidsFresh, CoreTypeOK, Ids
    <2>7. OneHome'
      BY <1>1, <2>1, <2>2 DEF OneHome, Queued, running, CoreTypeOK
    <2>8. Resumable'
      BY <1>1, <2>1, <2>2 DEF Resumable, CoreTypeOK, TasksAt
    <2>9. FamilyLinks'
      <3>1. \A p \in Ids : \A i \in 1..Len(children[p]) : children[p][i] \in tasks
        BY <1>1 DEF FamilyLinks
      <3> QED BY <1>1, <2>1, <2>2, <3>1 DEF FamilyLinks, CoreTypeOK
    <2> QED BY <2>3, <2>4, <2>5, <2>6, <2>7, <2>8, <2>9
  <1> QED BY <1>2, <1>3

\* add always spins on the spawning task, which locked itself before.
LEMMA AddPreserves ==
  ASSUME IInv, add
  PROVE  IInv'
  <1> USE DEF IInv
  <1>1. /\ pc = "add" /\ waiting = NoLock /\ next \notin tasks /\ parent[next] = cur
        /\ cur \in held /\ cur \in Ids /\ next \in Ids /\ cur \in Spawners
        /\ next = NInit + 2 /\ nextPid = NInit + 3 /\ cur \in tasks /\ state[next] = "User"
        /\ saved[next] = "entry"
    BY BootAssumption DEF add, At, LocksAt, TasksAt, PidsFresh, CoreTypeOK, Ids
  <1>2. /\ tasks' = tasks \cup {next}
        /\ waiting' = cur
        /\ UNCHANGED <<pc, held, cur, sw, next, cont, queue, nextPid,
                       state, parent, children, saved>>
    BY <1>1 DEF add, insert, cpuVars
  <1>3. CoreTypeOK'
    BY <1>1, <1>2 DEF CoreTypeOK, Locks
  <1>4. LocksAt' /\ HangsOnlyOnOwnLock' /\ TasksAt'
    BY <1>1, <1>2 DEF LocksAt, HangsOnlyOnOwnLock, TasksAt
  <1>5. PidsFresh'
    BY <1>1, <1>2, BootAssumption DEF PidsFresh, NoLock, Ids
  <1>6. OneHome'
    BY <1>1, <1>2 DEF OneHome, Queued, running
  <1>7. Resumable'
    BY <1>1, <1>2 DEF Resumable
  <1>8. FamilyLinks'
    BY <1>1, <1>2 DEF FamilyLinks
  <1> QED BY <1>3, <1>4, <1>5, <1>6, <1>7, <1>8

\* Every step of the kernel, of a program or of the timer preserves the invariant.
LEMMA StepPreserves == IInv /\ [Next]_vars => IInv'
  <1> SUFFICES ASSUME IInv, [Next]_vars PROVE IInv'
    OBVIOUS
  <1>1. CASE UNCHANGED vars
    <2> USE <1>1 DEF IInv, vars, coreVars, cpuVars, regVars, taskVars
    <2>1. CoreTypeOK' /\ LocksAt'
      BY DEF CoreTypeOK, LocksAt
    <2>2. HangsOnlyOnOwnLock' /\ TasksAt'
      BY DEF HangsOnlyOnOwnLock, Hung, TasksAt
    <2>3. PidsFresh' /\ Resumable'
      BY DEF PidsFresh, Resumable
    <2>4. OneHome' /\ FamilyLinks'
      BY DEF OneHome, Queued, running, FamilyLinks
    <2> QED BY <2>1, <2>2, <2>3, <2>4
  <1>2. CASE run_executor \/ timer_interrupt_handler \/ Yield
    BY <1>2, MovePreserves DEF run_executor, timer_interrupt_handler, Yield, At
  <1>3. CASE start_initproc
    <2>1. pc = "entry" /\ waiting = NoLock /\ held = {} /\ cur \in tasks
      BY <1>3 DEF start_initproc, At, IInv, LocksAt, TasksAt
    <2> QED BY <1>3, <2>1, MovePreserves DEF start_initproc, WithCurrentTask
  <1>4. CASE Spinning
    BY <1>1, <1>4 DEF Spinning
  <1> QED
    BY <1>1, <1>2, <1>3, <1>4, BootPreserves, SwitchToNextPreserves, SwitchTaskPreserves,
       AfterPreserves, RemovePreserves, AddPreserves, ExitPreserves, SpawnPreserves
       DEF Next, KernelStep, UserStep

-------------------------------------------------------------------------------
(* The invariant about the stacks.                                         *)

\* At boot nothing was saved and TCD names nobody.
LEMMA StackInit == Init => SInv
  <1> SUFFICES ASSUME Init PROVE SInv
    OBVIOUS
  <1> USE BootAssumption DEF Init, InitTask, Ids, NoTask, BootTasks
  <1>1. StackTypeOK /\ FirstRound
    BY DEF StackTypeOK, FirstRound
  <1>2. Runners /\ StacksAt
    BY EmptyFacts DEF Runners, StacksAt, Unstarted, Queued
  <1> QED BY <1>1, <1>2 DEF SInv

\* Steps of the CPU that touch no stack, no queue and no saved context.
LEMMA StackMove ==
  ASSUME IInv, SInv, UNCHANGED <<cur, next, cont, tasks, queue, saved, stackVars>>,
         \/ pc' = pc
         \/ pc \in {"boot", "loop"} /\ pc' = "switch"
         \/ pc = "hlt" /\ pc' = "loop"
  PROVE  SInv'
  <1> USE DEF SInv, stackVars
  <1>1. pc \in {"boot", "loop", "hlt"} => cur = InitTask
    BY DEF IInv, TasksAt
  <1>2. StackTypeOK'
    BY DEF StackTypeOK
  <1>3. FirstRound'
    BY DEF FirstRound, Queued
  <1>4. Runners'
    BY DEF Runners, Queued
  <1>5. Unstarted' => Unstarted
    BY DEF Unstarted, Queued
  <1>6. StacksAt'
    BY <1>1, <1>5 DEF StacksAt
  <1> QED BY <1>2, <1>3, <1>4, <1>6

\* A new boot task waits for its first turn on its own stack.
LEMMA StackBoot ==
  ASSUME IInv, SInv, boot_task
  PROVE  SInv'
  <1> USE DEF SInv
  <1>1. /\ pc = "boot" /\ pc' = "boot" /\ cur = InitTask
        /\ nextPid \in Ids /\ nextPid \in BootTasks /\ nextPid \notin tasks /\ nextPid # InitTask
        /\ UNCHANGED <<cur, next, cont, base, frame, ksp, usp>>
        /\ saved' = [saved EXCEPT ![nextPid] = "entry"]
        /\ tasks' = tasks \cup {nextPid}
        /\ queue' = Append(queue, nextPid)
    BY BootAssumption DEF boot_task, At, create, insert, cpuVars, stackVars,
       IInv, LocksAt, TasksAt, PidsFresh, CoreTypeOK, Ids, BootTasks, InitTask
  <1>2. saved \in [Ids -> Context] /\ queue \in Seq(Ids) /\ tasks \subseteq Ids /\ InitTask \in Ids
    BY BootAssumption DEF IInv, CoreTypeOK, Ids, InitTask
  <1>3. \A t : Has(queue', t) <=> Has(queue, t) \/ t = nextPid
    BY <1>1, <1>2, AppendFacts
  <1>4. \A t \in Ids : Queued(t) => t \in tasks /\ t # InitTask
    BY <1>1 DEF IInv, OneHome, running
  <1>5. \A t \in tasks' \ {InitTask} : saved'[t] = "entry"
    BY <1>1, <1>2 DEF FirstRound
  <1>6. \A t \in Ids : Has(queue', t) => saved'[t] = "entry"
    BY <1>1, <1>3, <1>4, <1>5 DEF Queued
  <1>7. queue' \in Seq(Ids)
    BY <1>1, <1>2
  <1>8. \A i \in 1..Len(queue') : saved'[queue'[i]] = "entry"
    BY <1>6, <1>7 DEF Has
  <1>9. FirstRound'
    BY <1>1, <1>2, <1>5, <1>8 DEF FirstRound
  <1>10. StackTypeOK' /\ Runners'
    BY <1>1, <1>3 DEF StackTypeOK, Runners, Queued
  <1>11. StacksAt'
    BY <1>1, <1>5 DEF StacksAt
  <1> QED BY <1>9, <1>10, <1>11

\* Taking the head of the queue keeps the unstarted tasks ahead, and takes one of
\* them as long as there is one.
LEMMA StackSwitchToNext ==
  ASSUME IInv, SInv, switch_to_next_task
  PROVE  SInv'
  <1> DEFINE to    == IF requeue = <<>> THEN InitTask ELSE Head(requeue)
             later == IF requeue = <<>> THEN <<>> ELSE Tail(requeue)
  <1> USE DEF SInv
  <1>1. /\ pc = "switch" /\ waiting = NoLock /\ held = {} /\ cur \in tasks /\ cur \in Ids
        /\ saved \in [Ids -> Context] /\ queue \in Seq(Ids) /\ InitTask \in Ids
        /\ InitTask \in tasks /\ state[InitTask] = "Sleepy"
        /\ ~ Queued(cur)
    BY BootAssumption DEF switch_to_next_task, At, IInv, LocksAt, TasksAt, CoreTypeOK, Ids, InitTask,
       OneHome, running
  <1>2. /\ requeue \in Seq(Ids)
        /\ NoRepeat(requeue)
        /\ \A t : Has(requeue, t) <=> Queued(t) \/ (t = cur /\ state[cur] = "User")
    BY <1>1, RequeueFacts
  <1>3. UNCHANGED <<cur, cont, tasks, saved, base, frame, ksp, usp>>
    BY DEF switch_to_next_task, Spin, Panic, cpuVars, taskVars, regVars, stackVars
  <1>4. \A i, j \in 1..Len(requeue) :
          i < j /\ saved[requeue[j]] = "entry" => saved[requeue[i]] = "entry"
    <2>1. CASE requeue = queue
      BY <2>1 DEF FirstRound
    <2>2. CASE requeue = Append(queue, cur)
      BY <1>1, <2>2 DEF FirstRound
    <2> QED BY <2>1, <2>2 DEF requeue
  <1>5. \A t : Queued(t) => t \in Ids /\ t \in tasks
    <2>1. \A t : Queued(t) => t \in Ids
      BY <1>1 DEF Queued, Has
    <2> QED BY <2>1 DEF IInv, OneHome
  <1>6. /\ later \in Seq(Ids)
        /\ \A t : Has(later, t) <=> Has(requeue, t) /\ t # to
        /\ to = InitTask \/ Has(requeue, to)
        /\ to \in Ids /\ to \in tasks
    <2>1. CASE requeue = <<>>
      BY <2>1, <1>1, <1>2, EmptyFacts
    <2>2. CASE requeue # <<>>
      BY <2>2, <1>1, <1>2, <1>5, TailFacts
    <2> QED BY <2>1, <2>2
  <1>7. \A i, j \in 1..Len(later) :
          i < j /\ saved[later[j]] = "entry" => saved[later[i]] = "entry"
    <2>1. CASE requeue = <<>>
      BY <2>1
    <2>2. CASE requeue # <<>>
      <3>1. /\ Len(later) = Len(requeue) - 1 /\ Len(requeue) \in Nat
            /\ \A i \in 1..Len(later) : later[i] = requeue[i + 1]
        BY <1>2, <2>2
      <3> QED BY <1>4, <3>1
    <2> QED BY <2>1, <2>2
  <1>8. saved[to] # "entry" => \A t : Has(later, t) => saved[t] # "entry"
    <2>1. CASE requeue = <<>>
      BY <2>1, EmptyFacts
    <2>2. CASE requeue # <<>>
      <3>1. /\ Len(later) = Len(requeue) - 1 /\ Len(requeue) \in Nat
            /\ \A i \in 1..Len(later) : later[i] = requeue[i + 1]
            /\ to = requeue[1]
        BY <1>2, <2>2
      <3> QED BY <1>4, <3>1 DEF Has
    <2> QED BY <2>1, <2>2
  <1>9. to \in BootTasks \cup {InitTask} /\ \A t \in Ids : Has(later, t) => t \in BootTasks
    <2>1. state[cur] = "User" => cur # InitTask
      BY <1>1
    <2> QED BY <1>2, <1>6, <2>1 DEF Runners
  <1>10. StackTypeOK'
    BY <1>3 DEF StackTypeOK
  <1>11. CASE to = cur
    <2>1. queue' = later /\ next' = next /\ pc' = IF cur = InitTask THEN "hlt" ELSE "user"
      BY <1>1, <1>11 DEF switch_to_next_task, Return, TASKS, cpuVars
    <2>2. FirstRound' /\ Runners'
      BY <1>1, <1>3, <1>6, <1>7, <1>9, <2>1 DEF FirstRound, Runners, Queued
    <2>3. \A t \in Ids : Queued(t)' => Queued(t)
      BY <1>2, <1>3, <1>6, <1>11, <2>1 DEF Queued
    <2>4. Unstarted' => Unstarted
      BY <1>3, <2>1, <2>3 DEF Unstarted
    <2>5. StacksAt'
      BY <1>1, <1>3, <2>1, <2>4 DEF StacksAt
    <2> QED BY <1>10, <2>2, <2>5
  <1>12. CASE to # cur
    <2>1. queue' = later /\ next' = to /\ pc' = "target"
      BY <1>1, <1>6, <1>12 DEF switch_to_next_task, TASKS
    <2>2. FirstRound' /\ Runners'
      BY <1>1, <1>3, <1>6, <1>7, <1>8, <1>9, <2>1 DEF FirstRound, Runners, Queued
    <2>3. saved[to] = "entry" => Queued(to)
      BY <1>2, <1>6, <1>12 DEF IInv, Resumable
    <2>4. \A t \in Ids : Queued(t)' /\ saved[t] = "entry" => Queued(t)
      BY <1>2, <1>6, <2>1 DEF Queued, FirstRound
    <2>5. Unstarted' => Unstarted
      BY <1>3, <1>6, <2>1, <2>3, <2>4 DEF Unstarted
    <2>6. StacksAt'
      BY <1>1, <1>3, <2>1, <2>5 DEF StacksAt
    <2> QED BY <1>10, <2>2, <2>6
  <1> QED BY <1>11, <1>12

\* A program's context is saved on the stack TCD names, its own in the first round.
LEMMA StackSwitchTask ==
  ASSUME IInv, SInv, switch_task
  PROVE  SInv'
  <1> USE DEF SInv
  <1>1. /\ pc = "target" /\ held = {cur} /\ next # cur
        /\ cur \in tasks /\ next \in tasks /\ cur \in Ids /\ next \in Ids
        /\ saved \in [Ids -> Context] /\ saved[next] \in {"entry", "switch"}
        /\ queue \in Seq(Ids) /\ tasks \subseteq Ids /\ ~ Queued(next) /\ InitTask \in Ids
    BY BootAssumption DEF switch_task, At, IInv, LocksAt, TasksAt, CoreTypeOK, Resumable, OneHome,
       running, InitTask, Ids
  <1>2. /\ cur' = next /\ pc' = "after" /\ cont' = saved[next]
        /\ saved' = [saved EXCEPT ![cur] = "switch", ![next] = "stale"]
        /\ base' = [base EXCEPT ![cur] = kernel_stack]
        /\ UNCHANGED <<next, tasks, queue, frame, ksp, usp>>
    BY <1>1 DEF switch_task, exchange, regVars
  <1>3. \A i \in 1..Len(queue) : /\ queue[i] \in Ids /\ queue[i] # next
                                 /\ saved'[queue[i]] = "entry" <=> saved[queue[i]] = "entry"
    <2>1. \A i \in 1..Len(queue) : queue[i] \in Ids /\ queue[i] # next
      BY <1>1 DEF Queued, Has
    <2> QED BY <1>1, <1>2, <2>1 DEF FirstRound
  <1>4. \A t \in Ids : Queued(t) => (saved'[t] = "entry" <=> saved[t] = "entry")
    BY <1>3 DEF Queued, Has
  <1>5. StackTypeOK'
    <2>1. kernel_stack \in Ids
      BY <1>1, BootAssumption DEF kernel_stack, StackTypeOK, StacksAt, BootTasks, Ids, InitTask
    <2> QED BY <1>1, <1>2, <2>1 DEF StackTypeOK
  <1>6. FirstRound'
    BY <1>1, <1>2, <1>3, <1>4 DEF FirstRound, Queued
  <1>7. Runners'
    BY <1>1, <1>2 DEF Runners, Queued
  <1>8. Unstarted' => Unstarted
    BY <1>1, <1>2, <1>4 DEF Unstarted, Queued
  <1>9. StacksAt'
    <2>1. base'[InitTask] = InitTask
      BY <1>1, <1>2 DEF StacksAt, kernel_stack, StackTypeOK
    <2>2. ASSUME NEW t \in tasks' \ {InitTask, cur'}, saved'[t] = "switch"
          PROVE  /\ ksp' # NoTask
                 /\ frame'[base'[t]] # NoTask
                 /\ base'[t] # ksp' => base'[t] = t /\ frame'[t] = t
                 /\ Unstarted' => base'[t] = t /\ frame'[t] = t
      <3>1. CASE t = cur
        <4>1. base'[t] = ksp /\ frame[ksp] = cur /\ cur # NoTask
          BY <1>1, <1>2, <2>2, <3>1, BootAssumption
             DEF kernel_stack, StackTypeOK, StacksAt, Ids, NoTask
        <4> QED BY <1>1, <1>2, <1>8, <2>2, <3>1, <4>1 DEF StacksAt
      <3>2. CASE t # cur
        <4>1. t \in Ids /\ saved[t] = "switch" /\ base'[t] = base[t]
          BY <1>1, <1>2, <2>2, <3>2 DEF StackTypeOK
        <4> QED BY <1>2, <1>8, <2>2, <3>2, <4>1 DEF StacksAt
      <3> QED BY <3>1, <3>2
    <2>3. cont' = "switch" /\ cur' # InitTask =>
            ksp' # NoTask /\ base'[cur'] \in {cur', ksp'} /\ frame'[base'[cur']] # NoTask
      <3>1. base'[next] = base[next]
        BY <1>1, <1>2 DEF StackTypeOK
      <3> QED BY <1>1, <1>2, <3>1 DEF StacksAt
    <2>4. ksp' # NoTask => usp' # NoTask
      BY <1>2 DEF StacksAt
    <2> QED BY <1>2, <2>1, <2>2, <2>3, <2>4 DEF StacksAt
  <1> QED BY <1>5, <1>6, <1>7, <1>9

\* The return from a switch: a program that gets the CPU back finds no unstarted task.
LEMMA StackAfter ==
  ASSUME IInv, SInv, after_task_switch
  PROVE  SInv'
  <1> USE DEF SInv
  <1>1. /\ pc = "after" /\ cont \in {"entry", "switch"} /\ TASKS \notin held
        /\ cont = "entry" => cur # InitTask
    <2>1. TASKS \notin Ids
      BY BootAssumption DEF Ids, TASKS
    <2> QED BY <2>1 DEF after_task_switch, At, IInv, LocksAt, Resumable, CoreTypeOK, Context
  <1>2. /\ UNCHANGED <<cur, next, cont, queue, saved, base, frame, ksp, usp>>
        /\ tasks' \subseteq tasks
        /\ \/ pc' = "remove"
           \/ pc' = IF cont = "entry" THEN "entry" ELSE IF cur = InitTask THEN "loop" ELSE "user"
    BY <1>1 DEF after_task_switch, Unlock, Return, cpuVars, regVars, taskVars, stackVars
  <1>3. StackTypeOK' /\ FirstRound' /\ Runners'
    BY <1>1, <1>2 DEF StackTypeOK, FirstRound, Runners, Queued
  <1>4. Unstarted' => Unstarted
    BY <1>1, <1>2 DEF Unstarted, Queued
  <1>5. pc' = "user" => ~ Unstarted'
    BY <1>1, <1>2 DEF Unstarted, FirstRound, Queued
  <1>6. StacksAt'
    BY <1>1, <1>2, <1>4, <1>5 DEF StacksAt
  <1> QED BY <1>3, <1>6

\* A task starts: TCD gets its stack, on which nobody else's frame lies.
LEMMA StackStart ==
  ASSUME IInv, SInv, start_initproc
  PROVE  SInv'
  <1> USE DEF SInv
  <1>1. /\ pc = "entry" /\ held = {} /\ cur \in tasks /\ cur # InitTask /\ cur \in BootTasks
        /\ cur # NoTask
    BY BootAssumption DEF start_initproc, At, IInv, LocksAt, TasksAt, Runners, BootTasks, NoTask
  <1>2. /\ pc' = "user" /\ ksp' = cur /\ usp' = cur
        /\ UNCHANGED <<cur, next, cont, tasks, queue, saved, base, frame>>
    BY <1>1 DEF start_initproc, CanLockCurrentTask, WithCurrentTask, enter_userspace, TASKS,
       cpuVars, regVars, taskVars
  <1>3. StackTypeOK' /\ FirstRound' /\ Runners'
    BY <1>1, <1>2 DEF StackTypeOK, FirstRound, Runners, Queued
  <1>4. Unstarted
    BY <1>1 DEF Unstarted
  <1>5. StacksAt'
    BY <1>1, <1>2, <1>4 DEF StacksAt
  <1> QED BY <1>3, <1>5

\* The entry of a system call writes to the stack TCD names and to no other.
LEMMA StackCall ==
  ASSUME IInv, SInv, pc = "user", on_syscall_raw, UNCHANGED <<cur, cont, tasks, queue>>,
         pc' \in {"user", "switch", "add"},
         \/ UNCHANGED <<next, saved>>
         \/ pc' = "add" /\ saved' = [saved EXCEPT ![nextPid] = "entry"]
  PROVE  SInv'
  <1> USE DEF SInv
  <1>1. /\ cur \in Ids /\ cur # InitTask /\ cur \in BootTasks /\ cur # NoTask /\ ksp # NoTask
        /\ ksp \in Ids /\ cur \in tasks /\ tasks \subseteq Ids /\ nextPid \notin tasks
        /\ saved \in [Ids -> Context] /\ queue \in Seq(Ids)
        /\ \A t \in Ids : Queued(t) => t \in tasks
    <2>1. cur \in Ids /\ cur # InitTask /\ cur \in tasks /\ tasks \subseteq Ids
          /\ saved \in [Ids -> Context] /\ queue \in Seq(Ids)
      BY DEF IInv, TasksAt, CoreTypeOK
    <2>2. cur \in BootTasks /\ cur # NoTask
      BY <2>1, BootAssumption DEF Runners, BootTasks, NoTask
    <2>3. ksp # NoTask /\ ksp \in Ids
      BY BootAssumption DEF StacksAt, StackTypeOK, BootTasks, Ids
    <2>4. nextPid \notin tasks
      BY <2>1, BootAssumption DEF IInv, PidsFresh, CoreTypeOK, Ids
    <2>5. \A t \in Ids : Queued(t) => t \in tasks
      BY DEF IInv, OneHome
    <2> QED BY <2>1, <2>2, <2>3, <2>4, <2>5
  <1>2. usp' = cur /\ frame' = [frame EXCEPT ![ksp] = cur] /\ UNCHANGED <<base, ksp>>
    BY DEF on_syscall_raw
  <1>3. \A t \in tasks : saved'[t] = saved[t]
    BY <1>1
  <1>4. \A i \in 1..Len(queue) : queue[i] \in tasks
    BY <1>1 DEF Queued, Has
  <1>5. StackTypeOK'
    BY <1>1, <1>2 DEF StackTypeOK
  <1>6. FirstRound' /\ Runners'
    BY <1>1, <1>3, <1>4 DEF FirstRound, Runners, Queued
  <1>7. Unstarted' => Unstarted
    BY <1>1, <1>3 DEF Unstarted, Queued
  <1>8. frame'[ksp] = cur /\ \A t \in Ids \ {ksp} : frame'[t] = frame[t]
    BY <1>1, <1>2 DEF StackTypeOK
  <1>9. ASSUME NEW t \in tasks' \ {InitTask, cur'}, saved'[t] = "switch"
        PROVE  /\ ksp' # NoTask
               /\ frame'[base'[t]] # NoTask
               /\ base'[t] # ksp' => base'[t] = t /\ frame'[t] = t
               /\ Unstarted' => base'[t] = t /\ frame'[t] = t
    <2>1. t \in Ids /\ t \in tasks \ {InitTask, cur} /\ saved[t] = "switch"
      BY <1>1, <1>3, <1>9
    <2>2. base[t] # ksp => base'[t] = t /\ frame'[t] = t
      BY <1>2, <1>8, <2>1 DEF StacksAt
    <2>3. Unstarted => ksp = cur /\ base[t] = t
      BY <2>1 DEF StacksAt
    <2>4. base[t] \in Ids /\ frame[base[t]] # NoTask
      BY <2>1 DEF StacksAt, StackTypeOK
    <2> QED BY <1>1, <1>2, <1>7, <1>8, <2>1, <2>2, <2>3, <2>4
  <1>10. StacksAt'
    BY <1>1, <1>2, <1>7, <1>8, <1>9 DEF StacksAt
  <1> QED BY <1>5, <1>6, <1>10

\* Every step keeps the frames where they belong.
LEMMA StackPreserves == IInv /\ SInv /\ [Next]_vars => SInv'
  <1> SUFFICES ASSUME IInv, SInv, [Next]_vars PROVE SInv'
    OBVIOUS
  <1>1. CASE UNCHANGED vars
    BY <1>1, StackMove DEF vars, coreVars, cpuVars, regVars, taskVars
  <1>2. CASE run_executor \/ timer_interrupt_handler
    BY <1>2, StackMove DEF run_executor, timer_interrupt_handler, At, cpuVars, regVars, taskVars
  <1>3. CASE Yield
    BY <1>3, StackCall DEF Yield, At, cpuVars, regVars, taskVars
  <1>4. CASE Exit
    <2>1. pc = "user" /\ held = {} /\ cur \in tasks
      BY <1>4 DEF Exit, At, IInv, LocksAt, TasksAt
    <2> QED BY <1>4, <2>1, StackCall DEF Exit, WithCurrentTask, TASKS, cpuVars, regVars
  <1>5. CASE spawn
    <2>1. pc = "user" /\ held = {} /\ cur \in tasks
      BY <1>5 DEF spawn, At, IInv, LocksAt, TasksAt
    <2>2. CASE cur \in Spawners
      BY <1>5, <2>1, <2>2, StackCall DEF spawn, WithCurrentTask, TASKS, create
    <2>3. CASE cur \notin Spawners
      BY <1>5, <2>1, <2>3, StackCall
         DEF spawn, WithCurrentTask, TASKS, coreVars, cpuVars, regVars, taskVars
    <2> QED BY <2>2, <2>3
  <1>6. CASE remove
    <2>1. pc = "remove" /\ sw.from \in held
      BY <1>6 DEF remove, At, IInv, LocksAt
    <2> QED BY <1>6, <2>1, StackMove DEF remove, Spin, cpuVars, regVars, taskVars
  <1>7. CASE add
    <2>1. /\ pc = "add" /\ next \notin tasks /\ parent[next] = cur /\ cur \in held
          /\ saved[next] = "entry"
      BY <1>7 DEF add, At, IInv, LocksAt, PidsFresh
    <2>2. /\ tasks' = tasks \cup {next} /\ pc' = pc
          /\ UNCHANGED <<cur, next, cont, queue, saved, base, frame, ksp, usp>>
      BY <1>7, <2>1 DEF add, insert, cpuVars, stackVars
    <2>3. StackTypeOK' /\ FirstRound' /\ Runners'
      BY <2>1, <2>2 DEF SInv, StackTypeOK, FirstRound, Runners, Queued
    <2>4. Unstarted' => Unstarted
      BY <2>1, <2>2 DEF Unstarted, Queued
    <2>5. StacksAt'
      BY <2>1, <2>2, <2>4 DEF SInv, StacksAt
    <2> QED BY <2>3, <2>5 DEF SInv
  <1>8. CASE Spinning
    BY <1>1, <1>8 DEF Spinning
  <1> QED
    BY <1>1, <1>2, <1>3, <1>4, <1>5, <1>6, <1>7, <1>8, StackBoot, StackSwitchToNext,
       StackSwitchTask, StackAfter, StackStart
       DEF Next, KernelStep, UserStep

-------------------------------------------------------------------------------
(* The theorems.                                                           *)

\* The strengthened invariant holds in every reachable state, for any number of
\* boot tasks and any set of spawners.
THEOREM InductiveInvariant == Spec => []IInv
  BY InitInvariant, StepPreserves, PTL DEF Spec

\* So does the invariant about TCD and the kernel stacks.
THEOREM StackInvariant == Spec => []SInv
  BY StackInit, StackPreserves, InductiveInvariant, PTL DEF Spec

\* Type correctness of the scheduler's state.
THEOREM TypeCorrect == Spec => []TypeOK
  <1>1. IInv /\ SInv => TypeOK
    BY DEF IInv, SInv, TypeOK
  <1> QED BY <1>1, InductiveInvariant, StackInvariant, PTL

\* switch_task runs with exactly the pair's two locks held, and user code with none.
THEOREM LocksDisciplined == Spec => []LockDiscipline
  <1>1. IInv => LockDiscipline
    BY DEF IInv, LocksAt, LockDiscipline
  <1> QED BY <1>1, InductiveInvariant, PTL

\* The CPU hangs nowhere but in remove (after an Exit) and in add (in a spawn).
THEOREM HangsConfined == Spec => []HangsOnlyOnOwnLock
  <1>1. IInv => HangsOnlyOnOwnLock
    BY DEF IInv
  <1> QED BY <1>1, InductiveInvariant, PTL

\* No task is lost from the scheduler or doubled in the run queue.
THEOREM TasksHaveOneHome == Spec => []OneHome
  <1>1. IInv => OneHome
    BY DEF IInv
  <1> QED BY <1>1, InductiveInvariant, PTL

\* However many tasks boot creates, no context is resumed twice and none before it
\* was prepared, and the system calls of one task overwrite the registers another
\* has saved only on the stack TCD names.
THEOREM ContextsAreValid == Spec => []ContextsValid
  <1>1. IInv /\ SInv => ContextsValid
    BY DEF IInv, SInv, StacksAt, ContextsValid, OneHome, Resumable, TasksAt, CoreTypeOK, Context
  <1> QED BY <1>1, InductiveInvariant, StackInvariant, PTL

\* With the one task the kernel creates, the record TCD is enough: its program
\* always returns on its own stack and with its own registers.
THEOREM OneTaskKeepsItsFrame ==
  ASSUME NInit <= 1
  PROVE  Spec => [](ReturnsOnOwnStack /\ ResumesOwnFrame)
  <1>1. BootTasks \subseteq {2}
    BY BootAssumption DEF BootTasks
  <1>2. ASSUME IInv, SInv PROVE ReturnsOnOwnStack
    <2>1. pc = "user" => cur \in BootTasks /\ usp \in BootTasks
      BY <1>2 DEF IInv, SInv, TasksAt, Runners, StackTypeOK, StacksAt
    <2> QED BY <1>1, <2>1 DEF ReturnsOnOwnStack
  <1>3. ASSUME IInv, SInv PROVE ResumesOwnFrame
    <2> SUFFICES ASSUME pc = "after", cont = "switch", cur # InitTask
                 PROVE  frame[base[cur]] = cur
      BY DEF ResumesOwnFrame
    <2>1. cur \in BootTasks
      BY <1>3 DEF SInv, Runners
    <2>2. base[cur] \in {cur, ksp} /\ ksp # NoTask /\ frame[base[cur]] # NoTask
      BY <1>3 DEF SInv, StacksAt
    <2>3. BootTasks \subseteq Ids
      BY BootAssumption DEF BootTasks, Ids
    <2>4. ksp \in BootTasks
      BY <1>3, <2>2 DEF SInv, StackTypeOK
    <2>5. base[cur] \in BootTasks
      BY <2>1, <2>2, <2>4
    <2>6. frame[base[cur]] \in BootTasks
      BY <1>3, <2>2, <2>3, <2>5 DEF SInv, StackTypeOK
    <2> QED BY <1>1, <2>1, <2>6
  <1>4. IInv /\ SInv => ReturnsOnOwnStack /\ ResumesOwnFrame
    BY <1>2, <1>3
  <1> QED BY <1>4, InductiveInvariant, StackInvariant, PTL

\* The registry lookups of the scheduler never panic.
THEOREM NeverPanics == Spec => []NoPanic
  <1>1. IInv => NoPanic
    BY DEF IInv, TasksAt, NoPanic
  <1> QED BY <1>1, InductiveInvariant, PTL

\* Parent fields and child lists stay consistent.
THEOREM FamilyConsistent == Spec => []FamilyLinks
  <1>1. IInv => FamilyLinks
    BY DEF IInv
  <1> QED BY <1>1, InductiveInvariant, PTL

-------------------------------------------------------------------------------
(* Order in the run queue.                                                 *)

\* Appending an absent task puts it behind everybody and reorders nobody.
LEMMA AppendOrder ==
  ASSUME NEW q \in Seq(Ids), NEW x \in Ids, NEW a, NEW b, a # b,
         Has(q, a), Has(Append(q, x), b), ~ Ahead(q, b, a)
  PROVE  Ahead(Append(q, x), a, b)
  <1> DEFINE r == Append(q, x)
  <1>1. /\ Len(r) = Len(q) + 1 /\ Len(q) \in Nat
        /\ \A i \in 1..Len(q) : r[i] = q[i]
    OBVIOUS
  <1>2. PICK i \in 1..Len(q) : q[i] = a
    BY DEF Has
  <1>3. PICK j \in 1..Len(r) : r[j] = b
    BY DEF Has
  <1>4. i < j
    BY <1>1, <1>2, <1>3 DEF Ahead
  <1> QED BY <1>1, <1>2, <1>3, <1>4 DEF Ahead

\* Taking the head reorders nobody who stays.
LEMMA TailOrder ==
  ASSUME NEW q \in Seq(Ids), q # <<>>, NoRepeat(q), NEW a, NEW b,
         Ahead(q, a, b), Has(Tail(q), a), Has(Tail(q), b)
  PROVE  Ahead(Tail(q), a, b)
  <1> DEFINE r == Tail(q)
  <1>1. /\ Len(q) \in Nat /\ Len(q) > 0 /\ Len(r) = Len(q) - 1
        /\ \A i \in 1..Len(r) : r[i] = q[i + 1]
    OBVIOUS
  <1>2. PICK i \in 1..Len(q), j \in 1..Len(q) : i < j /\ q[i] = a /\ q[j] = b
    BY DEF Ahead
  <1>3. PICK k \in 1..Len(r) : r[k] = a
    BY DEF Has
  <1>4. i = k + 1
    BY <1>1, <1>2, <1>3 DEF NoRepeat
  <1>5. i - 1 \in 1..Len(r) /\ j - 1 \in 1..Len(r) /\ r[i - 1] = a /\ r[j - 1] = b
        /\ i - 1 < j - 1
    BY <1>1, <1>2, <1>3, <1>4
  <1> QED BY <1>5 DEF Ahead

\* Two distinct positions are ordered one way or the other.
LEMMA SomeOrder ==
  ASSUME NEW q \in Seq(Ids), NEW a, NEW b, a # b, Has(q, a), Has(q, b), ~ Ahead(q, b, a)
  PROVE  Ahead(q, a, b)
  <1>1. PICK i \in 1..Len(q) : q[i] = a
    BY DEF Has
  <1>2. PICK j \in 1..Len(q) : q[j] = b
    BY DEF Has
  <1>3. i < j
    BY <1>1, <1>2 DEF Ahead
  <1> QED BY <1>1, <1>2, <1>3 DEF Ahead

\* No step lets a task overtake one that stays queued.
LEMMA StepKeepsOrder ==
  ASSUME IInv, Next, NEW a \in Ids, NEW b \in Ids,
         Queued(a), Queued(a)', Queued(b)', a # b, ~ Ahead(queue, b, a)
  PROVE  Ahead(queue', a, b)
  <1>1. CASE UNCHANGED queue
    BY <1>1, SomeOrder DEF Queued, IInv, CoreTypeOK
  <1>2. CASE boot_task
    <2>1. CASE queue' = Append(queue, nextPid)
      <3>1. nextPid \in Ids
        BY <1>2, BootAssumption DEF boot_task, IInv, CoreTypeOK, Ids
      <3> QED BY <2>1, <3>1, AppendOrder DEF Queued, IInv, CoreTypeOK
    <2> QED BY <1>1, <1>2, <2>1 DEF boot_task, Spin, regVars
  <1>3. CASE switch_to_next_task
    <2>1. pc = "switch" /\ requeue \in Seq(Ids) /\ NoRepeat(requeue)
      BY <1>3, RequeueFacts DEF switch_to_next_task, At
    <2>2. Has(requeue, a)
      BY RequeueFacts
    <2>3. requeue # <<>>
      BY <2>2, EmptyFacts
    <2>4. UNCHANGED queue \/ queue' = Tail(requeue)
      BY <1>3, <2>3 DEF switch_to_next_task, Spin, Panic, regVars
    <2>5. CASE queue' = Tail(requeue)
      <3>1. Has(requeue, b)
        BY <2>1, <2>3, <2>5, TailFacts DEF Queued
      <3>2. Ahead(requeue, a, b)
        BY <3>1, AppendOrder, SomeOrder DEF requeue, Queued, IInv, CoreTypeOK
      <3> QED BY <2>1, <2>3, <2>5, <3>2, TailOrder DEF Queued
    <2> QED BY <1>1, <2>4, <2>5
  <1>4. Next => \/ boot_task \/ switch_to_next_task \/ UNCHANGED queue
    BY DEF Next, KernelStep, UserStep, run_executor, switch_task, after_task_switch, Unlock,
       remove, start_initproc, add, Yield, Exit, spawn, timer_interrupt_handler, Spinning,
       WithCurrentTask, Spin, Panic, vars, coreVars, cpuVars, regVars, taskVars
  <1> QED BY <1>1, <1>2, <1>3, <1>4

\* The run queue is first come, first served, at every step of the kernel.
THEOREM FirstComeFirstServed == Spec => NoOvertaking
  <1> DEFINE Ordered == \A a, b \in Ids :
                 Queued(a) /\ Queued(a)' /\ Queued(b)' /\ a # b /\ ~ Ahead(queue, b, a)
                   => Ahead(queue', a, b)
  <1>1. IInv /\ [Next]_vars => [Ordered]_vars
    BY StepKeepsOrder
  <1> QED BY <1>1, InductiveInvariant, PTL DEF Spec, NoOvertaking

-------------------------------------------------------------------------------
(* Refinement.                                                             *)

\* The scheduler starts in an initial state of the round-robin scheduler.
LEMMA InitRefines == Init => RR!Init
  BY BootAssumption DEF Init, RR!Init, running, retired, InitTask, Ids

\* Steps that leave the queue, the states and the running task alone.
LEMMA QuietRefines ==
  ASSUME UNCHANGED <<queue, state, running>>
  PROVE  UNCHANGED RR!rrVars
  BY DEF RR!rrVars, retired

\* Queueing a boot task is an Admit.
LEMMA BootRefines ==
  ASSUME IInv, boot_task
  PROVE  RR!Next
  <1>1. /\ pc = "boot" /\ pc' = "boot" /\ cur' = cur /\ cur = InitTask
        /\ nextPid \in Ids \ {InitTask} /\ nextPid \notin tasks
        /\ state' = [state EXCEPT ![nextPid] = "User"]
        /\ queue' = Append(queue, nextPid)
    BY BootAssumption DEF IInv, boot_task, At, create, cpuVars,
       LocksAt, TasksAt, PidsFresh, CoreTypeOK, Ids, InitTask
  <1>2. \A t \in Ids : state[t] # "Dying" /\ state'[t] # "Dying"
    BY <1>1 DEF IInv, TasksAt, CoreTypeOK
  <1>3. retired = {} /\ retired' = {} /\ running = InitTask /\ running' = InitTask
    BY <1>1, <1>2 DEF retired, running
  <1>4. ~ Has(queue, nextPid)
    BY <1>1 DEF IInv, OneHome, Queued
  <1>5. RR!Admit(nextPid)
    BY <1>1, <1>3, <1>4 DEF RR!Admit, RR!Waiting, Has
  <1> QED BY <1>1, <1>5 DEF RR!Next

\* Choosing the next task is a Rotate for a User task, a Retire for a Dying one.
LEMMA SwitchRefines ==
  ASSUME IInv, switch_to_next_task
  PROVE  RR!Next \/ UNCHANGED RR!rrVars
  <1> DEFINE to    == IF requeue = <<>> THEN InitTask ELSE Head(requeue)
             later == IF requeue = <<>> THEN <<>> ELSE Tail(requeue)
  <1>1. /\ pc = "switch" /\ held = {} /\ cur \in tasks /\ cur \in Ids
        /\ state[InitTask] = "Sleepy" /\ InitTask \in Ids /\ state \in [Ids -> TaskState]
        /\ \A t \in Ids : state[t] = "Dying" => t = cur
        /\ running = cur
    BY BootAssumption DEF switch_to_next_task, At, IInv, LocksAt, TasksAt, CoreTypeOK, running, InitTask, Ids
  <1>2. /\ requeue \in Seq(Ids)
        /\ \A t : Has(requeue, t) => t \in tasks /\ state[t] = "User"
    <2>1. \A t : Queued(t) => t \in Ids
      BY DEF Queued, Has, IInv, CoreTypeOK
    <2> QED BY <1>1, <2>1, RequeueFacts DEF IInv, OneHome
  <1>3. to \in tasks /\ (to # InitTask => state[to] = "User") /\ (requeue # <<>> => state[to] = "User")
    BY <1>1, <1>2, TailFacts DEF IInv, TasksAt
  <1>4. /\ queue' = later
        /\ state' = state
        /\ running' = to
    BY <1>1, <1>3 DEF switch_to_next_task, Return, running, TASKS, cpuVars, taskVars
  <1>5. retired = {t \in Ids : state[t] = "Dying" /\ t # cur}
    BY <1>1 DEF retired
  <1>6. retired' = {t \in Ids : state[t] = "Dying" /\ t # to}
    BY <1>4 DEF retired
  <1>7. to \in Ids /\ state[to] # "Dying"
    BY <1>1, <1>3 DEF IInv, CoreTypeOK
  <1>8. CASE state[cur] = "User"
    <2>1. requeue = Append(queue, cur) /\ requeue # <<>> /\ cur # InitTask
      BY <1>1, <1>8, AppendFacts DEF requeue, IInv, CoreTypeOK
    <2>2. retired' = retired
      BY <1>1, <1>5, <1>6, <1>7, <1>8
    <2>3. RR!Rotate
      BY <1>1, <1>4, <2>1, <2>2 DEF RR!Rotate
    <2> QED BY <2>3 DEF RR!Next
  <1>9. CASE state[cur] = "Sleepy"
    <2>1. requeue = queue /\ cur = InitTask
      BY <1>1, <1>9 DEF requeue, IInv, TasksAt
    <2>2. retired' = retired
      BY <1>1, <1>5, <1>6, <1>7, <1>9
    <2>3. CASE queue = <<>>
      BY <1>1, <1>4, <2>1, <2>2, <2>3 DEF RR!rrVars
    <2>4. CASE queue # <<>>
      BY <1>1, <1>4, <2>1, <2>2, <2>4 DEF RR!Rotate, RR!Next
    <2> QED BY <2>3, <2>4
  <1>10. CASE state[cur] = "Dying"
    <2>1. requeue = queue /\ cur # InitTask
      BY <1>1, <1>10 DEF requeue
    <2>2. retired' = retired \cup {cur}
      BY <1>1, <1>5, <1>6, <1>7, <1>10
    <2>3. RR!Retire
      BY <1>1, <1>4, <2>1, <2>2 DEF RR!Retire
    <2> QED BY <2>3 DEF RR!Next
  <1> QED BY <1>1, <1>8, <1>9, <1>10 DEF TaskState

\* Every step maps to a step of the round-robin scheduler or to a stutter.
LEMMA StepRefines == IInv /\ [Next]_vars => [RR!Next]_(RR!rrVars)
  <1> SUFFICES ASSUME IInv, [Next]_vars PROVE RR!Next \/ UNCHANGED RR!rrVars
    BY DEF RR!rrVars
  <1>1. CASE UNCHANGED vars
    BY <1>1, QuietRefines DEF vars, coreVars, cpuVars, regVars, taskVars, running
  <1>2. CASE \/ run_executor \/ timer_interrupt_handler \/ Yield \/ remove \/ add
             \/ start_initproc \/ after_task_switch
    <2>1. UNCHANGED <<queue, state, cur>> /\ pc # "target" /\ pc' # "target"
      BY <1>2 DEF run_executor, timer_interrupt_handler, Yield, remove, add, start_initproc,
         after_task_switch, At, Unlock, Return, WithCurrentTask, Spin, Panic,
         cpuVars, regVars, taskVars
    <2> QED BY <2>1, QuietRefines DEF running
  <1>3. CASE switch_task
    <2>1. pc = "target" /\ next \notin held
      BY <1>3 DEF switch_task, At, IInv, LocksAt, TasksAt
    <2>2. UNCHANGED <<queue, state>> /\ pc' = "after" /\ cur' = next
      BY <1>3, <2>1 DEF switch_task, regVars
    <2> QED BY <2>1, <2>2, QuietRefines DEF running
  <1>4. CASE Exit
    <2>1. /\ pc = "user" /\ cur \in Ids
          /\ UNCHANGED <<queue, cur>> /\ pc' = "switch"
          /\ state' = [state EXCEPT ![cur] = "Dying"]
      BY <1>4 DEF Exit, At, WithCurrentTask, TASKS, cpuVars, regVars, IInv, LocksAt, TasksAt, CoreTypeOK
    <2>2. retired' = retired /\ running' = running
      BY <2>1 DEF retired, running, IInv, CoreTypeOK
    <2> QED BY <2>1, <2>2 DEF RR!rrVars
  <1>5. CASE spawn
    <2>1. /\ pc = "user" /\ UNCHANGED <<queue, cur>> /\ pc' \in {"user", "add"}
          /\ state' = state \/ state' = [state EXCEPT ![nextPid] = "User"]
      BY <1>5 DEF spawn, At, WithCurrentTask, TASKS, vars, coreVars, cpuVars, regVars, taskVars, create,
         IInv, LocksAt, TasksAt
    <2>2. \A t \in Ids : state[t] # "Dying" /\ state'[t] # "Dying"
      BY <2>1 DEF IInv, TasksAt, CoreTypeOK
    <2>3. retired' = retired /\ running' = running
      BY <2>1, <2>2 DEF retired, running
    <2> QED BY <2>1, <2>3 DEF RR!rrVars
  <1>6. CASE Spinning
    BY <1>1, <1>6 DEF Spinning
  <1> QED BY <1>1, <1>2, <1>3, <1>4, <1>5, <1>6, BootRefines, SwitchRefines
          DEF Next, KernelStep, UserStep

\* The scheduler implements the abstract round-robin scheduler, whatever its callers do.
THEOREM RefinesRoundRobin == Spec => ImplementsRoundRobin
  BY InitRefines, StepRefines, InductiveInvariant, PTL
     DEF Spec, ImplementsRoundRobin, RR!Spec

==============================================================================
