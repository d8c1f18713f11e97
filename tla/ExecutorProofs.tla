---------------------------- MODULE ExecutorProofs ----------------------------
(***************************************************************************)
(* Proofs about Executor for every capacity of its queues, every number of *)
(* tasks and of scan codes.                                                *)
(***************************************************************************)
EXTENDS Executor, SequenceTheorems, TLAPS

KeyPlaces   == {"new", "fast", "register", "again", "take"}
OtherPlaces == {"drain", "run", "check", "enable_and_hlt", "hlt"}

TypeInv ==
  /\ pc \in KeyPlaces \cup OtherPlaces \cup {"poll", "panic"}
  /\ tasks \subseteq Nat \ {NoTask} /\ Keyboard \in tasks
  /\ task_queue \in Seq(Nat)
  /\ spawner \in Seq(Nat \ {NoTask})
  /\ nextId \in Nat \ {NoTask}
  /\ waker \in {NoTask, Keyboard}
  /\ sent \in Nat
  /\ codes \in Seq(Nat) /\ accepted \in Seq(Nat) /\ printed \in Seq(Nat)

\* Which task is being polled, at each place.
CurAt ==
  /\ pc \in OtherPlaces => cur = NoTask
  /\ pc \in KeyPlaces => cur = Keyboard
  /\ pc = "poll" => cur \in tasks /\ cur # Keyboard

\* Between the registration and the second look whoever fills the queue wakes the
\* keyboard task: it is still registered, or it was woken already.
RegisteredAt == pc = "again" => waker = Keyboard \/ Queued(Keyboard)

\* Interrupts are off between the check and the hlt, so what was checked still holds.
IdleAt == pc \in {"enable_and_hlt", "hlt"} => task_queue = <<>>

\* Scan codes come out in the order they went in; none is lost or doubled after it
\* was accepted.
InOrder == accepted = printed \o codes

\* The inductive invariant.
IInv == TypeInv /\ CurAt /\ RegisteredAt /\ IdleAt /\ InOrder /\ NoTaskForgotten

-------------------------------------------------------------------------------
(* Queues.                                                                 *)

\* What a push leaves in a queue.
LEMMA PushFacts ==
  ASSUME NEW S, NEW s \in Seq(S), NEW x \in S
  PROVE  /\ Append(s, x) \in Seq(S)
         /\ Contains(Append(s, x), x)
         /\ \A y : Contains(s, y) => Contains(Append(s, x), y)
  <1>1. /\ Append(s, x) \in Seq(S) /\ Len(s) \in Nat /\ Len(Append(s, x)) = Len(s) + 1
        /\ \A i \in 1 .. Len(s) : Append(s, x)[i] = s[i]
        /\ Append(s, x)[Len(s) + 1] = x
    OBVIOUS
  <1>2. Contains(Append(s, x), x)
    BY <1>1 DEF Contains
  <1>3. \A y : Contains(s, y) => Contains(Append(s, x), y)
    BY <1>1 DEF Contains
  <1> QED BY <1>1, <1>2, <1>3

\* What a pop leaves in a queue.
LEMMA PopFacts ==
  ASSUME NEW S, NEW s \in Seq(S), s # <<>>
  PROVE  /\ Tail(s) \in Seq(S) /\ Head(s) \in S
         /\ \A y : Contains(s, y) => y = Head(s) \/ Contains(Tail(s), y)
  <1>1. /\ Tail(s) \in Seq(S) /\ Head(s) \in S /\ Len(s) \in Nat \ {0}
        /\ Len(Tail(s)) = Len(s) - 1 /\ Head(s) = s[1]
        /\ \A i \in 1 .. Len(Tail(s)) : Tail(s)[i] = s[i + 1]
    OBVIOUS
  <1>2. ASSUME NEW y, Contains(s, y), y # Head(s)
        PROVE  Contains(Tail(s), y)
    <2>1. PICK i \in 1 .. Len(s) : s[i] = y
      BY <1>2 DEF Contains
    <2>2. i # 1 /\ i - 1 \in 1 .. Len(Tail(s)) /\ Tail(s)[i - 1] = s[(i - 1) + 1]
      BY <1>1, <1>2, <2>1
    <2>3. (i - 1) + 1 = i
      BY <2>1
    <2> QED BY <2>1, <2>2, <2>3 DEF Contains
  <1> QED BY <1>1, <1>2

\* An empty queue contains nothing.
LEMMA EmptyFacts == \A y : ~ Contains(<<>>, y)
  BY DEF Contains

\* Moving the front of one queue to the end of another.
LEMMA MoveFacts ==
  ASSUME NEW s \in Seq(Nat), NEW t \in Seq(Nat), t # <<>>
  PROVE  Append(s, Head(t)) \o Tail(t) = s \o t
  OBVIOUS

\* Adding to the end of the second of two queues.
LEMMA ExtendFacts ==
  ASSUME NEW s \in Seq(Nat), NEW t \in Seq(Nat), NEW x \in Nat
  PROVE  Append(s \o t, x) = s \o Append(t, x)
  <1> DEFINE u == Append(s \o t, x)
             v == s \o Append(t, x)
  <1>1. u \in Seq(Nat) /\ v \in Seq(Nat)
    OBVIOUS
  <1>2. Len(u) = Len(s) + Len(t) + 1 /\ Len(v) = Len(s) + Len(t) + 1
    OBVIOUS
  <1>3. ASSUME NEW i \in 1 .. Len(u) PROVE u[i] = v[i]
    <2>1. CASE i <= Len(s)
      BY <2>1
    <2>2. CASE i > Len(s) /\ i <= Len(s) + Len(t)
      BY <2>2
    <2>3. CASE i = Len(s) + Len(t) + 1
      BY <2>3
    <2> QED BY <2>1, <2>2, <2>3, <1>2
  <1> HIDE DEF u, v
  <1>4. u = v
    BY <1>1, <1>2, <1>3, SeqEqual
  <1> QED BY <1>4 DEF u, v

-------------------------------------------------------------------------------
(* The safety properties follow from the invariant.                        *)

LEMMA InvImplies == IInv => NoTaskForgotten /\ SleepsOnlyWhenIdle /\ InOrder
  <1> SUFFICES ASSUME IInv, pc = "hlt" PROVE task_queue = <<>> /\ codes = <<>>
    BY DEF IInv, SleepsOnlyWhenIdle
  <1>1. task_queue = <<>> /\ cur = NoTask /\ Keyboard \in tasks
    BY DEF IInv, IdleAt, CurAt, TypeInv, OtherPlaces
  <1>2. ~ Queued(Keyboard) /\ Keyboard # cur
    BY <1>1, EmptyFacts DEF Queued, Keyboard, NoTask
  <1> QED BY <1>1, <1>2 DEF IInv, NoTaskForgotten

LEMMA InitInv == Init => IInv
  <1> SUFFICES ASSUME Init PROVE IInv
    OBVIOUS
  <1>0. Boot \in Nat \ {0}
    BY ExecutorAssumption
  <1>1. /\ task_queue \in Seq(Nat)
        /\ Len(task_queue) = Boot /\ \A i \in 1 .. Boot : task_queue[i] = i
    BY <1>0 DEF Init
  <1>2. TypeInv
    BY <1>0, <1>1 DEF Init, TypeInv, Keyboard, NoTask, OtherPlaces
  <1>3. \A t \in tasks : Queued(t)
    BY <1>1 DEF Init, Queued, Contains
  <1>4. InOrder
    BY DEF Init, InOrder
  <1> QED BY <1>2, <1>3, <1>4 DEF IInv, Init, CurAt, RegisteredAt, IdleAt, NoTaskForgotten,
            KeyPlaces, OtherPlaces

-------------------------------------------------------------------------------
(* The steps.                                                              *)

USE DEF Keyboard, NoTask

\* Steps that only move the executor on, from one place to another where the same
\* task, or none, is polled.
LEMMA MoveOn ==
  ASSUME IInv, UNCHANGED <<execVars, keyVars>>,
         \/ pc \in OtherPlaces /\ pc' \in OtherPlaces
         \/ pc \in KeyPlaces /\ pc' \in KeyPlaces \ {"again"},
         pc' \in {"enable_and_hlt", "hlt"} => task_queue = <<>>
  PROVE  IInv'
  <1> USE DEF execVars, keyVars, OtherPlaces, KeyPlaces
  <1>1. TypeInv' /\ CurAt'
    BY DEF IInv, TypeInv, CurAt
  <1>2. RegisteredAt' /\ IdleAt' /\ InOrder'
    BY DEF IInv, RegisteredAt, IdleAt, InOrder
  <1>3. NoTaskForgotten'
    BY DEF IInv, NoTaskForgotten, Queued
  <1> QED BY <1>1, <1>2, <1>3 DEF IInv

LEMMA DrainInv == ASSUME IInv, drain_spawner PROVE IInv'
  <1> DEFINE t == Head(spawner)
  <1>0. TypeInv /\ pc = "drain" /\ spawner # <<>> /\ UNCHANGED <<cur, nextId, keyVars>>
    BY DEF IInv, drain_spawner
  <1>1. t \in Nat \ {NoTask} /\ Tail(spawner) \in Seq(Nat \ {NoTask})
    BY <1>0, PopFacts DEF TypeInv
  <1>2. tasks' = tasks \cup {t} /\ spawner' = Tail(spawner) /\ push_task(t)
    BY DEF drain_spawner, spawn
  <1>3. CASE task_queue' = Append(task_queue, t) /\ UNCHANGED pc
    <2>1. /\ task_queue' \in Seq(Nat) /\ Contains(task_queue', t)
          /\ \A y : Contains(task_queue, y) => Contains(task_queue', y)
      BY <1>0, <1>1, <1>3, PushFacts DEF TypeInv
    <2>2. TypeInv'
      BY <1>0, <1>1, <1>2, <1>3, <2>1 DEF TypeInv, keyVars
    <2>3. NoTaskForgotten'
      BY <1>0, <1>2, <1>3, <2>1 DEF IInv, NoTaskForgotten, Queued, keyVars
    <2> QED BY <1>0, <1>2, <1>3, <2>2, <2>3 DEF IInv, CurAt, RegisteredAt, IdleAt, InOrder, keyVars,
              KeyPlaces, OtherPlaces
  <1>4. CASE pc' = "panic" /\ UNCHANGED task_queue
    <2>1. TypeInv'
      BY <1>0, <1>1, <1>2, <1>4 DEF TypeInv, keyVars
    <2> QED BY <1>0, <1>2, <1>4, <2>1 DEF IInv, CurAt, RegisteredAt, IdleAt, InOrder, NoTaskForgotten,
              keyVars, KeyPlaces, OtherPlaces
  <1> QED BY <1>2, <1>3, <1>4 DEF push_task

LEMMA NextTaskInv == ASSUME IInv, next_task PROVE IInv'
  <1> DEFINE t == Head(task_queue)
  <1>0. /\ TypeInv /\ pc = "run" /\ cur = NoTask /\ task_queue # <<>>
        /\ task_queue' = Tail(task_queue) /\ UNCHANGED <<tasks, spawner, nextId, keyVars>>
    BY DEF IInv, CurAt, OtherPlaces, next_task
  <1>1. /\ task_queue' \in Seq(Nat) /\ t \in Nat
        /\ \A y : Contains(task_queue, y) => y = t \/ Contains(task_queue', y)
    BY <1>0, PopFacts DEF TypeInv
  <1>2. CASE t \notin tasks
    <2>1. UNCHANGED <<pc, cur>>
      BY <1>2 DEF next_task
    <2>2. TypeInv'
      BY <1>0, <1>1, <2>1 DEF TypeInv, keyVars
    <2>3. NoTaskForgotten'
      BY <1>0, <1>1, <1>2, <2>1 DEF IInv, NoTaskForgotten, Queued, keyVars
    <2> QED BY <1>0, <2>1, <2>2, <2>3 DEF IInv, CurAt, RegisteredAt, IdleAt, InOrder, keyVars,
              KeyPlaces, OtherPlaces
  <1>3. CASE t \in tasks
    <2>1. cur' = t /\ pc' = IF t # Keyboard THEN "poll" ELSE IF ready THEN "fast" ELSE "new"
      BY <1>3 DEF next_task
    <2>2. TypeInv'
      BY <1>0, <1>1, <2>1 DEF TypeInv, keyVars, KeyPlaces
    <2>3. NoTaskForgotten'
      BY <1>0, <1>1, <2>1 DEF IInv, TypeInv, NoTaskForgotten, Queued, keyVars
    <2>4. CurAt'
      BY <1>0, <1>3, <2>1 DEF CurAt, KeyPlaces, OtherPlaces
    <2> QED BY <1>0, <2>1, <2>2, <2>3, <2>4 DEF IInv, RegisteredAt, IdleAt, InOrder, keyVars
  <1> QED BY <1>2, <1>3

LEMMA PollInv == ASSUME IInv, poll_ready \/ poll_yield \/ poll_spawn PROVE IInv'
  <1>0. TypeInv /\ pc = "poll" /\ cur \in tasks /\ cur # Keyboard /\ UNCHANGED keyVars
    BY DEF IInv, CurAt, poll_ready, poll_yield, poll_spawn
  <1>1. CASE poll_ready
    <2>1. TypeInv'
      BY <1>0, <1>1 DEF TypeInv, poll_ready, keyVars, OtherPlaces
    <2>2. NoTaskForgotten'
      BY <1>0, <1>1 DEF IInv, NoTaskForgotten, Queued, poll_ready, keyVars
    <2> QED BY <1>0, <1>1, <2>1, <2>2 DEF IInv, poll_ready, CurAt, RegisteredAt, IdleAt, InOrder,
              keyVars, KeyPlaces, OtherPlaces
  <1>2. CASE poll_yield
    <2>1. CASE task_queue' = Append(task_queue, cur) /\ pc' = "run" /\ cur' = NoTask
      <3>1. /\ task_queue' \in Seq(Nat) /\ Contains(task_queue', cur)
            /\ \A y : Contains(task_queue, y) => Contains(task_queue', y)
        BY <1>0, <2>1, PushFacts DEF TypeInv
      <3>2. TypeInv'
        BY <1>0, <1>2, <2>1, <3>1 DEF TypeInv, poll_yield, keyVars, OtherPlaces
      <3>3. NoTaskForgotten'
        BY <1>0, <1>2, <2>1, <3>1 DEF IInv, NoTaskForgotten, Queued, poll_yield, keyVars
      <3> QED BY <1>0, <1>2, <2>1, <3>2, <3>3 DEF IInv, poll_yield, CurAt, RegisteredAt, IdleAt, InOrder,
                keyVars, KeyPlaces, OtherPlaces
    <2>2. CASE pc' = "panic" /\ UNCHANGED <<task_queue, cur>>
      <3>1. TypeInv'
        BY <1>0, <1>2, <2>2 DEF TypeInv, poll_yield, keyVars
      <3> QED BY <1>0, <1>2, <2>2, <3>1 DEF IInv, poll_yield, CurAt, RegisteredAt, IdleAt, InOrder,
                NoTaskForgotten, keyVars, KeyPlaces, OtherPlaces
    <2> QED BY <1>2, <2>1, <2>2 DEF poll_yield
  <1>3. CASE poll_spawn
    <2>1. CASE spawner' = Append(spawner, nextId) /\ UNCHANGED pc
      <3>1. spawner' \in Seq(Nat \ {NoTask})
        BY <1>0, <2>1, PushFacts DEF TypeInv
      <3>2. TypeInv'
        BY <1>0, <1>3, <2>1, <3>1 DEF TypeInv, poll_spawn, keyVars
      <3>3. NoTaskForgotten'
        BY <1>0, <1>3, <2>1 DEF IInv, NoTaskForgotten, Queued, poll_spawn, keyVars
      <3> QED BY <1>0, <1>3, <2>1, <3>2, <3>3 DEF IInv, poll_spawn, CurAt, RegisteredAt, IdleAt, InOrder,
                keyVars, KeyPlaces, OtherPlaces
    <2>2. CASE pc' = "panic" /\ UNCHANGED spawner
      <3>1. TypeInv'
        BY <1>0, <1>3, <2>2 DEF TypeInv, poll_spawn, keyVars
      <3> QED BY <1>0, <1>3, <2>2, <3>1 DEF IInv, poll_spawn, CurAt, RegisteredAt, IdleAt, InOrder,
                NoTaskForgotten, keyVars, KeyPlaces, OtherPlaces
    <2> QED BY <1>3, <2>1, <2>2 DEF poll_spawn
  <1> QED BY <1>1, <1>2, <1>3

\* Taking a scan code, at whichever of the two looks.
LEMMA TakeCode ==
  ASSUME IInv, codes # <<>>, printed' = Append(printed, Head(codes)), codes' = Tail(codes),
         pc \in KeyPlaces, pc' \in KeyPlaces \ {"again"},
         UNCHANGED <<execVars, ready, sent, accepted>>, waker' = waker
  PROVE  IInv'
  <1>0. TypeInv /\ cur = Keyboard
    BY DEF IInv, CurAt
  <1>1. printed' \in Seq(Nat) /\ codes' \in Seq(Nat)
    BY <1>0, PopFacts, PushFacts DEF TypeInv
  <1>2. InOrder'
    BY <1>0, MoveFacts DEF IInv, InOrder, TypeInv
  <1>3. TypeInv'
    BY <1>0, <1>1 DEF TypeInv, execVars
  <1>4. NoTaskForgotten'
    BY <1>0 DEF IInv, NoTaskForgotten, Queued, execVars, KeyPlaces
  <1> QED BY <1>0, <1>2, <1>3, <1>4 DEF IInv, CurAt, RegisteredAt, IdleAt, execVars, KeyPlaces, OtherPlaces

LEMMA KeyboardInv ==
  ASSUME IInv, new \/ fast_path \/ no_code \/ register \/ poll_again \/ take
  PROVE  IInv'
  <1>0. TypeInv /\ pc \in KeyPlaces /\ cur = Keyboard
    BY DEF IInv, CurAt, KeyPlaces, new, fast_path, no_code, register, poll_again, take
  <1>1. CASE new
    <2>1. TypeInv'
      BY <1>0, <1>1 DEF new, TypeInv, execVars, KeyPlaces
    <2>2. NoTaskForgotten'
      BY <1>0, <1>1 DEF new, IInv, NoTaskForgotten, Queued, execVars
    <2> QED BY <1>0, <1>1, <2>1, <2>2 DEF new, IInv, CurAt, RegisteredAt, IdleAt, InOrder, execVars,
              KeyPlaces, OtherPlaces
  <1>2. CASE fast_path
    BY <1>0, <1>2, TakeCode DEF fast_path, KeyPlaces
  <1>3. CASE no_code
    BY <1>3, MoveOn DEF no_code, KeyPlaces
  <1>4. CASE register
    <2>1. TypeInv'
      BY <1>0, <1>4 DEF register, TypeInv, execVars, KeyPlaces
    <2>2. NoTaskForgotten'
      BY <1>0, <1>4 DEF register, IInv, NoTaskForgotten, Queued, execVars
    <2> QED BY <1>0, <1>4, <2>1, <2>2 DEF register, IInv, CurAt, RegisteredAt, IdleAt, InOrder, execVars,
              KeyPlaces, OtherPlaces
  <1>5. CASE poll_again
    <2>1. CASE codes # <<>>
      BY <1>0, <1>5, <2>1, TakeCode DEF poll_again, pop_again, KeyPlaces, execVars
    <2>2. CASE codes = <<>>
      <3>1. pc = "again" /\ pc' = "run" /\ cur' = NoTask /\ UNCHANGED <<codes, printed>>
        BY <1>5, <2>2 DEF poll_again, pop_again, Pending
      <3>2. TypeInv'
        BY <1>0, <1>5, <3>1 DEF poll_again, TypeInv, OtherPlaces
      <3>3. waker = Keyboard \/ Queued(Keyboard)
        BY <3>1 DEF IInv, RegisteredAt
      <3>4. NoTaskForgotten'
        BY <1>0, <1>5, <2>2, <3>1, <3>3 DEF poll_again, IInv, NoTaskForgotten, Queued
      <3> QED BY <1>5, <3>1, <3>2, <3>4 DEF poll_again, IInv, CurAt, RegisteredAt, IdleAt, InOrder,
                KeyPlaces, OtherPlaces
    <2> QED BY <2>1, <2>2
  <1>6. CASE take
    <2>1. TypeInv'
      BY <1>0, <1>6 DEF take, TypeInv, execVars, KeyPlaces
    <2>2. NoTaskForgotten'
      BY <1>0, <1>6 DEF take, IInv, NoTaskForgotten, Queued, execVars
    <2> QED BY <1>0, <1>6, <2>1, <2>2 DEF take, IInv, CurAt, RegisteredAt, IdleAt, InOrder, execVars,
              KeyPlaces, OtherPlaces
  <1> QED BY <1>1, <1>2, <1>3, <1>4, <1>5, <1>6

\* An interrupt, at any place where it can come.
LEMMA InterruptInv == ASSUME IInv, add_scancode \/ timer PROVE IInv'
  <1>0. /\ TypeInv /\ interrupts_enabled /\ UNCHANGED <<cur, tasks, spawner, nextId, ready, printed>>
        /\ Resume \in KeyPlaces \cup OtherPlaces \cup {"poll"}
        /\ Resume \notin {"enable_and_hlt", "hlt"}
        /\ Resume \in KeyPlaces \cup {"poll"} => Resume = pc
        /\ Resume \in OtherPlaces => pc \in OtherPlaces
    BY DEF IInv, TypeInv, add_scancode, timer, execVars, keyVars, interrupts_enabled, Resume,
         KeyPlaces, OtherPlaces
  <1>1. CASE timer
    BY <1>1, MoveOn DEF timer, Resume, OtherPlaces
  <1>2. CASE add_scancode /\ ~ (ready /\ Len(codes) < CodeCap)
    <2>1. pc' = Resume /\ UNCHANGED <<codes, accepted, waker, task_queue>> /\ sent' = sent + 1
      BY <1>2 DEF add_scancode
    <2>2. TypeInv'
      BY <1>0, <2>1 DEF TypeInv
    <2>3. NoTaskForgotten'
      BY <1>0, <2>1 DEF IInv, NoTaskForgotten, Queued, interrupts_enabled
    <2> QED BY <1>0, <2>1, <2>2, <2>3 DEF IInv, CurAt, RegisteredAt, IdleAt, InOrder, Queued,
              KeyPlaces, OtherPlaces
  <1>3. CASE add_scancode /\ ready /\ Len(codes) < CodeCap
    <2>0. /\ sent' = sent + 1 /\ codes' = Append(codes, sent')
          /\ accepted' = Append(accepted, sent') /\ wake
      BY <1>3 DEF add_scancode
    <2>1. /\ sent' \in Nat /\ codes' \in Seq(Nat) /\ accepted' \in Seq(Nat)
      BY <1>0, <2>0, PushFacts DEF TypeInv
    <2>2. InOrder'
      BY <1>0, <2>0, <2>1, ExtendFacts, ZenonT(60) DEF IInv, InOrder, TypeInv
    <2>3. CASE waker = NoTask
      <3>1. pc' = Resume /\ UNCHANGED <<waker, task_queue>>
        BY <2>0, <2>3 DEF wake
      <3>2. TypeInv'
        BY <1>0, <2>0, <2>1, <3>1 DEF TypeInv
      <3>3. NoTaskForgotten'
        BY <1>0, <2>3, <3>1 DEF IInv, NoTaskForgotten, Queued, interrupts_enabled
      <3> QED BY <1>0, <2>2, <3>1, <3>2, <3>3 DEF IInv, CurAt, RegisteredAt, IdleAt, Queued,
                KeyPlaces, OtherPlaces
    <2>4. CASE waker # NoTask /\ Len(task_queue) < QueueCap
      <3>1. waker = Keyboard /\ waker' = NoTask /\ pc' = Resume /\ task_queue' = Append(task_queue, Keyboard)
        BY <1>0, <2>0, <2>4 DEF wake, TypeInv
      <3>2. /\ task_queue' \in Seq(Nat) /\ Contains(task_queue', Keyboard)
            /\ \A y : Contains(task_queue, y) => Contains(task_queue', y)
        BY <1>0, <3>1, PushFacts DEF TypeInv
      <3>3. TypeInv'
        BY <1>0, <2>0, <2>1, <3>1, <3>2 DEF TypeInv
      <3>4. NoTaskForgotten'
        BY <1>0, <3>1, <3>2 DEF IInv, NoTaskForgotten, Queued, interrupts_enabled
      <3> QED BY <1>0, <2>2, <3>1, <3>2, <3>3, <3>4 DEF IInv, CurAt, RegisteredAt, IdleAt, Queued,
                KeyPlaces, OtherPlaces
    <2>5. CASE waker # NoTask /\ ~ (Len(task_queue) < QueueCap)
      <3>1. waker' = NoTask /\ pc' = "panic" /\ UNCHANGED task_queue
        BY <2>0, <2>5 DEF wake
      <3>2. TypeInv'
        BY <1>0, <2>0, <2>1, <3>1 DEF TypeInv
      <3> QED BY <2>2, <3>1, <3>2 DEF IInv, CurAt, RegisteredAt, IdleAt, NoTaskForgotten, KeyPlaces, OtherPlaces
    <2> QED BY <2>3, <2>4, <2>5
  <1> QED BY <1>1, <1>2, <1>3

\* Every step preserves the invariant.
LEMMA NextInv == IInv /\ [Next]_vars => IInv'
  <1> SUFFICES ASSUME IInv, [Next]_vars PROVE IInv'
    OBVIOUS
  <1>1. CASE UNCHANGED vars
    BY <1>1 DEF vars, execVars, keyVars, IInv, TypeInv, CurAt, RegisteredAt, IdleAt, InOrder,
         NoTaskForgotten, Queued
  <1>2. CASE spawner_empty
    BY <1>2, MoveOn DEF spawner_empty, OtherPlaces
  <1>3. CASE disable
    BY <1>3, MoveOn DEF disable, OtherPlaces
  <1>4. CASE sleep_if_idle
    BY <1>4, MoveOn DEF sleep_if_idle, OtherPlaces
  <1>5. CASE enable_and_hlt
    <2>1. task_queue = <<>>
      BY <1>5 DEF enable_and_hlt, IInv, IdleAt
    <2> QED BY <1>5, <2>1, MoveOn DEF enable_and_hlt, OtherPlaces
  <1> QED BY <1>1, <1>2, <1>3, <1>4, <1>5, DrainInv, NextTaskInv, PollInv, KeyboardInv, InterruptInv
          DEF Next, ExecutorStep, Panicked

\* The invariant holds in every reachable state.
LEMMA Invariance == Spec => []IInv
  BY InitInv, NextInv, PTL DEF Spec

-------------------------------------------------------------------------------
(* The results.                                                            *)

\* No task is forgotten: the two looks of ScancodeStream::poll_next with the waker
\* registered in between, and the queue of woken tasks, lose no wake-up.
THEOREM NoWakeupLost == Spec => []NoTaskForgotten
  BY InvImplies, Invariance, PTL

\* sleep_if_idle halts the CPU only if no task is queued and no scan code waits, for
\* every timing of the keyboard.
THEOREM SleepSound == Spec => []SleepsOnlyWhenIdle
  BY InvImplies, Invariance, PTL

\* print_keypresses handles the accepted scan codes in their order, each once.
THEOREM ScancodesInOrder == Spec => []InOrder
  BY InvImplies, Invariance, PTL

===============================================================================
