------------------------------ MODULE RoundRobin ------------------------------
(***************************************************************************)
(* What the task scheduler promises its callers, without locks, registers, *)
(* registry or switch protocol: one task runs, the others that want the    *)
(* CPU wait in arrival order, and a task that has been retired is never    *)
(* given the CPU again.  Scheduler.tla is shown to implement this.         *)
(***************************************************************************)
EXTENDS Naturals, Sequences

CONSTANTS
  Task,     \* the identifiers of the tasks that may compete for the CPU
  Idle      \* the task, not one of Task, that runs when nobody else wants to

VARIABLES
  run,      \* the task that has the CPU
  ready,    \* the waiting tasks, the one served next first
  gone      \* the tasks that gave the CPU up for good

rrVars == <<run, ready, gone>>

Waiting(t) == \E i \in 1..Len(ready) : ready[i] = t

Init ==
  /\ run = Idle
  /\ ready = <<>>
  /\ gone = {}

\* A new task joins the end of the line.
Admit(t) ==
  /\ t # run
  /\ ~ Waiting(t)
  /\ t \notin gone
  /\ ready' = Append(ready, t)
  /\ UNCHANGED <<run, gone>>

\* The CPU goes to the first in line; an ordinary task that gives it up joins
\* the end, the idle task does not.
Rotate ==
  /\ LET line == IF run = Idle THEN ready ELSE Append(ready, run)
     IN  /\ line # <<>>
         /\ run' = Head(line)
         /\ ready' = Tail(line)
  /\ UNCHANGED gone

\* The running task leaves for good.
Retire ==
  /\ run # Idle
  /\ gone' = gone \cup {run}
  /\ IF ready = <<>>
     THEN run' = Idle /\ ready' = <<>>
     ELSE run' = Head(ready) /\ ready' = Tail(ready)

Next ==
  \/ \E t \in Task : Admit(t)
  \/ Rotate
  \/ Retire

Spec == Init /\ [][Next]_rrVars

===============================================================================
