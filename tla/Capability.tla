------------------------------ MODULE Capability ------------------------------
(***************************************************************************)
(* The capability tables of the tasks and the system calls on them:        *)
(* idker/src/capability/{mod,syscall}.rs.                                  *)
(*                                                                         *)
(* A call runs to completion on the one CPU that runs tasks, so a call is  *)
(* one step, made by any task that has a program.  The kernel hands out no *)
(* capability at boot, and its only way to make a child (spawn) hangs, see *)
(* Scheduler; this module is therefore the contract of the component for   *)
(* every family of tasks and every initial grant.                          *)
(***************************************************************************)
EXTENDS Integers, Sequences, FiniteSets

CONSTANTS
  Tasks,       \* the registered tasks
  Parent,      \* TaskContext.parent of each, a member of Tasks or NoTask
  NoTask,      \* a pid that no registered task has
  Empty,       \* the tasks without a program: user_entry_point is zero
  BootCaps,    \* the capabilities each task is given at boot, in order
  PhysLimit,   \* the last address PhysAddr::try_new accepts (2^52 - 1)
  Arguments,   \* the addresses a program passes to restrict
  MaxHandle    \* bound: no task issues more handles than this

Perm == {"DUPLICATE", "SHAREABLE", "TRANSFER"}
Kind == {"MapPhysical", "MapVirtualToRam", "ProcessSpawn", "ChannelCreate"}

PhysAddr == 0 .. PhysLimit

\* from and to are the range of a MapPhysical, and zero in the other kinds.
CapabilityT == [perms : SUBSET Perm, kind : Kind, from : PhysAddr, to : PhysAddr]

ASSUME CapAssumption ==
  /\ IsFiniteSet(Tasks)
  /\ NoTask \notin Tasks
  /\ Parent \in [Tasks -> Tasks \cup {NoTask}]
  /\ \A t \in Tasks : Parent[t] # t
  /\ Empty \subseteq Tasks
  /\ PhysLimit \in Nat
  /\ BootCaps \in [Tasks -> Seq(CapabilityT)]
  /\ Arguments \subseteq Nat
  /\ MaxHandle \in Nat

VARIABLES
  handles,      \* TaskCapabilityStorage.handles of each task
  next_handle,  \* TaskCapabilityStorage.next_handle of each task
  ret           \* the call that returned last, and its result

vars == <<handles, next_handle, ret>>

Handle == 0 .. MaxHandle
Result == {"Ok", "WrongCapability", "WrongCapabilityPerms", "WrongProcess",
           "WrongParameters", "NoMemory", "NotImplemented"}
Call   == {"boot", "clone", "restrict", "drop", "share", "transfer"}

Init ==
  /\ handles = [t \in Tasks |->
                 [i \in 1..Len(BootCaps[t]) |-> [handle |-> i - 1, cap |-> BootCaps[t][i]]]]
  /\ next_handle = [t \in Tasks |-> Len(BootCaps[t])]
  /\ ret = [call |-> "boot", code |-> "Ok"]

-------------------------------------------------------------------------------
(* The storage.  A "..._fault" is a broken form of the definition after    *)
(* it, used only to show that a property notices.                          *)

\* The first entry with the handle: what find and position look for.
Position(s, h) ==
  {i \in 1..Len(s) : s[i].handle = h /\ \A j \in 1 .. i-1 : s[j].handle # h}

RemoveAt(s, i) == [j \in 1 .. Len(s) - 1 |-> IF j < i THEN s[j] ELSE s[j + 1]]

issue_fault(n) == n                                        \* counter not advanced
issue(n) == n + 1

may_duplicate_fault(c) == TRUE                             \* permission not checked
may_duplicate(c) == "DUPLICATE" \in c.perms

may_share_fault(c) == TRUE                                 \* permission not checked
may_share(c) == "SHAREABLE" \in c.perms

\* The checks of restrict on a MapPhysical(from, to).
narrows_fault_high(c, a, b) == a <= b /\ a >= c.from       \* upper end not checked
narrows_fault_low(c, a, b) ==                              \* lower end not checked
  a <= b /\ a \in PhysAddr /\ b \in PhysAddr /\ b <= c.to
narrows(c, a, b) ==
  /\ a <= b
  /\ a \in PhysAddr /\ b \in PhysAddr
  /\ ~ (a < c.from \/ b > c.to)

accepts_fault(p, t) == TRUE                                \* any registered task
accepts(p, t) == Parent[p] = t

\* Every call ends by reporting its result.
Return(call, code) == ret' = [call |-> call, code |-> code]
Error(call, code)  == Return(call, code) /\ UNCHANGED <<handles, next_handle>>

\* TaskCapabilityStorage::insert into t's table, given the tables hs before it:
\* the handle is used up even when try_reserve then finds no memory.
insert(call, hs, t, c) ==
  /\ next_handle[t] < MaxHandle
  /\ next_handle' = [next_handle EXCEPT ![t] = issue(@)]
  /\ \/ /\ handles' = [hs EXCEPT ![t] = Append(@, [handle |-> next_handle[t], cap |-> c])]
        /\ Return(call, "Ok")
     \/ /\ handles' = hs
        /\ Return(call, "NoMemory")

-------------------------------------------------------------------------------
(* The system calls, made by task t.                                       *)

clone(t, h) ==
  LET s == handles[t]
  IN  IF Position(s, h) = {} THEN Error("clone", "WrongCapability")
      ELSE \E i \in Position(s, h) :
             IF ~ may_duplicate(s[i].cap) THEN Error("clone", "WrongCapabilityPerms")
             ELSE insert("clone", handles, t, s[i].cap)

restrict(t, h, a, b) ==
  LET s == handles[t]
  IN  IF Position(s, h) = {} THEN Error("restrict", "WrongCapability")
      ELSE \E i \in Position(s, h) :
             IF s[i].cap.kind = "MapVirtualToRam" THEN Error("restrict", "NotImplemented")
             ELSE IF s[i].cap.kind # "MapPhysical" \/ ~ narrows(s[i].cap, a, b)
             THEN Error("restrict", "WrongParameters")
             ELSE /\ handles' = [handles EXCEPT ![t][i].cap = [@ EXCEPT !.from = a, !.to = b]]
                  /\ Return("restrict", "Ok")
                  /\ UNCHANGED next_handle

cdrop(t, h) ==
  LET s == handles[t]
  IN  IF Position(s, h) = {} THEN Error("drop", "WrongCapability")
      ELSE \E i \in Position(s, h) :
             /\ handles' = [handles EXCEPT ![t] = RemoveAt(s, i)]
             /\ Return("drop", "Ok")
             /\ UNCHANGED next_handle

\* The table is extended before the target is looked at, and not put back.
deliver_fault(call, hs, t, p, c) ==
  IF p \in Tasks /\ accepts(p, t) THEN insert(call, hs, p, c)
  ELSE /\ handles' = [hs EXCEPT ![t] = Append(@, [handle |-> next_handle[t], cap |-> c])]
       /\ Return(call, "WrongProcess")
       /\ UNCHANGED next_handle

\* The end of process_share_transfer, once the capability c was taken out of
\* the caller's table (transfer) or copied (share), which left the tables hs.
deliver(call, hs, t, p, c) ==
  IF p \notin Tasks \/ ~ accepts(p, t)
  THEN /\ handles' = hs
       /\ Return(call, "WrongProcess")
       /\ UNCHANGED next_handle
  ELSE insert(call, hs, p, c)

share(t, p, h) ==
  LET s == handles[t]
  IN  IF p = t THEN Error("share", "WrongProcess")
      ELSE IF Position(s, h) = {} THEN Error("share", "WrongCapability")
      ELSE \E i \in Position(s, h) :
             IF ~ may_share(s[i].cap) THEN Error("share", "WrongCapabilityPerms")
             ELSE deliver("share", handles, t, p, s[i].cap)

transfer(t, p, h) ==
  LET s == handles[t]
  IN  IF p = t THEN Error("transfer", "WrongProcess")
      ELSE IF Position(s, h) = {} THEN Error("transfer", "WrongCapability")
      ELSE \E i \in Position(s, h) :
             deliver("transfer", [handles EXCEPT ![t] = RemoveAt(s, i)], t, p, s[i].cap)

\* ProcessCapShare and ProcessCapTransfer refuse pid zero before anything else.
process_share_transfer(t) ==
  \/ Error("share", "WrongParameters")
  \/ Error("transfer", "WrongParameters")
  \/ \E p \in Tasks \cup {NoTask}, h \in Handle : share(t, p, h) \/ transfer(t, p, h)

Next ==
  \E t \in Tasks \ Empty :
    \/ \E h \in Handle : clone(t, h)
    \/ \E h \in Handle, a, b \in Arguments : restrict(t, h, a, b)
    \/ \E h \in Handle : cdrop(t, h)
    \/ process_share_transfer(t)

Spec == Init /\ [][Next]_vars

-------------------------------------------------------------------------------
(* Properties.                                                             *)

Entry == [handle : Nat, cap : CapabilityT]

TypeOK ==
  /\ handles \in [Tasks -> Seq(Entry)]
  /\ next_handle \in [Tasks -> Nat]
  /\ ret \in [call : Call, code : Result]

\* In each table the handles go up strictly and stay below next_handle: a
\* handle names at most one capability, through every mix of inserts (also the
\* ones that ran out of memory) and deletions in the middle.
FreshHandles ==
  \A t \in Tasks :
    /\ \A i \in 1..Len(handles[t]) : handles[t][i].handle < next_handle[t]
    /\ \A i, j \in 1..Len(handles[t]) : i < j => handles[t][i].handle < handles[t][j].handle

\* c gives no right that b does not give.
Derives(c, b) ==
  /\ c.perms = b.perms
  /\ c.kind = b.kind
  /\ b.from <= c.from
  /\ c.to <= b.to

\* The families closed under "parent of".
UpClosed == {S \in SUBSET Tasks : \A t \in S : Parent[t] \in Tasks => Parent[t] \in S}

\* Authority comes from above and never grows: whatever a task of a family
\* closed under parents holds derives from what the family got at boot.  Take
\* for the family a task and its ancestors.
NoAmplification ==
  \A S \in UpClosed : \A t \in S : \A i \in 1..Len(handles[t]) :
    \E a \in S : \E k \in 1..Len(BootCaps[a]) : Derives(handles[t][i].cap, BootCaps[a][k])

\* A handle keeps its meaning: over a step an entry is either issued fresh, or
\* was in the same table under the same handle with at least the same rights.
HandlesStable ==
  [][\A t \in Tasks : \A i \in 1..Len(handles'[t]) :
       LET e == handles'[t][i]
       IN  \/ e.handle >= next_handle[t]
           \/ \E j \in 1..Len(handles[t]) :
                handles[t][j].handle = e.handle /\ Derives(e.cap, handles[t][j].cap)]_vars

\* The capabilities that may be neither duplicated nor shared, over all tables.
Linear(c) == c.perms \cap {"DUPLICATE", "SHAREABLE"} = {}
LinearEntries ==
  UNION {{<<t, i>> : i \in {k \in 1..Len(handles[t]) : Linear(handles[t][k].cap)}} : t \in Tasks}

\* A capability without DUPLICATE and SHAREABLE is moved, never copied: no call
\* makes more of them, whichever tasks and tables it involves.
LinearNeverCopied ==
  [][Cardinality(LinearEntries') <= Cardinality(LinearEntries)]_vars

\* A failing call changes no table.  The exception is a transfer, which deletes
\* the caller's entry before it looks at the target: it may have lost that one
\* entry, and nothing else.
FailureLosesAtMostTheTransferred ==
  [][ret'.code # "Ok" =>
       \/ handles' = handles
       \/ /\ ret'.call = "transfer"
          /\ \E t \in Tasks : \E i \in 1..Len(handles[t]) :
               handles' = [handles EXCEPT ![t] = RemoveAt(@, i)]]_vars

===============================================================================
