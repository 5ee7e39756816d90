----------------------------- MODULE TaskTable -----------------------------
(***************************************************************************)
(* The task table: kernel/proc/task.c.  A function is one action from      *)
(* where it takes proc_lock to where it drops it.  Two are longer than     *)
(* that: proc_fork_current drops the lock to allocate a stack and checks   *)
(* the slot it has chosen again afterwards, and task_create_kernel_thread  *)
(* allocates its stack before it takes the lock.  Several callers may be   *)
(* in these unlocked parts at once, in forks that chose the same slot too. *)
(*                                                                         *)
(* current_task is moved by sched_yield, which Sched models in detail and  *)
(* which may choose any switchable task here, and by proc_set_current, as  *)
(* the unit tests do.  Names, arguments and registers are left out.        *)
(***************************************************************************)
EXTENDS TaskSlots

CONSTANTS
  MaxStacks,  \* how many kernel stacks the heap can provide
  MaxPid,     \* bound on next_pid (int32_t in the code)
  TaskCallers \* flows of control that may be inside task.c

ASSUME TableAssumption == MaxStacks \in Nat /\ MaxPid \in Nat /\ IsFiniteSet(TaskCallers)

NoSlot == -1

VARIABLES
  pid, ppid,          \* fields of task_table
  task_used, next_pid,
  at,                 \* where a caller is: "out"; "chosen", in a fork without a
                      \* stack; "fork" or "thread", with a stack and no lock
  slot,               \* the slot its fork has chosen
  stacks,             \* kernel stacks allocated and not freed
  reaped              \* history: tasks that waitpid has removed

table_vars == <<state, pid, ppid, task_used, next_pid, current, at, slot, stacks, reaped>>
call_vars == <<at, slot>>

Live == {t \in Tasks : state[t] # "UNUSED"}

TableTypeOK ==
  /\ state \in [Tasks -> {"UNUSED", "RUNNABLE", "RUNNING", "ZOMBIE"}]
  /\ pid \in [Tasks -> Nat] /\ ppid \in [Tasks -> Nat]
  /\ task_used \in Nat /\ next_pid \in Nat
  /\ current \in Tasks
  /\ at \in [TaskCallers -> {"out", "chosen", "fork", "thread"}]
  /\ slot \in [TaskCallers -> Tasks \cup {NoSlot}]
  /\ \A k \in TaskCallers : at[k] \in {"chosen", "fork"} <=> slot[k] # NoSlot
  /\ stacks \in Nat /\ reaped \in Nat

\* proc_init: the bootstrap task runs on the boot stack.
TableInit ==
  /\ state = [t \in Tasks |-> IF t = 0 THEN "RUNNING" ELSE "UNUSED"]
  /\ pid = [t \in Tasks |-> IF t = 0 THEN 1 ELSE 0]
  /\ ppid = [t \in Tasks |-> 0]
  /\ task_used = 1 /\ next_pid = 2
  /\ current = 0
  /\ at = [k \in TaskCallers |-> "out"]
  /\ slot = [k \in TaskCallers |-> NoSlot]
  /\ stacks = 0 /\ reaped = 0

-----------------------------------------------------------------------------
\* Mutant: pids are taken from the slot, so that they are used again.
NextPidMutant == task_used

\* next_pid++
NextPid == next_pid

\* A child of the current task is put into slot t.
FillSlot(t) ==
  /\ next_pid <= MaxPid
  /\ state' = [state EXCEPT ![t] = "RUNNABLE"]
  /\ pid' = [pid EXCEPT ![t] = NextPid]
  /\ ppid' = [ppid EXCEPT ![t] = pid[current]]
  /\ next_pid' = next_pid + 1
  /\ task_used' = task_used + 1

\* A caller goes on to place a of its call; t is the slot its fork has chosen.
Go(k, a, t) ==
  /\ at' = [at EXCEPT ![k] = a]
  /\ slot' = [slot EXCEPT ![k] = t]

\* alloc_task_stack, outside the lock.
TakeStack == stacks < MaxStacks /\ stacks' = stacks + 1

\* kfree(kstack), by a call that cannot use its stack.
GiveBack ==
  /\ stacks' = stacks - 1
  /\ UNCHANGED <<state, pid, ppid, next_pid, task_used>>

\* task_create_kernel_thread up to proc_lock; without a stack it returns.
ThreadStack(k) ==
  /\ at[k] = "out"
  /\ TakeStack
  /\ Go(k, "thread", NoSlot)
  /\ UNCHANGED <<state, pid, ppid, task_used, next_pid, current, reaped>>

\* The rest of it: the first free slot is filled, or the stack goes back.
ThreadCommit(k) ==
  /\ at[k] = "thread"
  /\ \/ (\E t \in FreeSlot : FillSlot(t)) /\ UNCHANGED stacks
     \/ FreeSlot = {} /\ GiveBack
  /\ Go(k, "out", NoSlot)
  /\ UNCHANGED <<current, reaped>>

\* proc_fork_current until it drops the lock; with no slot free it returns.
ForkChoose(k) ==
  /\ at[k] = "out"
  /\ \E t \in FreeSlot : Go(k, "chosen", t)
  /\ UNCHANGED <<state, pid, ppid, task_used, next_pid, current, stacks, reaped>>

\* Its stack; with none left it returns.
ForkStack(k) ==
  /\ at[k] = "chosen"
  /\ \/ TakeStack /\ Go(k, "fork", slot[k])
     \/ stacks = MaxStacks /\ UNCHANGED stacks /\ Go(k, "out", NoSlot)
  /\ UNCHANGED <<state, pid, ppid, task_used, next_pid, current, reaped>>

\* Mutant: the slot is not checked again.
StillFreeMutant(t) == TRUE

\* The check of the slot after the lock has been taken again.
StillFree(t) == state[t] = "UNUSED"

\* The rest of proc_fork_current: the slot is still free, or the stack goes back.
ForkCommit(k) ==
  /\ at[k] = "fork"
  /\ \/ StillFree(slot[k]) /\ FillSlot(slot[k]) /\ UNCHANGED stacks
     \/ ~StillFree(slot[k]) /\ GiveBack
  /\ Go(k, "out", NoSlot)
  /\ UNCHANGED <<current, reaped>>

\* proc_exit_current
ExitCurrent ==
  /\ state' = [state EXCEPT ![current] = "ZOMBIE"]
  /\ UNCHANGED <<pid, ppid, task_used, next_pid, current, call_vars, stacks, reaped>>

\* Mutant: any zombie may be reaped, the caller included.
ReapableMutant(wanted) == {t \in Tasks : state[t] = "ZOMBIE"}

\* The zombies waitpid accepts: children of the caller, with that pid if given.
Reapable(wanted) ==
  {t \in Tasks : state[t] = "ZOMBIE" /\ ppid[t] = pid[current] /\ (wanted > 0 => pid[t] = wanted)}

UsedAfterReap == IF task_used > 0 THEN task_used - 1 ELSE task_used

\* proc_waitpid with a match, the first in the table; it does not wait.
Waitpid(wanted) ==
  /\ \E t \in Reapable(wanted) :
       /\ \A u \in Reapable(wanted) : t <= u
       /\ state' = [state EXCEPT ![t] = "UNUSED"]
       /\ pid' = [pid EXCEPT ![t] = 0]
       /\ ppid' = [ppid EXCEPT ![t] = 0]
  /\ task_used' = UsedAfterReap
  /\ reaped' = reaped + 1
  /\ UNCHANGED <<next_pid, current, call_vars, stacks>>

\* proc_set_current, for a task found in the table
SetCurrent ==
  /\ current' \in Live
  /\ UNCHANGED <<state, pid, ppid, task_used, next_pid, call_vars, stacks, reaped>>

\* sched_yield: the task that is left becomes runnable, even a zombie.
SwitchTo(next) ==
  /\ next # current /\ state[next] \in {"RUNNABLE", "RUNNING"}
  /\ state' = [state EXCEPT ![current] = "RUNNABLE", ![next] = "RUNNING"]
  /\ current' = next

SchedYield ==
  /\ \E next \in Tasks : SwitchTo(next)
  /\ UNCHANGED <<pid, ppid, task_used, next_pid, call_vars, stacks, reaped>>

TableNext ==
  \/ \E k \in TaskCallers :
       ThreadStack(k) \/ ThreadCommit(k) \/ ForkChoose(k) \/ ForkStack(k) \/ ForkCommit(k)
  \/ ExitCurrent \/ SetCurrent \/ SchedYield
  \/ \E wanted \in 0 .. MaxPid : Waitpid(wanted)

TableSpec == TableInit /\ [][TableNext]_table_vars

-----------------------------------------------------------------------------
(* Properties *)

\* No two tasks in the table have the same pid, and none has a pid that is
\* still to be given out: task_by_pid and waitpid(pid) are unambiguous.
PidsUnique ==
  \A t, u \in Live : pid[t] \in 1 .. next_pid - 1 /\ (pid[t] = pid[u] => t = u)

\* task_count() is the number of tasks in the table.
UsedCountExact == task_used = Cardinality(Live)

\* Nothing ever frees the slot current_task points to: a task is not its own
\* parent, so waitpid cannot reap its caller.
CurrentStaysLive == current \in Live

\* The callers that hold a stack no task has yet.
WithStack == {k \in TaskCallers : at[k] \in {"fork", "thread"}}

\* Where the allocated stacks are: one with each task in the table but the
\* bootstrap task, one with each call in progress that has one, one for each
\* task ever reaped.  Of two forks that chose the same slot before either took
\* the lock again, one fills it and the other gives its stack back, once; so
\* does a thread that finds the table full.
StacksAccounted == stacks = (Cardinality(Live) - 1) + reaped + Cardinality(WithStack)
=============================================================================
