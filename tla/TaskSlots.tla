----------------------------- MODULE TaskSlots -----------------------------
(***************************************************************************)
(* The part of task_table (kernel/proc/task.c) that the scheduler (Sched)  *)
(* and the task table (TaskTable) both work on.                            *)
(***************************************************************************)
EXTENDS Integers, FiniteSets

CONSTANT NTasks    \* slots of task_table (NM_MAX_TASKS = 128)

ASSUME SlotsAssumption == NTasks \in Nat \ {0}

Tasks == 0 .. NTasks - 1

VARIABLES
  state,      \* task_table[t].state
  current     \* current_task

\* alloc_task_slot
FreeSlot == {t \in Tasks : state[t] = "UNUSED" /\ \A u \in Tasks : state[u] = "UNUSED" => t <= u}
=============================================================================
