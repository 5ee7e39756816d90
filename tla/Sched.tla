------------------------------- MODULE Sched -------------------------------
(***************************************************************************)
(* The scheduler: kernel/proc/sched.c, the context switch it makes         *)
(* (kernel/proc/switch.S), and what kernel/proc/task.c does to the fields  *)
(* it reads.  The kernel has one CPU and no preemption: sched_yield is     *)
(* called from the loops of kmain.c, and each function runs to its end.    *)
(*                                                                         *)
(* `current' is current_task.  `cpu' says in whose context the processor   *)
(* really executes, which the code does not record: nm_context_switch      *)
(* stores that context in the saved_rsp of the task that is left and goes  *)
(* on with the one found in the saved_rsp of the next.                     *)
(*                                                                         *)
(* sched_tick and sched_on_run, the entry points for a timer, have no      *)
(* caller in the kernel and are left out.  Nothing else raises a vruntime, *)
(* so that all of them stay 0 and pick_cfs is left with the order of the   *)
(* table.                                                                  *)
(*                                                                         *)
(* waitpid is not an action here.  It frees a ZOMBIE child of the current  *)
(* task, but sched_yield makes an exited task RUNNABLE again, so that no   *)
(* task but the current one is ever a zombie (NothingToReap in TaskProofs) *)
(* and it finds none.  TaskTable models it.                                *)
(***************************************************************************)
EXTENDS TaskSlots

CONSTANT
  Policies   \* policies in use, of "RR" and "CFS"

ASSUME SchedAssumption == Policies \subseteq {"RR", "CFS"}

Null == -1   \* saved_rsp = 0
Bare == -2   \* saved_rsp = kernel_stack_top, nothing pushed below it
Lost == -3   \* the processor went on from a bare stack

VARIABLES
  saved,      \* task_table[t].saved_rsp: Null, Bare or the context saved there
  cpu,        \* the context the processor executes
  rr_cursor, policy

vars == <<state, saved, current, cpu, rr_cursor, policy>>

TypeOK ==
  /\ state \in [Tasks -> {"UNUSED", "RUNNABLE", "RUNNING", "ZOMBIE"}]
  /\ saved \in [Tasks -> Tasks \cup {Null, Bare}]
  /\ current \in Tasks
  /\ cpu \in Tasks \cup {Lost}
  /\ rr_cursor \in Tasks
  /\ policy \in {"RR", "CFS"}

\* proc_init and sched_init.
Init ==
  /\ state = [t \in Tasks |-> IF t = 0 THEN "RUNNING" ELSE "UNUSED"]
  /\ saved = [t \in Tasks |-> Null]
  /\ current = 0
  /\ cpu = 0
  /\ rr_cursor = 0
  /\ policy \in Policies

-----------------------------------------------------------------------------
(* sched_pick_next *)

\* A task other than the caller needs a stack to switch to.
Switchable(t) == t = current \/ saved[t] # Null

Ready(states) == {t \in Tasks : state[t] \in states /\ Switchable(t)}

\* How many slots the scan of pick_rr passes before it reaches t.
Probe(t) == (t - rr_cursor) % NTasks

RrPick ==
  LET S == Ready({"RUNNABLE", "RUNNING"}) IN
  {t \in S : \A u \in S : Probe(t) <= Probe(u)}

\* The first of the equal vruntimes of S.
LeastRun(S) == {t \in S : \A u \in S : t <= u}

\* Runnable tasks come first; the running one only when there are none.
CfsPick ==
  LET S == Ready({"RUNNABLE"}) IN
  IF S # {} THEN LeastRun(S) ELSE LeastRun(Ready({"RUNNING"}))

Candidates == IF policy = "CFS" THEN CfsPick ELSE RrPick

\* Mutant: rr_cursor stays at the task found.
PickNextStuck(next) ==
  \/ next \in Candidates /\ rr_cursor' = IF policy = "RR" THEN next ELSE rr_cursor
  \/ Candidates = {} /\ next = current /\ UNCHANGED rr_cursor

\* The task returned, the current one if the scan finds none.
PickNext(next) ==
  \/ /\ next \in Candidates
     /\ rr_cursor' = IF policy = "RR" THEN (next + 1) % NTasks ELSE rr_cursor
  \/ /\ Candidates = {}
     /\ next = current
     /\ UNCHANGED rr_cursor

\* cur->state = RUNNABLE; next->state = RUNNING
Handover(next) == [state EXCEPT ![current] = "RUNNABLE", ![next] = "RUNNING"]

-----------------------------------------------------------------------------
(* sched_yield *)

\* Mutant: the old stack pointer is stored, the new one is not loaded.
ContextSwitchMutant(next) ==
  /\ saved' = [saved EXCEPT ![current] = cpu]
  /\ cpu' = cpu

\* nm_context_switch: push the registers, store rsp, load rsp, pop them, ret.
ContextSwitch(next) ==
  /\ saved' = [saved EXCEPT ![current] = cpu]
  /\ cpu' = IF saved[next] = Bare THEN Lost ELSE saved[next]

Yield ==
  /\ cpu # Lost
  /\ \E next \in Tasks :
       /\ PickNext(next)
       /\ IF next = current
          THEN UNCHANGED <<state, saved, current, cpu>>
          ELSE /\ state' = Handover(next)
               /\ current' = next
               /\ ContextSwitch(next)
  /\ UNCHANGED policy

-----------------------------------------------------------------------------
(* task.c: what makes and ends tasks *)

\* Mutant: saved_rsp is left unset.
ThreadFrameMutant(c) == Null

\* The stack of a new kernel thread holds a frame for its first switch.
ThreadFrame(c) == c

\* task_create_kernel_thread pushes a frame for the first switch.
CreateThread ==
  /\ cpu # Lost
  /\ \E c \in FreeSlot :
       /\ state' = [state EXCEPT ![c] = "RUNNABLE"]
       /\ saved' = [saved EXCEPT ![c] = ThreadFrame(c)]
  /\ UNCHANGED <<current, cpu, rr_cursor, policy>>

\* proc_fork_current copies the caller's task but pushes no frame.
Fork ==
  /\ cpu # Lost
  /\ \E c \in FreeSlot :
       /\ state' = [state EXCEPT ![c] = "RUNNABLE"]
       /\ saved' = [saved EXCEPT ![c] = Bare]
  /\ UNCHANGED <<current, cpu, rr_cursor, policy>>

\* proc_exit_current returns to its caller, which goes on until it yields.
Exit ==
  /\ cpu # Lost
  /\ state' = [state EXCEPT ![current] = "ZOMBIE"]
  /\ UNCHANGED <<saved, current, cpu, rr_cursor, policy>>

\* sched_set_policy
SetPolicy ==
  /\ cpu # Lost
  /\ policy' \in Policies
  /\ UNCHANGED <<state, saved, current, cpu, rr_cursor>>

-----------------------------------------------------------------------------
(* The specifications *)

\* The kernel as built.
Next == Yield \/ CreateThread \/ Fork \/ Exit \/ SetPolicy
Spec == Init /\ [][Next]_vars

\* Every thread that kmain.c creates calls sched_yield again and again.
FairSpec == Spec /\ WF_vars(Yield)

-----------------------------------------------------------------------------
(* Properties *)

\* The states agree with current_task: no other task is RUNNING, and the
\* current one is, unless it has exited.
CurrentRuns ==
  /\ \A t \in Tasks : state[t] = "RUNNING" => t = current
  /\ state[current] \in {"RUNNING", "ZOMBIE"}

\* No runnable task is lost: whatever has been switched away from, and
\* whatever was created, has a stack that the scans of pick_rr and pick_cfs
\* accept (saved_rsp # 0).
RunnableIsSwitchable == \A t \in Tasks : state[t] = "RUNNABLE" => Switchable(t)

\* In whose context the processor executes: that of the task current_task
\* names, and every saved stack is its own task's, so that no switch resumes
\* one task as another.  The code has one exception: a forked child has a bare
\* stack (saved_rsp = kernel_stack_top), and from the switch to it the
\* processor goes on from nowhere.  Nothing else, no task that has ever run
\* and no kernel thread, leads there.
CpuRunsCurrent ==
  /\ cpu = IF saved[current] = Bare THEN Lost ELSE current
  /\ \A t \in Tasks : saved[t] \in {t, Null, Bare}

\* As long as the policy is RR, every runnable task gets to run, whatever is
\* created or exits meanwhile: pick_rr goes on from where it stopped.  A switch
\* to a forked child, which has no frame to return through, ends the promise.
NoStarvation ==
  \A t \in Tasks : state[t] = "RUNNABLE" ~> (current = t \/ policy = "CFS" \/ cpu = Lost)
=============================================================================
