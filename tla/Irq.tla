-------------------------------- MODULE Irq --------------------------------
(***************************************************************************)
(* Interrupt dispatch: kernel/drivers/irq.c, the ISR that calls it         *)
(* (kernel/irq_isr.c) and the main loop of kernel/kmain.c that runs the    *)
(* bottom halves.                                                          *)
(*                                                                         *)
(* There is one processor.  The thread runs with interrupts enabled, so an *)
(* interrupt may arrive between any two of its steps, also while it holds  *)
(* irq_lock.  The ISR runs with interrupts disabled and to its end: while  *)
(* it is active the thread does not move, and an ISR that spins on a lock  *)
(* the thread holds spins for ever.                                        *)
(*                                                                         *)
(* A bottom half stands for the pair of fn and ctx.  hit_count is left     *)
(* out: nothing reads it.                                                  *)
(***************************************************************************)
EXTENDS Integers, Sequences

CONSTANTS
  Irqs,      \* interrupt numbers in use
  Handlers,  \* bottom halves that drivers register
  NoBh,      \* bottom_half = 0
  Unused,    \* an irq_table entry with used = false
  Cap        \* NM_BH_QUEUE_CAP (256)

ASSUME IrqAssumption ==
  Cap \in Nat \ {0, 1} /\ NoBh \notin Handlers /\ Unused \notin Handlers \cup {NoBh}

Entries == Handlers \cup {NoBh, Unused}

VARIABLES
  irq_table,      \* the registered bottom half of each interrupt, or NoBh, or Unused
  bh_queue, bh_head, bh_tail,
  irq_lock,       \* irq_lock_word # 0
  thread,         \* where the thread is, and what it works on
  isr             \* where the ISR is, and what it works on

irq_vars == <<irq_table, bh_queue, bh_head, bh_tail, irq_lock, thread, isr>>

\* The thread outside irq.c, and no interrupt being served.
Running == [pc |-> "run"]
NoIsr == [pc |-> "none"]

\* irq_init
IrqInit ==
  /\ irq_table = [i \in Irqs |-> Unused]
  /\ bh_queue = [k \in 0 .. Cap - 1 |-> NoBh]
  /\ bh_head = 0 /\ bh_tail = 0
  /\ irq_lock = FALSE
  /\ thread = Running
  /\ isr = NoIsr

-----------------------------------------------------------------------------
(* The thread: it moves only while no ISR is active *)

ThreadMoves == isr = NoIsr

\* irq_lock() called by the thread; at names the critical section entered.
LockFor(at) ==
  /\ ThreadMoves
  /\ thread = Running
  /\ ~ irq_lock
  /\ irq_lock' = TRUE
  /\ thread' = at
  /\ UNCHANGED <<irq_table, bh_queue, bh_head, bh_tail, isr>>

\* irq_register and irq_unregister
SetEntryLock(i, entry) == LockFor([pc |-> "table", irq |-> i, entry |-> entry])

SetEntry ==
  /\ ThreadMoves
  /\ thread.pc = "table"
  /\ irq_table' = [irq_table EXCEPT ![thread.irq] = thread.entry]
  /\ irq_lock' = FALSE
  /\ thread' = Running
  /\ UNCHANGED <<bh_queue, bh_head, bh_tail, isr>>

\* irq_run_bottom_halves, one turn of its loop: lock, take or leave, run.
BhLock == LockFor([pc |-> "bh"])

\* The index after k in the ring.
Advance(k) == (k + 1) % Cap

BhLeave == thread' = Running /\ irq_lock' = FALSE /\ UNCHANGED bh_head

\* Mutant: the last bottom half is taken for an empty queue.
EmptyMutant == bh_head = bh_tail \/ Advance(bh_head) = bh_tail

Empty == bh_head = bh_tail

BhTake ==
  /\ ThreadMoves
  /\ thread.pc = "bh"
  /\ IF Empty
     THEN BhLeave
     ELSE /\ thread' = [pc |-> "item", bh |-> bh_queue[bh_head]]
          /\ bh_head' = Advance(bh_head)
          /\ irq_lock' = FALSE
  /\ UNCHANGED <<irq_table, bh_queue, bh_tail, isr>>

\* item.fn(item.ctx), outside the lock
BhRun ==
  /\ ThreadMoves
  /\ thread.pc = "item"
  /\ thread' = Running
  /\ UNCHANGED <<irq_table, bh_queue, bh_head, bh_tail, irq_lock, isr>>

-----------------------------------------------------------------------------
(* The ISR *)

\* An interrupt is delivered: nm_irq_isr calls irq_handle.
Interrupt(i) ==
  /\ isr = NoIsr
  /\ isr' = [pc |-> "lookup", irq |-> i]
  /\ UNCHANGED <<irq_table, bh_queue, bh_head, bh_tail, irq_lock, thread>>

\* irq_handle up to the end of the top half.  Its critical section is not
\* interrupted, so the lock is free again at the end of the step.
IsrLookup ==
  /\ isr.pc = "lookup"
  /\ ~ irq_lock
  /\ isr' = IF irq_table[isr.irq] \in {Unused, NoBh} THEN NoIsr
            ELSE [pc |-> "enqueue", bh |-> irq_table[isr.irq]]
  /\ UNCHANGED <<irq_table, bh_queue, bh_head, bh_tail, irq_lock, thread>>

\* Mutant: the test for a full queue is missing.
FullMutant == FALSE

\* bh_enqueue finds no room: one slot stays empty.
Full == Advance(bh_tail) = bh_head

\* bh_enqueue, whose NM_EBUSY irq_handle drops; then the end of interrupt.
IsrEnqueue ==
  /\ isr.pc = "enqueue"
  /\ ~ irq_lock
  /\ IF Full
     THEN UNCHANGED <<bh_queue, bh_tail>>
     ELSE /\ bh_queue' = [bh_queue EXCEPT ![bh_tail] = isr.bh]
          /\ bh_tail' = Advance(bh_tail)
  /\ isr' = NoIsr
  /\ UNCHANGED <<irq_table, bh_head, irq_lock, thread>>

-----------------------------------------------------------------------------
Thread ==
  \/ \E i \in Irqs, entry \in Entries : SetEntryLock(i, entry)
  \/ SetEntry \/ BhLock \/ BhTake \/ BhRun

Isr == IsrLookup \/ IsrEnqueue

IrqNext == Thread \/ Isr \/ \E i \in Irqs : Interrupt(i)

IrqSpec == IrqInit /\ [][IrqNext]_irq_vars

\* The processor executes instructions as long as it can, and the main loop
\* comes back to irq_run_bottom_halves.  Interrupts arrive at a finite rate,
\* so the thread's next step is not put off for ever (strong fairness).
IrqFairSpec ==
  /\ IrqSpec
  /\ WF_irq_vars(Isr)
  /\ SF_irq_vars(BhLock) /\ SF_irq_vars(BhTake) /\ SF_irq_vars(BhRun) /\ SF_irq_vars(SetEntry)

-----------------------------------------------------------------------------
(* Properties *)

\* The ring holds the bottom halves between head and tail, oldest first.
Count == (bh_tail - bh_head) % Cap
Waiting == [k \in 1 .. Count |-> bh_queue[(bh_head + k - 1) % Cap]]

\* The queue implements the bounded FIFO of BhFifo: nothing queued is lost,
\* repeated or overtaken, and work is refused only when Cap - 1 pieces wait,
\* although the ring is filled by the ISR and emptied by the thread.
Fifo == INSTANCE BhFifo WITH
  Work <- Handlers, Room <- Cap - 1, None <- NoBh,
  queue <- Waiting,
  offer <- IF isr.pc = "enqueue" THEN isr.bh ELSE NoBh,
  running <- IF thread.pc = "item" THEN thread.bh ELSE NoBh
ImplementsFifo == Fifo!Spec

\* The ISR spins on a lock that only the thread it interrupted can release.
Stuck == isr # NoIsr /\ irq_lock

\* The oldest bottom half is run, unless an interrupt hits a critical section.
OldestRunsOrStuck ==
  \A h \in Handlers : (Count > 0 /\ bh_queue[bh_head] = h) ~> (thread = [pc |-> "item", bh |-> h] \/ Stuck)

=============================================================================
