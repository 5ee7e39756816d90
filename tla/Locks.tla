------------------------------- MODULE Locks -------------------------------
(***************************************************************************)
(* How the kernel nests its spinlocks.  An operation is reduced to the     *)
(* locks it takes and gives back, in order, along its longest path, with   *)
(* a section that is repeated (one page table after another) written once; *)
(* callers run operations concurrently.  No caller may take a lock twice.  *)
(* Interrupts, which take irq_lock as well, are in Irq.                    *)
(***************************************************************************)
EXTENDS Integers, Sequences

CONSTANT Callers

Lock(l) == <<[op |-> "lock", lock |-> l]>>
Unlock(l) == <<[op |-> "unlock", lock |-> l]>>
With(l, inner) == Lock(l) \o inner \o Unlock(l)
Alone(l) == With(l, <<>>)

\* kmalloc, with no block on its free list: pmm_alloc_pages
Kmalloc == Alone("pmm")

\* nm_fd_write to a file: fs_write under fd_lock, and tmpfs_write, which may
\* have to let the file grow, under both.
FdWrite == With("fd", With("fs", Kmalloc))

\* Mutant: the file is closed first, and drops its descriptor under fs_lock.
FdCloseMutant == With("fs", Alone("fd"))

\* nm_fd_close of the last descriptor of a file: fs_close under fd_lock
FdClose == With("fd", Alone("fs"))

\* fs_open of a file that is there: resolve_path, alloc_fd, the entry
FsOpen == Alone("fs") \o Alone("fs") \o Alone("fs")

\* net_stats_note_*
NoteStats == Alone("net")

\* nm_connect: tcp_connect counts the connection while it holds tcp_lock.
Connect == Alone("sock") \o With("tcp", NoteStats) \o Alone("sock")

\* nm_sendto on a datagram socket: udp_bind, then udp_sendto and udp_deliver
SendTo == Alone("sock") \o Alone("udp") \o NoteStats \o With("udp", NoteStats)

\* vmm_map_page_in: the tables come from the pool and go back without vmm_lock.
MapPage == Alone("pmm") \o Alone("vmm") \o Alone("pmm")

\* proc_fork_current: the stack is allocated without proc_lock.
ForkCurrent == Alone("proc") \o Kmalloc \o Alone("proc")

\* irq_run_bottom_halves: each one is taken under irq_lock and run without it.
RunBottomHalf == Alone("irq")

Operations == {FdWrite, FdClose, FsOpen, Connect, SendTo, MapPage, ForkCurrent, RunBottomHalf}
Spinlocks == {"pmm", "vmm", "proc", "fd", "fs", "irq", "sock", "tcp", "udp", "net"}
Nobody == "nobody"

ASSUME LocksAssumption == Nobody \notin Callers

VARIABLES
  rest,    \* what is left of each caller's operation
  owner    \* who holds each lock

lock_vars == <<rest, owner>>

LocksInit == rest = [k \in Callers |-> <<>>] /\ owner = [l \in Spinlocks |-> Nobody]

Wants(k, l) == rest[k] # <<>> /\ Head(rest[k]) = [op |-> "lock", lock |-> l]

Start(k) ==
  /\ rest[k] = <<>>
  /\ \E operation \in Operations : rest' = [rest EXCEPT ![k] = operation]
  /\ UNCHANGED owner

\* __sync_lock_test_and_set finds the lock free.
TryLock(l) == owner[l] = Nobody

Acquire(k, l) ==
  /\ Wants(k, l) /\ TryLock(l)
  /\ owner' = [owner EXCEPT ![l] = k]
  /\ rest' = [rest EXCEPT ![k] = Tail(rest[k])]

\* __sync_lock_release
Release(k, l) ==
  /\ rest[k] # <<>> /\ Head(rest[k]) = [op |-> "unlock", lock |-> l]
  /\ owner' = [owner EXCEPT ![l] = Nobody]
  /\ rest' = [rest EXCEPT ![k] = Tail(rest[k])]

LocksNext == \E k \in Callers : Start(k) \/ \E l \in Spinlocks : Acquire(k, l) \/ Release(k, l)

LocksSpec == LocksInit /\ [][LocksNext]_lock_vars

-----------------------------------------------------------------------------
(* Properties *)

\* No set of callers waits for itself: neither a caller for a lock it holds,
\* nor several round in a circle.  This is what LOCKING.md is there to ensure.
NoCircularWait ==
  ~ \E S \in SUBSET Callers :
      S # {} /\ \A k \in S : \E l \in Spinlocks : Wants(k, l) /\ owner[l] \in S
=============================================================================
