# NeverMind in TLA+

TLA+ specifications of the NeverMind kernel (`kernel/`), the configurations that
check small instances of them with TLC, and proofs that TLAPS checks for
instances of every size.  All paths are relative to the repository's root.

## The system

NeverMind is a small x86-64 kernel for one processor.  Threads run until they
call `sched_yield`; a timer interrupt counts ticks and never switches.  What
runs concurrently is therefore

- interrupt handlers, between any two instructions of a thread, since the
  spinlocks do not disable interrupts, and
- threads, wherever one of them may give up the processor.  The locking document
  (`docs/LOCKING.md`) and the windows in which functions drop their locks show
  that the layers are meant to be correct for callers that interleave outside
  critical sections.  The models interleave them where a function drops its lock
  and where it works before it takes or after it has dropped one.  Stretches that
  hold no lock at all and never give up the processor are one action: `kmalloc`
  and `kfree` (`Kheap`), `resolve_path`, `tmpfs_create` and `ext2_create` (`Vfs`),
  and what `sys_fork` does between `proc_fork_current` and the retain loop of
  `nm_fd_on_fork_child` (`FdTable`).  Nothing is shown of callers that would be
  preempted inside these.

| part | source | what it does | modelled by |
|---|---|---|---|
| descriptors, pipes | `kernel/proc/fd.c` | per-task descriptor tables, counted objects, pipes | `FdTable`, `PipeRing`, `PipeStream` |
| scheduler | `kernel/proc/sched.c`, `switch.S` | round robin and approximate CFS, context switch | `Sched` |
| task table | `kernel/proc/task.c` | create, fork, exit, waitpid | `TaskTable`; its effect on descriptors in `FdTable`, on scheduling in `Sched` |
| system calls | `kernel/syscall/syscall.c` | compose the layers | in the actions of `FdTable` and `TaskTable` |
| interrupts | `kernel/drivers/irq.c`, `kernel/irq_isr.c` | handlers, bottom halves | `Irq`, `BhFifo` |
| page frames | `kernel/mm/pmm.c` | memory map, bitmap | `Pmm`, `PageAlloc` |
| page tables | `kernel/mm/vmm.c` | map, unmap | `Vmm`, `AddressSpace` |
| heap | `kernel/mm/kheap.c` | free list | `Kheap` |
| file system | `kernel/fs/vfs.c`, `tmpfs.c`, `ext2.c` | open files, nodes | `Vfs`, `FileStore` |
| TCP, UDP | `kernel/net/tcp.c`, `udp.c` | connection table, port queues | `Tcp`, `Udp` |
| sockets | `kernel/net/socket.c` | descriptors over both | `Sockets` (stream), `Dgram` (datagram) |
| frames, ARP, IPv4, ICMP | `kernel/net/net.c`, `arp.c`, `ipv4.c`, `icmp.c` | parsing, ARP cache, counters | not modelled |
| drivers | `pic.c`, `pit.c`, `pci.c`, `rtl8139.c`, `keyboard.c` | port I/O | not modelled |
| console, log | `console.c`, `klog.c` | output, ring of characters | not modelled |
| boot, GDT, IDT, TSS, exceptions | `boot/entry.S`, `gdt.c`, `idt.c`, ... | constant tables | not modelled |
| shell, tools | `userspace/` | command lines | not modelled |
| locks | all of the above | ten spinlocks | `Locks` |

## Modules

The modules that compose others: `Sockets` extends `Tcp`, and `Dgram` extends
`Udp`, and use their actions as the calls that happen outside `sock_lock`;
`Kheap` extends `Pmm` and takes its pages from it; `Vmm` takes its frames from
`PageAlloc`, the promise that `Pmm` is proved to keep.  Five modules are such
promises, abstract specifications that others are shown to implement:
`PipeStream` (by `PipeRing`), `BhFifo` (by `Irq`), `PageAlloc` (by `Pmm`),
`AddressSpace` (by `Vmm`) and `FileStore` (by `Vfs`).
`FdTable` contains what task creation and reaping do to descriptor
tables.  `FdTable`, `Sched` and `TaskTable` are three views of a task, each with
the fields its layer reads.  A view that leaves the others out allows more
behaviours than the kernel has (`TaskTable` lets `sched_yield` choose any
switchable task), never fewer, except where its header says so.

Definitions whose name ends in `Mutant` are plausible slips in the code.  They
are not used by any specification; replacing the definition after them by one
of them makes TLC report the property that guards against it.

### Descriptors: `FdTable`, `FdTableProofs`

`FdTable` models all of `kernel/proc/fd.c` and the system calls over it.

| state in the model | in the code |
|---|---|
| `fd_table[t][fd]`, `cloexec[t]` | `task->fd_table[fd]`, the bits of `task->fd_cloexec_mask` |
| `fdobj[o]` | `fdobj_table[o]` (`used`, `refcnt`, `kind`, `fs_fd`, `pipe_id`) |
| `pipe[p]` | `pipe_table[p]`; `queued` is `write_pos - read_pos` |
| `state[t]`, `parent[t]` | the slot's `state` and the slot its `ppid` refers to |
| `vfs_open` | the VFS descriptors still open |
| `op` | which loop (`nm_fd_on_fork_child`, `nm_fd_close_on_exec`) holds `fd_lock`, and how far it got |
| `leaked[o]` | history: references whose holder was reaped with the descriptor open |

Every `nm_fd_*` function takes `fd_lock` at its first line and drops it at its
last, so each is one action; the two that loop over a whole table take one step
per descriptor, and no other action of the layer is enabled while `op` is not
`Idle`.  All scans (`alloc_task_fd`, `alloc_fdobj`, the pipe scan,
`alloc_task_slot`) return the lowest free index: `First(S)`.  `Fork` copies the
table (`kernel/proc/task.c:302`) and enters the retain loop in one step: nothing
holds `fd_lock` in between, but only the parent or the child could close one of
the descriptors copied, and neither runs there on a processor that does not
preempt.

`Spec` is the kernel as built, in which nothing stores a raw VFS descriptor in
an `fd_table`; `SpecLegacy` adds the one thing `tests/unit/test_syscall_m9.c`
does besides, storing the result of `fs_open`, which is what
`adopt_legacy_fs_fd` exists for.

The argument of the proofs.  None of the invariants is inductive on its own: a
count is right because the table is right, and an entry denotes a live object
because the count is right.  `IInv` is the conjunction
of the type invariant, `CloexecOnlyOnOpen`, `OpInv` (a fork in progress has a
live parent with the same table; an exec in progress has already dealt with the
bits below `op.next`) and `CoreInv(Counted, fdobj, pipe, leaked)`.  `CoreInv`
is stated over explicit values, so that `dup2`, which closes one descriptor and
opens another in one step, is an application of `ReleaseCore` to an
intermediate table followed by one of `RetainCore`.  `Counted` is `fd_table`
without the entries that a fork in progress has not retained yet.  `EntryLive`
is where the fork window is dealt with: an entry that is not counted yet is the
parent's too, and that one is.

With raw VFS descriptors in the tables an entry may be the number of an object
that it was never counted for, so that entries and counts need not agree, and
nothing of `RefsInv` is left.  What `LegacyPipeCounts` proves of `SpecLegacy`
rests on objects and pipes alone: `RawInv` says that each side of a pipe has
either no end and the count 0, or one end, whose references it counts.  Release
and retain change an object and its pipe together (`RawRecount`), whichever
entry they were called for; adoption makes an object that is no end (`RawAdopt`).

### Pipes: `PipeRing`, `PipeStream`, `QueueProofs`

`PipeRing` copies byte by byte, as `read_from_pipe` and `write_to_pipe` do:
`StartWrite`/`StartRead` enter with `fd_lock` held, `Loop` is one turn of the
loop, and the call ends when its condition fails.  The buffer starts with any
content, because `nm_fd_pipe` does not clear it.  `PipeStream` is the promise: a
sequence of at most `PipeBuf` bytes, to which a write appends at once as much as
fits, and from which a read takes at once as much as there is.  The refinement
maps the ring to the bytes between the two positions, as they were when the
current call began; the call takes effect when it returns.

The proof (`RingImplementsStream`) holds for every buffer size.  Its invariant
says that the positions are at most `PipeBuf` apart and that the ring holds the
bytes of the stream plus those that the current call has moved.  That two
positions at distance less than `PipeBuf` have different remainders is the
arithmetic lemma it rests on.

### Scheduler: `Sched`, `TaskSlots`, `TaskProofs`

| state | in the code |
|---|---|
| `state[t]` | `task->state` |
| `saved[t]` | `saved_rsp`: nothing, the bare top of a stack, or whose context is stored there |
| `current`, `rr_cursor`, `policy` | the variables of the same names |
| `cpu` | in whose context the processor executes; the code does not record it |

`Yield` is all of `sched_yield`, the switch included.  `sched_tick` and
`sched_on_run` are left out: nothing in the kernel calls them, so that every
`vruntime` stays 0 and `pick_cfs` returns the first runnable task of the table.
`CpuRunsCurrent` could not hold with them, since `sched_tick` changes
`current_task` without a context switch.

Two things that `Sched` shows are not what one expects.  A task that exits is
runnable again as soon as it yields (`kernel/proc/sched.c:161`), although
`docs/milestones/M3.md:13` describes reaping as ZOMBIE -> reap and
`tests/unit/test_syscall_m9.c:54` waits for a child that is a zombie and not the
current task, a state it sets by hand.  No property of a run states this
behaviour, since it contradicts both; `NothingToReap` in `TaskProofs` proves that
it is so: in the kernel as built `waitpid` finds no zombie.  And a forked child
has a stack without a frame (`kernel/proc/task.c:299`), so that the first switch
to it leaves the model (`cpu = Lost`): `CpuRunsCurrent` says that the processor
executes the current task unless that is such a child, and `NoStarvation` has the
same exception.

The inductive invariant is the conjunction of the safety properties of the run
`sched` and of `OnlyCurrentIsZombie`; `CpuRunsCurrent` needs all others, because a
switch is harmless only if the task it leaves is the one that executes and the one
it enters stored its own context.

### Interrupts: `Irq`, `BhFifo`, `QueueProofs`

The thread's critical sections are two steps, one that takes the lock and one
that works and releases it, so that an interrupt may come between.  The handler
runs to its end before the thread moves.  If it needs the lock that the thread
holds it spins for ever (`Stuck`): `docs/LOCKING.md` does not say that interrupts
are to be disabled, and `irq_run_bottom_halves` leaves them on.  The run `irq`
shows that this is the only way in which a queued bottom half is not run
(`OldestRunsOrStuck`), and that the ring is a bounded FIFO (`BhFifo`) through all
of it.

`IrqImplementsFifo` proves the latter for a ring of any size.  Its invariant
(`IrqInv`) keeps head and tail within the ring and says what the thread and the
handler hold between two steps.  The content is the sequence from head to tail
modulo the size (`InRing`): a place behind the tail is not in it unless the ring
is full, and moving the head by one drops its first element.

### Task table: `TaskTable`, `TaskSlots`, `TaskProofs`

Every function is one action under `proc_lock`, except the two that allocate a
stack without it: `task_create_kernel_thread` (`ThreadStack`, `ThreadCommit`) and
`proc_fork_current` (`ForkChoose`, `ForkStack`, `ForkCommit`).  Any number of callers
may be in these windows at once (`at[k]`, `slot[k]`), and two forks may have chosen
one slot: the second finds it taken when it looks again (`task.c:282`) and gives
its stack back (`GiveBack`).  `stacks` counts the kernel stacks allocated, `reaped`
those of tasks that were reaped; `StacksAccounted` says that the others belong
to a live task or to a caller in a window.  The inductive invariant adds `ParentOlder`: a task's
parent has a smaller pid.  Without it `waitpid` might free the slot of its own
caller, and `CurrentStaysLive` is not preserved.

`SchedYield` lets the scheduler choose any other task that is runnable.
`YieldIsSchedYield` proves that on the fields the two modules share (`TaskSlots`)
every `Yield` of `Sched` is such a step, or changes nothing.

### Page frames and heap: `Pmm`, `PageAlloc`, `Kheap`, `MCKheap`, `MemoryProofs`

Boot is a plan, the sequence of ranges in the order in which
`pmm_init_from_multiboot2` or `pmm_init_from_ranges` handles them, executed step
by step; afterwards pages are allocated and freed.  `used` is the bitmap,
including the bits of its last word that stand for no frame.  Frames are found
as the code finds them, word by word from a cursor, or as the first run that is
long enough.  `granted` is history: how many callers hold a frame.

`Kheap` adds the heap to it: `kmalloc` and `kfree` take no lock and never give up
the processor, so each is one action, and the pages that `kmalloc` takes are
found by the actions of `Pmm`, between which other callers take and free pages of
their own.  A block is the address of its header; `sizes` is the memory of the
headers, `free_list` the list through them, and `held` is history: the blocks
handed out and not freed, with the sizes asked for.  `kfree` checks only a magic
number that a freed block keeps, so it relies on being called once for a block
that is held; its only callers, the two in `kernel/proc/task.c` that give back a
stack they cannot use, do so (`StacksAccounted`).  A block is never merged with its
neighbour, and never divided once it has been in the list (`KmallocReuse`): the
heap's pages never shrink, but no byte of them is lost either (`NoByteLost`).

`PageAlloc` is what a caller relies on: a frame goes to one caller at a time.
`ImplementsPageAlloc` (the run `memory`) and `PmmImplementsPageAlloc` (the
theorem) show it of `Pmm`; boot is a stuttering step of it.

The invariant of the proofs for `Pmm` says that the counters count the bitmap,
that the bits beyond the last frame are set, that a granted frame is marked used
and held once, and, with the plan's position, that whatever was reserved by the
last four steps is still marked.  The last point is an induction over the plan:
ranges made available come before the reservations that must last.  That
`pmm_alloc_page` finds a free frame whenever there is one (`PageIsFound`) follows:
with the bits beyond the last frame set, the lowest clear bit of a word is a
frame, and of the words with one, some word is nearest to the cursor.  For the heap, `HeapUsesPages`
shows every step of `KheapSpec` to be one of `Pmm`'s `Spec`, so that all of the
above holds of it; `HeapSafe` adds the type of the heap, `BlocksApart`,
`NoByteLost` and `HeldSafe`, which are inductive together: a fresh run of frames
was held by nobody, so it lies apart from all blocks, a split fills the run
exactly, and the block handed out is taken off the list.

### Page tables: `Vmm`, `AddressSpace`, `MCVmm`, `VmmInvariant`, `VmmProofs`

`mem[t][i]` is entry `i` of the table in frame `t`; `call[k]` is the pool of
tables that caller `k` has taken before `vmm_lock`, or has left to give back
after it.  The walk under the lock is one action, each `pmm_alloc_page` and
`pmm_free_page` of the pool another, so that callers that map and unmap
neighbouring pages meet in every order.  Frames come from `PageAlloc`.

`AddressSpace` is a function from virtual pages to physical pages with rights,
and the last call and its arguments.  `Walk` is what the processor finds, with
the rights that all levels grant.  That a call changes the translation of its own
page only is also what makes one `invlpg` per call enough.

The promise has one condition, which the code does not check: no call of
`vmm_map_page_in` is for a page within a 2 MiB page.  `get_or_create_next` follows
a present entry whatever it is (`kernel/mm/vmm.c:120`), so such a call maps
nothing, adds its rights to the whole large page, and writes its entry into the
large page's memory (`vmm.c:189`).  That memory may hold page tables: the boot code
maps the first GiB, from which the frames come, with 2 MiB pages
(`boot/entry.S:125`).  `MapPage` makes the store wherever it goes (`mem` covers
`Pages`, which may contain frames) and records the call in `within`; `AddressSpace`
lets it do anything (`MapWithin`) and promises nothing afterwards, and
`FramesAccounted` and `NoEmptyTable` are stated for `within = {}`.  Every mapping in
the region of the boot code is such a call in the kernel's own root.  The model's
root starts empty, without the boot code's entries, one of which the root has
twice.

Two things are part of `AddressSpace` because the code does them: a 2 MiB mapping
over a page table takes the table's pages away, and the table is never given back
(`vmm.c:228`, `lost`); a 2 MiB page cannot be unmapped.  The kernel itself maps
nothing after boot: nothing in `kernel/` calls these functions yet.

`MCVmm` names tables by the path that leads to them (`View`) and takes the lowest
frame (`LowestFrame`): which frame a table is in decides nothing before a page is
mapped within a large page, and what follows that is not explored (`NoneWithin`).
The one physical page is the frame that is taken first, so that large pages that
are page tables occur.

`VmmProofs` proves the three properties for any frames, callers, virtual pages
and rights, assuming that the frames are finitely many integers and that the root
is not one of them.  None of them is inductive.  The invariant, required while
`within` is empty, is `Inv(d)`.  It gives every table a depth `d`: the entries of a
table lead to tables one deeper, a large page hangs in a page directory only, a table is led to
by one entry, and an entry grants whatever the entries below it grant
(`Shape`; the last is why adding flags on the way down gives a new mapping its
rights and takes nothing from its neighbours).  Every table but the root has an
entry (`NonEmpty`), the frames held are shared out between tree, pools and `lost`
(`Account`), pools hold no table twice, and before the walk they hold zeroed
tables (`CallOK`).
All that `vmm.c` does under the lock is to write entries one after the other, so
the lemmas are about one write: adding rights to an entry (`Reflag`), hanging a
zeroed table (`Hang`), writing a leaf (`SetLeaf`), cutting a subtree off (`Cut`);
`NextTable` puts them together for `get_or_create_next`, and `CutEmpty` for a
level of `vmm_unmap_page_in`.  `Leaf` says where a page leads without rights of the
levels above; in a `Shape` it is what the processor finds (`WalkIsLeaf`), and each
write changes it for the pages below that entry only.  The depths appear in the
proof and nowhere in the code: the invariant is that such a `d` exists.  The tree,
the invariant and the steps of the pool are in `VmmInvariant`, the steps under
`vmm_lock` and the theorems in `VmmProofs`.

### File system: `Vfs`, `FileStore`, `MCVfs`, `VfsProofs`

`Vfs` is `kernel/fs/vfs.c` on either file system.  Reads, writes, seeks and
closes hold `fs_lock` and are one action each; `fs_open` is four (`OpenResolve`,
`OpenCreate`, `OpenAlloc`, `OpenFill`), between which other callers open, create
and close.  `holds` is history: which descriptors were returned to whom, for
which name.  Callers use and close only what they hold, as `fd.c` does; `fs_close`
(`kernel/fs/vfs.c:270`) does not check it.  `Reserve` is `tmpfs_reserve`, with the doubling of the capacity and
the uninitialised rest of the new buffer (`Stale`).

`FileStore` is the promise: named files and open files with an offset each.
Bytes below the end that were never written are unspecified, since the code
leaves what `kmalloc` returned; a write of no bytes beyond the end extends the
file with them.  Of two callers that create one name at once the second gets an
error, not the file (`CanCreate`).  The flags of `fs_open` other than `O_CREAT`
are stored nowhere, and ext2 has no data in the kernel build.  Sizes stay below
`MaxSize`, so that `offset + len` never wraps as it could at 2^64.

`HandlesSound` and the refinement are proved together from `VfsInv`: each
descriptor in use is held by one caller or is being opened by one (`OneOwner`),
there are as many of them as of owners, no two nodes have one name, and a buffer
holds nothing behind the end of its file (`FileOK`).  The last point is what makes
a hole unspecified rather than wrong: the bytes between the old end and the offset
of a write are still those `kmalloc` left.  That no two nodes have one name is due
to the second lookup in `tmpfs_create` (`CanCreate`), since the first, in
`fs_open`, may be stale by then.

### Network: `Tcp`, `Udp`, `Sockets`, `Dgram`, `MCSockets`, `MCDgram`, `SocketsProofs`, `QueueProofs`

`Tcp` and `Udp` have one action per function, each of which holds its lock
throughout.  Calls that fail without a change of state are not actions, but
`TcpConnectFails` is: it uses up an id.  In `Tcp` the content of a receive buffer
is who sent it.  In `Udp` datagrams and bindings are numbered.

`Sockets` and `Dgram` split every call at the points where it drops `sock_lock`;
`call[k]` is where caller `k` stands and what its local variables hold.  The
calls into tcp.c and udp.c are the actions of `Tcp` and `Udp`.  `OneOwner` is the
property that the windows put at risk: a descriptor may be closed and reused
while a connection is on its way to it.  `ServedIsBound` is its counterpart for
ports, and says how much less is promised there: `udp_bind` succeeds for a port
that another socket has, the first of the two to close unbinds it for both, a
socket that is bound twice keeps its first port bound for ever, and a failing
`nm_bind` puts the old port back into whatever socket has the number by then
(`kernel/net/socket.c:97`).  A number that is reused for a socket of the other
kind within one call is in neither module.

`MCSockets` and `MCDgram` identify states that differ only in what no code reads
(`View`).

`SocketsProofs` shows all properties of `Tcp` and `Sockets` for tables of any
size and any number of callers.  Those of the connection table are inductive
together (`TcpInv`): new ids exceed everything stored (`TcpTypeOK`), so that a
new connection is nobody's peer but its own other end's (`PeersMutual`), so that
a sender reaches only the buffer of its peer (`RxFromPeer`).  For the sockets the
invariant (`SockInv`) adds that the connection of every owner is settled: in the
table and not waiting for `tcp_accept`.  So what `tcp_accept` returns has no owner
yet, and neither has an id that was never given out.  `Owned` states this over
explicit values (who owns what, which ids are settled), and five lemmas on it
(`CallTakes`, `CallLeaves`, `SocketGets`, `SocketGives`, `SocketEmpty`) are all
that a section of a call can do.  `DgramInv`, in `QueueProofs`, goes the same way with
the set of ports that are bound (`BoundPorts`), the only thing the sockets see of
`Udp`.

### Locks: `Locks`, `TaskProofs`

An operation is the sequence of its lock and unlock calls.  `NoCircularWait`
covers waiting for oneself as well as for others.

The proof gives every lock a rank (`Rank`): `pmm_lock` the highest, `fs_lock` and
`net_lock` below it, all others below these.  A sequence is `Closed` when it takes
a lock only while those it holds have lower ranks and gives back all it takes;
sections around closed sequences and closed sequences one after the other are
closed (`ClosedWith`, `ClosedConcat`), so every operation is.  The inductive
invariant `LocksInv` says that what each caller has left to do is the rest of such
a sequence, and that it owns exactly the locks that this rest gives back without
having taken them (`Holds`).  Who waits then waits for a lock of a higher rank than
any it holds (`WaitsUpwards`), and a circle would climb through the ranks for ever.

## Runs

All bounds are constants of a cfg.  The tables are small enough to run full and
large enough that what a property relates (two holders, a stranger, a reused
entry) exists at once.

| run | instance | shows |
|---|---|---|
| `fd` | 2 tasks, 2 descriptors each, 3 objects, 2 pipes | counts, no dangling descriptor, failed calls undone, the loops of fork and exec step by step |
| `fd_legacy` | raw VFS descriptors in the table, pipes of one byte | pipe counts survive adoption; reads and writes stay within the buffer |
| `pipe_ring` | buffer of 3, calls of up to 4 bytes, 8 bytes in all | the ring implements the stream; it wraps more than twice |
| `sched` | 8 tasks, both policies | states, current task and contexts agree; round robin starves nobody |
| `task_table` | 4 slots, 4 stacks, 5 pids, 2 callers | pids, the current task and stacks, with two callers in the unlocked parts of fork and thread creation |
| `irq` | 2 interrupts, 2 handlers, ring of 3 | FIFO; every bottom half runs unless the lock is held by the interrupted thread |
| `memory` | up to 10 frames of 4 bytes, words of 4 bits, 6 memory maps, 3 heap blocks of 3 sizes | no double grant, exact counters, reserved memory stays reserved, heap blocks apart, no byte lost, a held block not in the free list and large enough |
| `vmm` | 2 callers, 7 frames, 4 virtual pages that share 0 to 3 tables, 2 sets of rights | every frame in one place, no empty table kept, the tables implement an address space, up to a page mapped within a large page |
| `vfs` | 2 callers, 2 descriptors, 1 name and the root, files of up to 2 bytes, first capacity 1 | descriptors belong to who opened them; nodes and buffers implement named files |
| `sockets` | 2 callers, 2 sockets, 3 connections, ids up to 4, ports 0 and 1 | one owner per connection in every interleaving; ids, peers and buffers |
| `dgram` | 2 callers, 2 sockets, 2 ports of the table, queues of 1, 4 port numbers | unique bindings, no stale datagram, bound ports stay bound |
| `locks` | 3 callers | no circular wait, and never all stop |

Why the instances are large enough.  `memory`: a word boundary lies between
frames, a run may cross it, and three blocks allow a split, a reuse and a
neighbour.  `vmm`: the four pages share a page table, a page directory and a
pdpt, so that unmapping one of them empties one, two or three tables; seven
frames let both callers hold a pool at once while tables are in place, and run
out.  `vfs`: with one name both callers race for the same file, which grows twice
(capacities 1 and 2) and may have a hole.  `sockets`: three entries make one pair
and a listener, so that a further `tcp_connect` finds one entry, or none.
`dgram`: the ephemeral ports 2 and 3 are followed by 0, which stands for no port,
and by 1, which another socket may have bound; the bounds `MaxMsgs` and
`MaxBinds` of 100 are out of reach, since `View` tells no two states apart that
differ only in the numbers.

The bounds `MaxId`, `MaxPid`, `MaxMsgs`, `MaxBinds`, `MaxBytes`,
`MaxLeaked` and `MaxRefs` stop counters that the code lets grow.  Deadlock
checking is off where a run ends at such a bound, where every call returns an
error (no memory), or where the system really stops (an ISR that spins, a
processor sent to an empty stack).

Places where the code and a document differ are described by what the code
does:

| the document | the code | in the model |
|---|---|---|
| exit and waitpid reclaim a child (`docs/milestones/M3.md:13`) | `waitpid` frees the slot, closes no descriptor and frees no stack | `leaked` in `RefcountExact`, `reaped` in `StacksAccounted` |
| exit makes a zombie that waitpid finds (the same line) | the next `sched_yield` makes it runnable | `Handover` in `Sched`; no property of a run, `NothingToReap` in `TaskProofs` |
| a frame is prepared for a first switch (`kernel/proc/task.c:172`) | a forked child has a bare stack | the exception `Lost` in `CpuRunsCurrent` and `NoStarvation` |
| ports have queues (`ARCHITECTURE.md:50`) | a datagram in a place that was freed overtakes older ones | `UdpDeliver`, `UdpRecv` |
| never take an earlier lock (`docs/LOCKING.md:21`) | a write to a file takes `pmm_lock` under `fd_lock` | `FdWrite` in `Locks`; no deadlock follows (`NoCircularWait`) |

## Fairness

`PipeRing`: weak fairness of the loop steps, code that runs under a lock without
waiting for anything.  `Sched`: weak fairness of `Yield` in `FairSpec`, since
the loop of every kernel thread calls it.  `Irq`: weak fairness of the handler, which
nothing interrupts, and strong fairness of the thread's steps: interrupts
disable them again and again, but arrive at a finite rate.  No other module
assumes fairness.

## What is proved and what is only checked

Proved for all values of the constants that satisfy the `ASSUME`s: the type
invariants and safety properties of `FdTable`, `Sched`, `TaskTable`, `Locks`,
`Pmm`, `Kheap`, `Vmm`, `Vfs`, `Tcp`, `Sockets`, `Udp` and `Dgram`, and that
`PipeRing` implements `PipeStream`, `Irq` `BhFifo`, `Pmm` `PageAlloc`, `Vmm`
`AddressSpace` and `Vfs` `FileStore`.
`PROJECT.json` lists the theorems.  Most type invariants are left to their proofs
and are not repeated in the runs.

Only model-checked: liveness everywhere (TLAPS does not handle fairness and
ENABLED), that is `NoStarvation`, `CallReturns` and `OldestRunsOrStuck`, and the
absence of deadlock in `Locks`.  Of `FdTable` with raw VFS descriptors (`SpecLegacy`) the pipe counts are
proved and nothing else is claimed.

## Not modelled

`PROJECT.json` lists every part with the reason where it is left out.

- Frames, ARP, IPv4 and ICMP (`net.c`, `arp.c`, `ipv4.c`, `icmp.c`): the card's
  driver is a stub that never delivers a frame, nothing in the kernel polls it,
  and nothing asks the ARP cache; the code runs in the host tests only, one call
  after another.  What there is of concurrency in it is one lock around counters
  (`net_lock`, in `Locks`).
- The kernel log and the keyboard: one ring of characters that one thread writes
  and copies out, and one variable.
- PCI, PIC, PIT, GDT, IDT, TSS, exceptions, boot: port I/O and constant tables,
  written once before anything else runs.
- The shell and the tools: parsing of command lines, and calls of the interfaces
  that are modelled, one after another.
- `sched_tick` and `sched_on_run`: nothing calls them (see `Sched`).
- The data that system calls carry (paths, argument vectors, addresses) and the
  dispatch by number.
- More than one address space: the kernel has one root (`vmm_kernel_root`).
