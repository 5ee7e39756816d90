------------------------------ MODULE FdTable ------------------------------
(***************************************************************************)
(* Descriptors, shared fd objects and pipes: kernel/proc/fd.c, the         *)
(* syscalls of kernel/syscall/syscall.c that call it, and the parts of     *)
(* kernel/proc/task.c that copy, keep or drop a task's fd_table.           *)
(*                                                                         *)
(* Every function of fd.c holds fd_lock from its first to its last line,   *)
(* so each is one step.  The two that loop over a whole fd_table           *)
(* (nm_fd_on_fork_child and nm_fd_close_on_exec) take one step per         *)
(* descriptor; `op' says who is inside the loop, and nobody else can take  *)
(* a step of fd.c until it is left.  sys_fork copies the table under       *)
(* proc_lock and enters the loop under fd_lock; the kernel has one CPU and *)
(* switches tasks only in sched_yield, so nothing runs in between.         *)
(*                                                                         *)
(* A caller is any task whose slot is in use: sys_exit returns to its      *)
(* caller, so a zombie can go on making calls until it yields.             *)
(***************************************************************************)
EXTENDS Integers, FiniteSets

CONSTANTS
  NTasks,     \* slots of task_table (NM_MAX_TASKS = 128)
  NFds,       \* descriptors of a task (NM_MAX_FDS = 32)
  NObjs,      \* slots of fdobj_table (NM_FDOBJ_MAX = 128)
  NPipes,     \* slots of pipe_table (NM_PIPE_MAX = 16)
  PipeBuf,    \* capacity of a pipe in bytes (NM_PIPE_BUF = 512)
  MaxIO,      \* longest read or write of the model
  MaxRefs,    \* bound on a reference count (uint32_t in the code)
  MaxLeaked,  \* bound on the references of an object lost by reaping
  LegacyFds   \* VFS descriptors that may be stored raw in an fd_table

ASSUME ConstantsAssumption ==
  /\ NTasks \in Nat \ {0} /\ NFds \in Nat \ {0}
  /\ NObjs \in Nat /\ NPipes \in Nat /\ PipeBuf \in Nat
  /\ MaxIO \in Nat /\ MaxRefs \in Nat /\ MaxLeaked \in Nat
  /\ LegacyFds \subseteq 0 .. NObjs - 1

Tasks == 0 .. NTasks - 1
Fds   == 0 .. NFds - 1
Objs  == 0 .. NObjs - 1
Pipes == 0 .. NPipes - 1

\* The value -1 of an fd_table entry, of fs_fd and of pipe_id.
Closed == -1
NoTask == -1

VARIABLES
  state,      \* per task slot: "UNUSED", "LIVE" (any runnable state) or "ZOMBIE"
  parent,     \* per task slot: the slot whose pid is its ppid, if still there
  fd_table,   \* per task and descriptor: an object id or Closed
  cloexec,    \* per task: the descriptors whose bit of fd_cloexec_mask is set
  fdobj,      \* fdobj_table
  pipe,       \* pipe_table; `queued' is write_pos - read_pos
  vfs_open,   \* the VFS descriptors that are open
  op,         \* the loop running under fd_lock, or Idle
  leaked      \* history: references per object whose holder was reaped

vars == <<state, parent, fd_table, cloexec, fdobj, pipe, vfs_open, op, leaked>>

FreeObj  == [used |-> FALSE, refcnt |-> 0, kind |-> "NONE",
             fs_fd |-> Closed, pipe_id |-> Closed]
FreePipe == [used |-> FALSE, readers |-> 0, writers |-> 0, queued |-> 0]
Idle     == [kind |-> "idle", task |-> NoTask, next |-> 0]

ObjType  == [used : BOOLEAN, refcnt : Nat, kind : {"NONE", "FS", "PIPE_R", "PIPE_W"},
             fs_fd : Objs \cup {Closed}, pipe_id : Pipes \cup {Closed}]
PipeType == [used : BOOLEAN, readers : Nat, writers : Nat, queued : 0 .. PipeBuf]
OpType   == [kind : {"idle", "fork", "exec"}, task : Tasks \cup {NoTask}, next : 0 .. NFds]

TypeOK ==
  /\ state \in [Tasks -> {"UNUSED", "LIVE", "ZOMBIE"}]
  /\ parent \in [Tasks -> Tasks \cup {NoTask}]
  /\ fd_table \in [Tasks -> [Fds -> Objs \cup {Closed}]]
  /\ cloexec \in [Tasks -> SUBSET Fds]
  /\ fdobj \in [Objs -> ObjType]
  /\ pipe \in [Pipes -> PipeType]
  /\ vfs_open \subseteq LegacyFds
  /\ op \in OpType
  /\ leaked \in [Objs -> Nat]

\* proc_init and nm_fd_init: the bootstrap task alone, everything closed.
Init ==
  /\ state = [t \in Tasks |-> IF t = 0 THEN "LIVE" ELSE "UNUSED"]
  /\ parent = [t \in Tasks |-> NoTask]
  /\ fd_table = [t \in Tasks |-> [fd \in Fds |-> Closed]]
  /\ cloexec = [t \in Tasks |-> {}]
  /\ fdobj = [o \in Objs |-> FreeObj]
  /\ pipe = [p \in Pipes |-> FreePipe]
  /\ vfs_open = {}
  /\ op = Idle
  /\ leaked = [o \in Objs |-> 0]

-----------------------------------------------------------------------------
(* Helpers of fd.c, on explicit values of fdobj_table (fo) and pipe_table (pi) *)

\* The scans of alloc_task_slot, alloc_task_fd, alloc_fdobj and nm_fd_pipe
\* all return the lowest free index: First(S) is {} if there is none.
First(S) == {x \in S : \A y \in S : x <= y}

FreeFds(t)    == {fd \in Fds : fd_table[t][fd] = Closed}
\* Mutant: an object with one reference left counts as free.
FreeObjsMutant == {o \in Objs : fdobj[o].refcnt <= 1}

FreeObjs      == {o \in Objs : ~ fdobj[o].used}
FreePipes     == {p \in Pipes : ~ pipe[p].used}
FreeTasks     == {t \in Tasks : state[t] = "UNUSED"}

LiveObj(fo, o) == o \in Objs /\ fo[o].used

AcquireEndpoint(pi, kind, p) ==
  IF p \notin Pipes \/ ~ pi[p].used THEN pi
  ELSE CASE kind = "PIPE_R" -> [pi EXCEPT ![p].readers = @ + 1]
         [] kind = "PIPE_W" -> [pi EXCEPT ![p].writers = @ + 1]
         [] OTHER           -> pi

Dec(n) == IF n > 0 THEN n - 1 ELSE 0

\* Mutant: the pipe is freed as soon as one side is gone.
DroppedMutant(pp, kind) ==
  LET r == IF kind = "PIPE_R" THEN Dec(pp.readers) ELSE pp.readers
      w == IF kind = "PIPE_W" THEN Dec(pp.writers) ELSE pp.writers
  IN  IF r = 0 \/ w = 0 THEN FreePipe ELSE [pp EXCEPT !.readers = r, !.writers = w]

\* One endpoint less; the pipe is freed and emptied with its last endpoint.
Dropped(pp, kind) ==
  LET r == IF kind = "PIPE_R" THEN Dec(pp.readers) ELSE pp.readers
      w == IF kind = "PIPE_W" THEN Dec(pp.writers) ELSE pp.writers
  IN  IF r = 0 /\ w = 0 THEN FreePipe ELSE [pp EXCEPT !.readers = r, !.writers = w]

ReleaseEndpoint(pi, kind, p) ==
  IF p \notin Pipes \/ ~ pi[p].used THEN pi
  ELSE [pi EXCEPT ![p] = Dropped(@, kind)]

RetainObj(fo, o)      == [fo EXCEPT ![o].refcnt = @ + 1]
RetainPipe(fo, pi, o) == AcquireEndpoint(pi, fo[o].kind, fo[o].pipe_id)

\* Mutant: the object is freed one reference too early.
ReleaseObjMutant(fo, o) ==
  IF fo[o].refcnt > 2 THEN [fo EXCEPT ![o].refcnt = @ - 1] ELSE [fo EXCEPT ![o] = FreeObj]

\* fdobj_release of an object with refcnt > 0.
ReleaseObj(fo, o) ==
  IF fo[o].refcnt > 1 THEN [fo EXCEPT ![o].refcnt = @ - 1] ELSE [fo EXCEPT ![o] = FreeObj]
ReleasePipe(fo, pi, o) == ReleaseEndpoint(pi, fo[o].kind, fo[o].pipe_id)
ReleaseVfs(fo, vo, o) ==
  IF fo[o].refcnt = 1 /\ fo[o].kind = "FS" THEN vo \ {fo[o].fs_fd} ELSE vo

Releasable(fo, o) == LiveObj(fo, o) /\ fo[o].refcnt > 0

Endpoint(kind, p) == [used |-> TRUE, refcnt |-> 1, kind |-> kind,
                      fs_fd |-> Closed, pipe_id |-> p]
FsObj(fs)         == [used |-> TRUE, refcnt |-> 1, kind |-> "FS",
                      fs_fd |-> fs, pipe_id |-> Closed]

Unlocked(t) == op = Idle /\ state[t] # "UNUSED"
Entry(t, fd) == fd_table[t][fd]

\* The references a task's table holds to object o.
HeldBy(c, o) == {x \in {c} \X Fds : Entry(c, x[2]) = o}

\* A raw VFS descriptor: an entry that is not the id of a used object.
IsLegacy(t, fd) == Entry(t, fd) # Closed /\ ~ LiveObj(fdobj, Entry(t, fd))

-----------------------------------------------------------------------------
(* nm_fd_read and nm_fd_write *)

Min2(a, b) == IF a < b THEN a ELSE b

\* read_from_pipe: at most len bytes, at most what is queued.
ReadPipe(t, fd, len) ==
  LET o == Entry(t, fd) IN
  /\ Unlocked(t) /\ LiveObj(fdobj, o) /\ fdobj[o].kind = "PIPE_R"
  /\ fdobj[o].pipe_id \in Pipes
  /\ pipe[fdobj[o].pipe_id].used
  /\ pipe' = [pipe EXCEPT ![fdobj[o].pipe_id].queued = @ - Min2(len, @)]
  /\ UNCHANGED <<state, parent, fd_table, cloexec, fdobj, vfs_open, op, leaked>>

\* write_to_pipe: at most len bytes, at most the room that is left.
WritePipe(t, fd, len) ==
  LET o == Entry(t, fd) IN
  /\ Unlocked(t) /\ LiveObj(fdobj, o) /\ fdobj[o].kind = "PIPE_W"
  /\ fdobj[o].pipe_id \in Pipes
  /\ pipe[fdobj[o].pipe_id].used
  /\ pipe' = [pipe EXCEPT ![fdobj[o].pipe_id].queued = @ + Min2(len, PipeBuf - @)]
  /\ UNCHANGED <<state, parent, fd_table, cloexec, fdobj, vfs_open, op, leaked>>

\* adopt_legacy_fs_fd in nm_fd_read and nm_fd_write: a raw VFS descriptor gets
\* an object of its own (the transfer itself is the VFS's).
AdoptLegacy(t, fd) ==
  /\ Unlocked(t) /\ IsLegacy(t, fd)
  /\ \E o \in First(FreeObjs) :
       /\ fdobj' = [fdobj EXCEPT ![o] = FsObj(Entry(t, fd))]
       /\ fd_table' = [fd_table EXCEPT ![t][fd] = o]
  /\ UNCHANGED <<state, parent, cloexec, pipe, vfs_open, op, leaked>>

-----------------------------------------------------------------------------
(* nm_fd_close *)

\* Mutant: the close-on-exec bit survives the close.
CloseFdMutant(t, fd) ==
  LET o == Entry(t, fd) IN
  /\ Releasable(fdobj, o)
  /\ fdobj' = ReleaseObj(fdobj, o)
  /\ pipe' = ReleasePipe(fdobj, pipe, o)
  /\ vfs_open' = ReleaseVfs(fdobj, vfs_open, o)
  /\ fd_table' = [fd_table EXCEPT ![t][fd] = Closed]
  /\ cloexec' = cloexec

\* task_close_fd of an entry that names a used object.
CloseFd(t, fd) ==
  LET o == Entry(t, fd) IN
  /\ Releasable(fdobj, o)
  /\ fdobj' = ReleaseObj(fdobj, o)
  /\ pipe' = ReleasePipe(fdobj, pipe, o)
  /\ vfs_open' = ReleaseVfs(fdobj, vfs_open, o)
  /\ fd_table' = [fd_table EXCEPT ![t][fd] = Closed]
  /\ cloexec' = [cloexec EXCEPT ![t] = @ \ {fd}]

\* Adoption followed by the close of the adopted object, in one critical
\* section: the new object comes and goes, the VFS descriptor is closed.
CloseAdopted(t, fd) ==
  /\ IsLegacy(t, fd) /\ FreeObjs # {}
  /\ vfs_open' = vfs_open \ {Entry(t, fd)}
  /\ fd_table' = [fd_table EXCEPT ![t][fd] = Closed]
  /\ cloexec' = [cloexec EXCEPT ![t] = @ \ {fd}]
  /\ UNCHANGED <<fdobj, pipe>>

Close(t, fd) ==
  /\ Unlocked(t)
  /\ CloseFd(t, fd) \/ CloseAdopted(t, fd)
  /\ UNCHANGED <<state, parent, op, leaked>>

-----------------------------------------------------------------------------
(* nm_fd_pipe *)

NewPipe == [used |-> TRUE, readers |-> 1, writers |-> 1, queued |-> 0]

\* The lowest free pipe, the two lowest free descriptors of the caller and the
\* two lowest free objects.
Pipe(t) ==
  /\ Unlocked(t)
  /\ \E p \in First(FreePipes), rd \in First(FreeFds(t)), ro \in First(FreeObjs) :
     \E wr \in First(FreeFds(t) \ {rd}), wo \in First(FreeObjs \ {ro}) :
       /\ pipe' = [pipe EXCEPT ![p] = NewPipe]
       /\ fdobj' = [fdobj EXCEPT ![ro] = Endpoint("PIPE_R", p),
                                 ![wo] = Endpoint("PIPE_W", p)]
       /\ fd_table' = [fd_table EXCEPT ![t][rd] = ro, ![t][wr] = wo]
  /\ UNCHANGED <<state, parent, cloexec, vfs_open, op, leaked>>

\* Mutant: the read end that was made is not released.
PipeRollbackMutant(t) ==
  /\ Unlocked(t) /\ Cardinality(FreeFds(t)) > 1
  /\ \E p \in First(FreePipes), ro \in FreeObjs :
       /\ FreeObjs = {ro}
       /\ fdobj' = [fdobj EXCEPT ![ro] = Endpoint("PIPE_R", p)]
  /\ UNCHANGED <<state, parent, fd_table, cloexec, pipe, vfs_open, op, leaked>>

\* create_pipe_endpoint_obj fails for the read or for the write end: the
\* descriptor rd is given back, a read end that was made is released, and the
\* pipe is freed again.
PipeRollback(t) ==
  /\ Unlocked(t)
  /\ \E p \in First(FreePipes), rd \in First(FreeFds(t)) :
       LET opened == [pipe EXCEPT ![p] = NewPipe]
           closed(pi) == [pi EXCEPT ![p] = [FreePipe EXCEPT !.queued = pi[p].queued]]
       IN
       /\ FreeFds(t) # {rd}
       /\ fd_table' = [fd_table EXCEPT ![t][rd] = Closed]
       /\ \/ /\ FreeObjs = {}
             /\ fdobj' = fdobj
             /\ pipe' = closed(opened)
          \/ \E ro \in FreeObjs :
               LET made == [fdobj EXCEPT ![ro] = Endpoint("PIPE_R", p)] IN
               /\ FreeObjs = {ro}
               /\ fdobj' = ReleaseObj(made, ro)
               /\ pipe' = closed(ReleasePipe(made, opened, ro))
  /\ UNCHANGED <<state, parent, cloexec, vfs_open, op, leaked>>

-----------------------------------------------------------------------------
(* nm_fd_dup2 *)

\* Mutant: an open newfd is overwritten without being closed.
Dup2Mutant(t, oldfd, newfd) ==
  LET old == Entry(t, oldfd) IN
  /\ Unlocked(t) /\ oldfd # newfd /\ LiveObj(fdobj, old) /\ fdobj[old].refcnt < MaxRefs
  /\ fdobj' = RetainObj(fdobj, old)
  /\ pipe' = RetainPipe(fdobj, pipe, old)
  /\ fd_table' = [fd_table EXCEPT ![t][newfd] = old]
  /\ cloexec' = [cloexec EXCEPT ![t] = @ \ {newfd}]
  /\ UNCHANGED <<state, parent, vfs_open, op, leaked>>

\* newfd is closed first, if open; then the object of oldfd gets one more
\* reference.  A raw VFS descriptor is not adopted here: as newfd it makes the
\* call fail at once, as oldfd it makes it fail after newfd was closed.
Dup2(t, oldfd, newfd) ==
  LET old == Entry(t, oldfd)
      new == Entry(t, newfd)
      fo1 == IF new = Closed THEN fdobj ELSE ReleaseObj(fdobj, new)
      pi1 == IF new = Closed THEN pipe ELSE ReleasePipe(fdobj, pipe, new)
  IN
  /\ Unlocked(t) /\ oldfd # newfd /\ old # Closed
  /\ new = Closed \/ Releasable(fdobj, new)
  /\ vfs_open' = IF new = Closed THEN vfs_open ELSE ReleaseVfs(fdobj, vfs_open, new)
  /\ \/ /\ LiveObj(fo1, old)
        /\ fo1[old].refcnt < MaxRefs
        /\ fdobj' = RetainObj(fo1, old)
        /\ pipe' = RetainPipe(fo1, pi1, old)
        /\ fd_table' = [fd_table EXCEPT ![t][newfd] = old]
        /\ cloexec' = [cloexec EXCEPT ![t] = @ \ {newfd}]
     \/ /\ ~ LiveObj(fo1, old)
        /\ fdobj' = fo1
        /\ pipe' = pi1
        /\ fd_table' = [fd_table EXCEPT ![t][newfd] = Closed]
        /\ cloexec' = [cloexec EXCEPT ![t] = IF new = Closed THEN @ ELSE @ \ {newfd}]
  /\ UNCHANGED <<state, parent, op, leaked>>

-----------------------------------------------------------------------------
(* sys_fork: proc_fork_current, then nm_fd_on_fork_child *)

\* *child = *current_task copies fd_table and fd_cloexec_mask into the lowest
\* unused slot.
Fork(t, c) ==
  /\ Unlocked(t)
  /\ c \in First(FreeTasks)
  /\ \A o \in Objs : fdobj[o].refcnt + Cardinality(HeldBy(t, o)) <= MaxRefs
  /\ state' = [state EXCEPT ![c] = "LIVE"]
  /\ parent' = [parent EXCEPT ![c] = t]
  /\ fd_table' = [fd_table EXCEPT ![c] = fd_table[t]]
  /\ cloexec' = [cloexec EXCEPT ![c] = cloexec[t]]
  /\ op' = [kind |-> "fork", task |-> c, next |-> 0]
  /\ UNCHANGED <<fdobj, pipe, vfs_open, leaked>>

\* One turn of the loop of nm_fd_on_fork_child.
ForkRetain ==
  LET c == op.task  fd == op.next  o == Entry(c, fd) IN
  /\ op.kind = "fork" /\ fd \in Fds
  /\ \/ /\ o = Closed
        /\ UNCHANGED <<fd_table, fdobj, pipe>>
     \/ /\ LiveObj(fdobj, o)
        /\ fdobj' = RetainObj(fdobj, o)
        /\ pipe' = RetainPipe(fdobj, pipe, o)
        /\ UNCHANGED fd_table
     \/ /\ IsLegacy(c, fd)
        /\ fd_table' = [fd_table EXCEPT ![c][fd] = Closed]
        /\ UNCHANGED <<fdobj, pipe>>
  /\ op' = [op EXCEPT !.next = @ + 1]
  /\ UNCHANGED <<state, parent, cloexec, vfs_open, leaked>>

\* Mutant: the loop stops one descriptor early.
LoopEndShort ==
  /\ op # Idle /\ op.next >= NFds - 1
  /\ op' = Idle
  /\ UNCHANGED <<state, parent, fd_table, cloexec, fdobj, pipe, vfs_open, leaked>>

\* The end of either loop: fd_lock is released.
LoopEnd ==
  /\ op # Idle /\ op.next = NFds
  /\ op' = Idle
  /\ UNCHANGED <<state, parent, fd_table, cloexec, fdobj, pipe, vfs_open, leaked>>

-----------------------------------------------------------------------------
(* nm_fd_set_cloexec; sys_exec: nm_fd_close_on_exec *)

SetCloexec(t, fd, enabled) ==
  /\ Unlocked(t) /\ Entry(t, fd) # Closed
  /\ cloexec' = [cloexec EXCEPT ![t] = IF enabled THEN @ \cup {fd} ELSE @ \ {fd}]
  /\ UNCHANGED <<state, parent, fd_table, fdobj, pipe, vfs_open, op, leaked>>

\* The path exists and has an entry point: nm_fd_close_on_exec is entered.
Exec(t) ==
  /\ Unlocked(t)
  /\ op' = [kind |-> "exec", task |-> t, next |-> 0]
  /\ UNCHANGED <<state, parent, fd_table, cloexec, fdobj, pipe, vfs_open, leaked>>

\* One turn of the loop of nm_fd_close_on_exec.
ExecClose ==
  LET t == op.task  fd == op.next IN
  /\ op.kind = "exec" /\ fd \in Fds
  /\ \/ /\ fd \notin cloexec[t]
        /\ UNCHANGED <<fd_table, cloexec, fdobj, pipe, vfs_open>>
     \/ /\ fd \in cloexec[t] /\ Entry(t, fd) = Closed
        /\ cloexec' = [cloexec EXCEPT ![t] = @ \ {fd}]
        /\ UNCHANGED <<fd_table, fdobj, pipe, vfs_open>>
     \/ /\ fd \in cloexec[t]
        /\ CloseFd(t, fd) \/ CloseAdopted(t, fd)
     \/ /\ fd \in cloexec[t] /\ IsLegacy(t, fd) /\ FreeObjs = {}
        /\ UNCHANGED <<fd_table, cloexec, fdobj, pipe, vfs_open>>
  /\ op' = [op EXCEPT !.next = @ + 1]
  /\ UNCHANGED <<state, parent, leaked>>

-----------------------------------------------------------------------------
(* Task slots: task_create_kernel_thread, proc_exit_current, proc_waitpid *)

CreateThread(t, c) ==
  /\ Unlocked(t)
  /\ c \in First(FreeTasks)
  /\ state' = [state EXCEPT ![c] = "LIVE"]
  /\ parent' = [parent EXCEPT ![c] = t]
  /\ fd_table' = [fd_table EXCEPT ![c] = [fd \in Fds |-> Closed]]
  /\ cloexec' = [cloexec EXCEPT ![c] = {}]
  /\ UNCHANGED <<fdobj, pipe, vfs_open, op, leaked>>

\* Only the state changes: the descriptors stay open.
Exit(t) ==
  /\ Unlocked(t)
  /\ state' = [state EXCEPT ![t] = "ZOMBIE"]
  /\ UNCHANGED <<parent, fd_table, cloexec, fdobj, pipe, vfs_open, op, leaked>>

\* Task t reaps its zombie child c: the slot is free again and the mask is 0,
\* but no object is released, so the references of c are lost.  The children
\* of c have a ppid that no task has any more.
Waitpid(t, c) ==
  /\ Unlocked(t)
  /\ state[c] = "ZOMBIE" /\ parent[c] = t
  /\ \A o \in Objs : leaked[o] + Cardinality(HeldBy(c, o)) <= MaxLeaked
  /\ state' = [state EXCEPT ![c] = "UNUSED"]
  /\ parent' = [u \in Tasks |-> IF u = c \/ parent[u] = c THEN NoTask ELSE parent[u]]
  /\ cloexec' = [cloexec EXCEPT ![c] = {}]
  /\ leaked' = [o \in Objs |-> leaked[o] + Cardinality(HeldBy(c, o))]
  /\ UNCHANGED <<fd_table, fdobj, pipe, vfs_open, op>>

-----------------------------------------------------------------------------
(* The specifications *)

Syscall(t) ==
  \/ \E fd \in Fds :
       \/ \E len \in 0 .. MaxIO : ReadPipe(t, fd, len) \/ WritePipe(t, fd, len)
       \/ AdoptLegacy(t, fd)
       \/ Close(t, fd)
       \/ \E enabled \in BOOLEAN : SetCloexec(t, fd, enabled)
       \/ \E newfd \in Fds : Dup2(t, fd, newfd)
  \/ Pipe(t)
  \/ PipeRollback(t)
  \/ Exec(t)
  \/ Exit(t)
  \/ \E c \in Tasks : Fork(t, c) \/ CreateThread(t, c) \/ Waitpid(t, c)

LoopStep == ForkRetain \/ ExecClose \/ LoopEnd

\* The kernel as built: no code under kernel/ stores a raw VFS descriptor.
Next == LoopStep \/ \E t \in Tasks : Syscall(t)

Spec == Init /\ [][Next]_vars

\* What a kernel client may do besides (tests/unit/test_syscall_m9.c stores
\* the result of fs_open in fd_table): the path adopt_legacy_fs_fd is for.
InstallLegacy(t, fd, fs) ==
  /\ Unlocked(t)
  /\ fs \notin vfs_open
  /\ vfs_open' = vfs_open \cup {fs}
  /\ fd_table' = [fd_table EXCEPT ![t][fd] = fs]
  /\ Entry(t, fd) = Closed
  /\ UNCHANGED <<state, parent, cloexec, fdobj, pipe, op, leaked>>

NextLegacy ==
  \/ Next
  \/ \E t \in Tasks, fd \in Fds, fs \in LegacyFds : InstallLegacy(t, fd, fs)

SpecLegacy == Init /\ [][NextLegacy]_vars

-----------------------------------------------------------------------------
(* Properties *)

\* During nm_fd_on_fork_child the child's entries from op.next on are copies
\* that were not retained yet.
Pending(t, fd) == op.kind = "fork" /\ t = op.task /\ fd >= op.next

\* The entries that stand for one counted reference each.
Counted ==
  [t \in Tasks |-> [fd \in Fds |->
     IF state[t] = "UNUSED" \/ Pending(t, fd) THEN Closed ELSE fd_table[t][fd]]]

Refs(ct, o) == {x \in Tasks \X Fds : ct[x[1]][x[2]] = o}

\* The reference count of an object is exactly the number of descriptors, of
\* all tasks, that denote it, plus those of tasks reaped with open
\* descriptors: no sequence of pipe, dup2, fork, close and exec loses or
\* invents a reference (fdobj_retain, fdobj_release, M3.md:28).
RefcountExact ==
  \A o \in Objs : fdobj[o].used =>
    fdobj[o].refcnt = Cardinality(Refs(Counted, o)) + leaked[o]

\* No descriptor of any task outlives its object: closing in one task, or
\* rolling back a failed pipe(), never pulls an object from under another.
NoDanglingDescriptor ==
  \A t \in Tasks, fd \in Fds :
    state[t] # "UNUSED" /\ fd_table[t][fd] # Closed => fdobj[fd_table[t][fd]].used

\* A pipe counts as many readers (writers) as its read (write) end has
\* references, is in use exactly as long as it has an end, and each of its
\* ends is one object (pipe_on_endpoint_acquire, pipe_on_endpoint_release).
PipeCountsMatchEndpoints ==
  \A p \in Pipes :
    LET ends(kind) == {o \in Objs : fdobj[o].used /\ fdobj[o].kind = kind
                                    /\ fdobj[o].pipe_id = p}
    IN  /\ \A o \in ends("PIPE_R") : ends("PIPE_R") = {o} /\ pipe[p].readers = fdobj[o].refcnt
        /\ \A o \in ends("PIPE_W") : ends("PIPE_W") = {o} /\ pipe[p].writers = fdobj[o].refcnt
        /\ ends("PIPE_R") = {} => pipe[p].readers = 0
        /\ ends("PIPE_W") = {} => pipe[p].writers = 0
        /\ pipe[p].used <=> ends("PIPE_R") \cup ends("PIPE_W") # {}

\* The close-on-exec bit of a closed descriptor is clear, so a descriptor that
\* nm_fd_pipe hands out, which leaves the mask alone, is never born
\* close-on-exec.
CloexecOnlyOnOpen ==
  \A t \in Tasks, fd \in Fds :
    state[t] # "UNUSED" /\ fd \in cloexec[t] => fd_table[t][fd] # Closed

\* As long as a descriptor keeps its object id, that id keeps its meaning: the
\* object is not freed and given to another pipe under a live descriptor.
DescriptorKeepsMeaning ==
  [][\A t \in Tasks, fd \in Fds :
       LET o == Counted[t][fd] IN
       o # Closed /\ Counted'[t][fd] = o =>
         /\ fdobj'[o].kind = fdobj[o].kind
         /\ fdobj'[o].pipe_id = fdobj[o].pipe_id]_vars

\* pipe() that fails for want of objects, after having taken a pipe, a
\* descriptor and maybe one object, leaves every table as it was.
FailedPipeLeavesNoTrace ==
  [][(\E t \in Tasks : PipeRollback(t)) => UNCHANGED <<fd_table, fdobj, pipe>>]_vars

\* A child that fork has finished with has its parent's descriptors, all of
\* them counted.
ForkSharesDescriptors ==
  op.kind = "fork" => fd_table[op.task] = fd_table[parent[op.task]]

\* When exec returns, the caller has no close-on-exec descriptor left, and
\* exec closed no other descriptor (nm_fd_close_on_exec).
ExecClosesExactlyCloexec ==
  /\ [][op.kind = "exec" /\ op' = Idle => cloexec[op.task] = {}]_vars
  /\ [][op.kind = "exec" => \A t \in Tasks, fd \in Fds :
          fd_table'[t][fd] # fd_table[t][fd] => t = op.task /\ fd \in cloexec[t]]_vars
=============================================================================
