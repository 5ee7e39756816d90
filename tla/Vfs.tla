-------------------------------- MODULE Vfs --------------------------------
(***************************************************************************)
(* The file layer (kernel/fs/vfs.c) with the file systems below it,        *)
(* kernel/fs/tmpfs.c and kernel/fs/ext2.c.                                 *)
(*                                                                         *)
(* Reading, writing, seeking and closing are each done under fs_lock, in   *)
(* one action.  fs_open is not: it looks the path up, creates the file,    *)
(* takes a descriptor and fills it in, and other calls may come between    *)
(* these four steps.  Looking up and creating take no lock, and nothing in *)
(* them gives up the processor, so each is one action.                     *)
(*                                                                         *)
(* Neither file system has directories below the root or removes a file,   *)
(* so the nodes are a sequence in the order of their creation, and the     *)
(* list of the root's children is that sequence read backwards.  A path is *)
(* "/" or a name; a longer one always fails.  A caller uses and closes     *)
(* what it opened, as the descriptor table does (RefcountExact).           *)
(***************************************************************************)
EXTENDS Integers, Sequences, FiniteSets

CONSTANTS
  Callers,
  Names,        \* names of files
  NFds,         \* NM_FD_MAX
  MaxNodes,     \* nodes besides the root (TMPFS_MAX_NODES - 1; 256 in ext2)
  FirstCap,     \* the first capacity of a file in tmpfs (64)
  Bytes,
  MaxSize,      \* bound on the size of a file and on offsets
  MaxLen        \* bound on the bytes of one call

ASSUME VfsAssumption ==
  /\ NFds \in Nat /\ MaxNodes \in Nat /\ FirstCap \in Nat \ {0} /\ MaxSize \in Nat /\ MaxLen \in Nat
  /\ Names \cap {"/", "closed"} = {} /\ "missing" \notin Bytes

VARIABLES
  root_fs,      \* the file system mounted at boot
  nodes,        \* nodes[n]: a file, with the buffer tmpfs has for it
  fd_table,
  call,         \* the fs_open each caller is in
  holds         \* history: the descriptors returned to each caller and not closed, with their names

vars == <<root_fs, nodes, fd_table, call, holds>>

Fds == 0 .. NFds - 1
Nobody == 0     \* vnode of a descriptor being opened
RootNode == -1  \* the root's node

\* What a fresh buffer holds.
Stale == "stale"

NameOf(n) == IF n = RootNode THEN "/" ELSE nodes[n].name

Idle == [at |-> "idle"]
Unused == [used |-> FALSE, vnode |-> Nobody, offset |-> 0]

\* fs_init, fs_mount_root with tmpfs_mount_root or ext2_mount_root.
Init ==
  /\ root_fs \in {"tmpfs", "ext2"}
  /\ nodes = << >>
  /\ fd_table = [fd \in Fds |-> Unused]
  /\ call = [k \in Callers |-> Idle]
  /\ holds = [k \in Callers |-> {}]

-----------------------------------------------------------------------------
(* fs_open *)

\* The nodes with this name: the search from the head of the list finds the newest.
Named(name) == {n \in DOMAIN nodes : nodes[n].name = name}
Lookup(name) ==
  IF name = "/" THEN {RootNode} ELSE {n \in Named(name) : \A m \in Named(name) : m <= n}

\* resolve_path
OpenResolve(k, name, creat) ==
  /\ call[k] = Idle
  /\ \/ \E n \in Lookup(name) : call' = [call EXCEPT ![k] = [at |-> "alloc", node |-> n]]
     \/ /\ Lookup(name) = {} /\ creat
        /\ call' = [call EXCEPT ![k] = [at |-> "create", name |-> name]]
  /\ UNCHANGED <<root_fs, nodes, fd_table, holds>>

\* A node as alloc_node leaves it; ext2 sets the same fields.
NewFile(name) == [name |-> name, size |-> 0, data |-> << >>]

\* Both file systems look the name up again, and run out of nodes.
CanCreate(name) == Lookup(name) = {} /\ Len(nodes) < MaxNodes

\* tmpfs_create or ext2_create
OpenCreate(k) ==
  /\ call[k].at = "create"
  /\ \/ /\ CanCreate(call[k].name)
        /\ nodes' = Append(nodes, NewFile(call[k].name))
        /\ call' = [call EXCEPT ![k] = [at |-> "alloc", node |-> Len(nodes) + 1]]
     \/ /\ ~CanCreate(call[k].name)
        /\ call' = [call EXCEPT ![k] = Idle]
        /\ UNCHANGED nodes
  /\ UNCHANGED <<root_fs, fd_table, holds>>

FreeFds == {fd \in Fds : ~fd_table[fd].used}
LowestFree == {fd \in FreeFds : \A other \in FreeFds : fd <= other}

\* Mutant: the descriptor found is not marked.
OpenAllocMutant(k) ==
  /\ call[k].at = "alloc"
  /\ \E fd \in LowestFree : call' = [call EXCEPT ![k] = [at |-> "fill", node |-> call[k].node, fd |-> fd]]
  /\ UNCHANGED <<root_fs, nodes, fd_table, holds>>

\* alloc_fd, under the lock.  The open of both file systems accepts every node.
OpenAlloc(k) ==
  /\ call[k].at = "alloc"
  /\ \/ \E fd \in LowestFree :
          /\ fd_table' = [fd_table EXCEPT ![fd] = [used |-> TRUE, vnode |-> Nobody, offset |-> 0]]
          /\ call' = [call EXCEPT ![k] = [at |-> "fill", node |-> call[k].node, fd |-> fd]]
     \/ FreeFds = {} /\ call' = [call EXCEPT ![k] = Idle] /\ UNCHANGED fd_table
  /\ UNCHANGED <<root_fs, nodes, holds>>

\* The descriptor is filled in, under the lock taken again, and returned.
OpenFill(k) ==
  /\ call[k].at = "fill"
  /\ LET fd == call[k].fd  n == call[k].node IN
     /\ fd_table' = [fd_table EXCEPT ![fd].vnode = n, ![fd].offset = 0]
     /\ holds' = [holds EXCEPT ![k] = @ \cup {[fd |-> fd, name |-> NameOf(n)]}]
  /\ call' = [call EXCEPT ![k] = Idle]
  /\ UNCHANGED <<root_fs, nodes>>

-----------------------------------------------------------------------------
(* Open files *)

\* Descriptors that are used and lead to a file, not to the root.
IsFile(fd) == fd_table[fd].used /\ fd_table[fd].vnode \in DOMAIN nodes

\* In the kernel the nodes of ext2 have no data: nothing can be read from them or written to them.
HasData == root_fs = "tmpfs"

Smaller(a, b) == IF a < b THEN a ELSE b
Larger(a, b) == IF a < b THEN b ELSE a

\* tmpfs_read moves the offset by what there is to read.
FsRead(fd, len) ==
  LET offset == fd_table[fd].offset
      size == nodes[fd_table[fd].vnode].size
  IN  /\ IsFile(fd) /\ HasData /\ offset < size
      /\ fd_table' = [fd_table EXCEPT ![fd].offset = offset + Smaller(len, size - offset)]
      /\ UNCHANGED <<root_fs, nodes, call, holds>>

\* The capacity after it was doubled until it is enough (a set with one member).
Grown(node, need) ==
  LET start == IF node.data = << >> THEN FirstCap ELSE Len(node.data) IN
  {cap \in need .. start + 2 * need :
     \E i \in 0 .. need : cap = start * 2^i /\ (i = 0 \/ start * 2^(i - 1) < need)}

\* Mutant: the old bytes are not copied.
ReserveMutant(node, need) ==
  IF need <= Len(node.data) THEN {node.data} ELSE {[i \in 1 .. cap |-> Stale] : cap \in Grown(node, need)}

\* tmpfs_reserve: a larger buffer, with the bytes of the file and whatever kmalloc left after them.
Reserve(node, need) ==
  IF need <= Len(node.data) THEN {node.data}
  ELSE {[i \in 1 .. cap |-> IF i <= node.size THEN node.data[i] ELSE Stale] : cap \in Grown(node, need)}

\* tmpfs_write: the bytes from the old end up to offset are left as they are in the buffer.
Written(node, buffer, offset, bytes) ==
  LET end == offset + Len(bytes) IN
  [name |-> node.name, size |-> Larger(node.size, end),
   data |-> [i \in 1 .. Len(buffer) |-> IF offset < i /\ i <= end THEN bytes[i - offset] ELSE buffer[i]]]

\* fs_write.  It fails without a trace when tmpfs finds no memory.
FsWrite(fd, bytes) ==
  LET n == fd_table[fd].vnode
      offset == fd_table[fd].offset
  IN  /\ IsFile(fd) /\ HasData /\ offset + Len(bytes) <= MaxSize
      /\ \E buffer \in Reserve(nodes[n], offset + Len(bytes)) :
           nodes' = [nodes EXCEPT ![n] = Written(nodes[n], buffer, offset, bytes)]
      /\ fd_table' = [fd_table EXCEPT ![fd].offset = offset + Len(bytes)]
      /\ UNCHANGED <<root_fs, call, holds>>

\* fs_lseek, from wherever: any place that is not negative, beyond the end too.
FsLseek(fd, next) ==
  /\ fd_table[fd].used
  /\ fd_table' = [fd_table EXCEPT ![fd].offset = next]
  /\ UNCHANGED <<root_fs, nodes, call, holds>>

\* fs_close, by the caller it was returned to.
FsClose(k, h) ==
  /\ h \in holds[k] /\ fd_table[h.fd].used
  /\ fd_table' = [fd_table EXCEPT ![h.fd] = Unused]
  /\ holds' = [holds EXCEPT ![k] = @ \ {h}]
  /\ UNCHANGED <<root_fs, nodes, call>>

Strings == UNION {[1 .. n -> Bytes] : n \in 0 .. MaxLen}

Next ==
  \/ \E k \in Callers :
       \/ \E name \in Names \cup {"/"}, creat \in BOOLEAN : OpenResolve(k, name, creat)
       \/ OpenCreate(k) \/ OpenAlloc(k) \/ OpenFill(k)
       \/ \E h \in holds[k] : FsClose(k, h)
  \/ \E fd \in Fds :
       \/ \E len \in 0 .. MaxLen : FsRead(fd, len)
       \/ \E next \in 0 .. MaxSize : FsLseek(fd, next)
       \/ \E bytes \in Strings : FsWrite(fd, bytes)

Spec == Init /\ [][Next]_vars

-----------------------------------------------------------------------------
(* Properties *)

Opening == {k \in Callers : call[k].at = "fill"}
Handles == UNION {{k} \X holds[k] : k \in Callers}
InUse == {fd \in Fds : fd_table[fd].used}

\* A descriptor returned for a name, and one that is taken and not yet filled in.
Leads(h) ==
  LET file == fd_table[h.fd] IN file.used /\ file.vnode # Nobody /\ NameOf(file.vnode) = h.name
Reserved(fd) == fd_table[fd].used /\ fd_table[fd].vnode = Nobody

\* A descriptor that is used belongs to one caller: to the one that has it from fs_open, and then leads
\* to the file that caller named, or to the one whose fs_open has taken it and not yet filled it in.
\* No other descriptor is used, so a failed fs_open leaves none behind.
HandlesSound ==
  /\ \A k \in Callers : \A h \in holds[k] : Leads(h)
  /\ \A k \in Opening : Reserved(call[k].fd)
  /\ Cardinality(InUse) = Cardinality(Opening) + Cardinality(Handles)

\* The bytes of the file a name leads to, and the open file a descriptor stands for.
StoredFile(name) ==
  IF Named(name) = {} THEN <<"missing">>
  ELSE LET node == nodes[CHOOSE n \in Lookup(name) : TRUE] IN SubSeq(node.data, 1, node.size)
OpenFile(fd) ==
  IF fd_table[fd].used /\ fd_table[fd].vnode # Nobody
  THEN [name |-> NameOf(fd_table[fd].vnode), offset |-> fd_table[fd].offset]
  ELSE [name |-> "closed", offset |-> 0]
StoredFiles == [name \in Names |-> StoredFile(name)]
OpenFiles == [fd \in Fds |-> OpenFile(fd)]

Store == INSTANCE FileStore WITH Unwritten <- Stale, files <- StoredFiles, open <- OpenFiles

\* The descriptors, nodes and growing buffers implement named files: a byte written stays what it is
\* until it is written again, two callers that create one name get one file, and each open file moves
\* by its own calls only.
ImplementsFileStore == Store!Spec
=============================================================================
