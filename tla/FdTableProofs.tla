--------------------------- MODULE FdTableProofs ---------------------------
(***************************************************************************)
(* Proofs about FdTable, for every number of tasks, descriptors, objects   *)
(* and pipes.  The invariants of FdTable are not inductive one by one: a   *)
(* count is right because the table is right, and a table entry is live    *)
(* because the count is.  CoreInv states all of it about explicit values,  *)
(* so that dup2, which closes one descriptor and opens another in one      *)
(* step, is two applications of the lemmas on close and on open.           *)
(***************************************************************************)
EXTENDS FdTable, FiniteSetTheorems, TLAPS

TableType == [Tasks -> [Fds -> Objs \cup {Closed}]]

\* Counts and entries agree: ct is the table of counted entries.
RefsInv(ct, fo, lk) ==
  /\ \A t \in Tasks, fd \in Fds : ct[t][fd] # Closed => fo[ct[t][fd]].used
  /\ \A o \in Objs : fo[o].used => fo[o].refcnt = Cardinality(Refs(ct, o)) + lk[o]
  /\ \A o \in Objs : fo[o].used => fo[o].refcnt > 0
  /\ \A o \in Objs : ~ fo[o].used => fo[o] = FreeObj /\ lk[o] = 0

IsEnd(fo, o, kind, p) == fo[o].used /\ fo[o].kind = kind /\ fo[o].pipe_id = p

\* Objects and pipes agree: an object is one end of a pipe in use, the only
\* one of its kind, and carries the pipe's count for that end.
PipesInv(fo, pi) ==
  /\ \A o \in Objs : fo[o].used =>
       /\ fo[o].kind \in {"PIPE_R", "PIPE_W"}
       /\ fo[o].pipe_id \in Pipes
       /\ pi[fo[o].pipe_id].used
       /\ fo[o].kind = "PIPE_R" => pi[fo[o].pipe_id].readers = fo[o].refcnt
       /\ fo[o].kind = "PIPE_W" => pi[fo[o].pipe_id].writers = fo[o].refcnt
  /\ \A o1, o2 \in Objs :
       fo[o1].used /\ IsEnd(fo, o2, fo[o1].kind, fo[o1].pipe_id) => o1 = o2
  /\ \A p \in Pipes :
       /\ pi[p].readers > 0 => \E o \in Objs : IsEnd(fo, o, "PIPE_R", p)
       /\ pi[p].writers > 0 => \E o \in Objs : IsEnd(fo, o, "PIPE_W", p)
       /\ pi[p].used => pi[p].readers > 0 \/ pi[p].writers > 0
       /\ ~ pi[p].used => pi[p] = FreePipe

CoreInv(ct, fo, pi, lk) == RefsInv(ct, fo, lk) /\ PipesInv(fo, pi)

\* The loops under fd_lock: a fork in progress has a live parent, whose table
\* is still the child's; an exec in progress has dealt with the bits below
\* op.next.
OpInv ==
  /\ op.kind = "idle" => op = Idle
  /\ op.kind # "idle" => op.task \in Tasks /\ state[op.task] # "UNUSED"
  /\ op.kind = "fork" =>
       /\ parent[op.task] \in Tasks /\ parent[op.task] # op.task
       /\ state[parent[op.task]] # "UNUSED"
       /\ fd_table[op.task] = fd_table[parent[op.task]]
  /\ op.kind = "exec" => \A fd \in cloexec[op.task] : fd >= op.next

IInv == TypeOK /\ OpInv /\ CloexecOnlyOnOpen /\ CoreInv(Counted, fdobj, pipe, leaked)

-----------------------------------------------------------------------------
(* Sets of references *)

\* The references to an object are finitely many.
LEMMA RefsFinite ==
  ASSUME NEW ct, NEW o
  PROVE  IsFiniteSet(Refs(ct, o)) /\ Cardinality(Refs(ct, o)) \in Nat
<1>1. IsFiniteSet(Tasks) /\ IsFiniteSet(Fds)
  BY FS_Interval, ConstantsAssumption DEF Tasks, Fds
<1>2. IsFiniteSet(Tasks \X Fds)
  BY <1>1, FS_Product, Zenon
<1>3. Refs(ct, o) \in SUBSET (Tasks \X Fds)
  BY Zenon DEF Refs
<1>. QED
  BY <1>2, <1>3, FS_Subset, FS_CardinalityType, Zenon

\* Table `to' is table `from' except at descriptor fd of task t.
SameBut(from, to, t, fd) ==
  \A u \in Tasks, f \in Fds : <<u, f>> # <<t, fd>> => to[u][f] = from[u][f]

\* Closing one descriptor takes one reference from its object and none from
\* any other.
LEMMA RefsClose ==
  ASSUME NEW from \in TableType, NEW to \in TableType,
         NEW t \in Tasks, NEW fd \in Fds, NEW o \in Objs,
         SameBut(from, to, t, fd), to[t][fd] = Closed
  PROVE  Cardinality(Refs(to, o)) =
           IF from[t][fd] = o THEN Cardinality(Refs(from, o)) - 1
           ELSE Cardinality(Refs(from, o))
<1>1. o # Closed
  BY ConstantsAssumption DEF Objs, Closed
<1>2. Refs(to, o) = Refs(from, o) \ {<<t, fd>>}
  <2>1. ASSUME NEW x \in Tasks \X Fds
        PROVE  x \in Refs(to, o) <=> x \in Refs(from, o) \ {<<t, fd>>}
    <3>1. PICK u \in Tasks, f \in Fds : x = <<u, f>>
      OBVIOUS
    <3>. QED
      BY <1>1, <3>1, Zenon DEF Refs, SameBut
  <2>. QED
    BY <2>1, Zenon DEF Refs
<1>3. <<t, fd>> \in Refs(from, o) <=> from[t][fd] = o
  BY Zenon DEF Refs
<1>. QED
  BY <1>2, <1>3, RefsFinite, FS_RemoveElement, ZenonT(60)

\* Opening a closed descriptor on object o adds one reference to o and none
\* to any other.
LEMMA RefsOpen ==
  ASSUME NEW from \in TableType, NEW to \in TableType,
         NEW t \in Tasks, NEW fd \in Fds, NEW o \in Objs,
         SameBut(from, to, t, fd), from[t][fd] = Closed
  PROVE  Cardinality(Refs(to, o)) =
           IF to[t][fd] = o THEN Cardinality(Refs(from, o)) + 1
           ELSE Cardinality(Refs(from, o))
<1>1. SameBut(to, from, t, fd)
  BY Zenon DEF SameBut
<1>2. Cardinality(Refs(from, o)) =
        IF to[t][fd] = o THEN Cardinality(Refs(to, o)) - 1 ELSE Cardinality(Refs(to, o))
  BY <1>1, RefsClose
<1>. QED
  BY <1>2, RefsFinite

-----------------------------------------------------------------------------
(* fdobj_release and fdobj_retain *)

\* What is left of a pipe when it loses an endpoint.
LEMMA DroppedType ==
  ASSUME NEW pp \in PipeType, pp.used, NEW kind \in {"PIPE_R", "PIPE_W"}
  PROVE  LET d == Dropped(pp, kind) IN
         /\ d \in PipeType
         /\ d.readers = IF kind = "PIPE_R" THEN Dec(pp.readers) ELSE pp.readers
         /\ d.writers = IF kind = "PIPE_W" THEN Dec(pp.writers) ELSE pp.writers
         /\ d.used => d.readers > 0 \/ d.writers > 0
         /\ d.readers > 0 \/ d.writers > 0 => d.used
         /\ ~ d.used => d = FreePipe
<1>. DEFINE r == IF kind = "PIPE_R" THEN Dec(pp.readers) ELSE pp.readers
            w == IF kind = "PIPE_W" THEN Dec(pp.writers) ELSE pp.writers
<1>1. r \in Nat /\ w \in Nat
  BY DEF PipeType, Dec
<1>2. Dropped(pp, kind) =
        IF r = 0 /\ w = 0 THEN FreePipe ELSE [pp EXCEPT !.readers = r, !.writers = w]
  BY Zenon DEF Dropped
<1>. HIDE DEF r, w
<1>3. CASE r = 0 /\ w = 0
  BY <1>2, <1>3, ConstantsAssumption DEF PipeType, FreePipe, r, w
<1>4. CASE ~ (r = 0 /\ w = 0)
  <2>1. Dropped(pp, kind) = [pp EXCEPT !.readers = r, !.writers = w]
    BY <1>2, <1>4, Zenon
  <2>2. /\ Dropped(pp, kind) \in PipeType
        /\ Dropped(pp, kind).readers = r /\ Dropped(pp, kind).writers = w
        /\ Dropped(pp, kind).used
    BY <1>1, <2>1, Zenon DEF PipeType
  <2>3. r > 0 \/ w > 0
    BY <1>1, <1>4
  <2>. QED
    BY <2>2, <2>3, Zenon DEF r, w
<1>. QED
  BY <1>3, <1>4, Zenon

\* Closing a descriptor (task_close_fd) keeps the core invariant.
LEMMA ReleaseCore ==
  ASSUME NEW from \in TableType, NEW to \in TableType,
         NEW fo \in [Objs -> ObjType], NEW pi \in [Pipes -> PipeType],
         NEW lk \in [Objs -> Nat], NEW t \in Tasks, NEW fd \in Fds,
         CoreInv(from, fo, pi, lk), from[t][fd] # Closed,
         SameBut(from, to, t, fd), to[t][fd] = Closed
  PROVE  LET o == from[t][fd] IN
         /\ Releasable(fo, o)
         /\ ReleaseObj(fo, o) \in [Objs -> ObjType]
         /\ ReleasePipe(fo, pi, o) \in [Pipes -> PipeType]
         /\ CoreInv(to, ReleaseObj(fo, o), ReleasePipe(fo, pi, o), lk)
<1>. DEFINE o  == from[t][fd]
            f2 == ReleaseObj(fo, o)
            p  == fo[o].pipe_id
            p2 == ReleasePipe(fo, pi, o)
<1>1. o \in Objs /\ fo[o].used /\ fo[o].refcnt > 0
  BY DEF CoreInv, RefsInv, TableType
<1>2. Releasable(fo, o)
  BY <1>1, Zenon DEF Releasable, LiveObj
<1>3. /\ f2 \in [Objs -> ObjType]
      /\ \A x \in Objs : x # o => f2[x] = fo[x]
      /\ fo[o].refcnt > 1 => f2[o] = [fo[o] EXCEPT !.refcnt = fo[o].refcnt - 1]
      /\ fo[o].refcnt = 1 => f2[o] = FreeObj
  BY <1>1, SMTT(60) DEF ReleaseObj, ObjType, FreeObj
<1>4. /\ p \in Pipes /\ pi[p].used
      /\ p2 = [pi EXCEPT ![p] = Dropped(pi[p], fo[o].kind)]
      /\ fo[o].kind = "PIPE_R" \/ fo[o].kind = "PIPE_W"
      /\ fo[o].kind = "PIPE_R" => pi[p].readers = fo[o].refcnt
      /\ fo[o].kind = "PIPE_W" => pi[p].writers = fo[o].refcnt
  BY <1>1, Zenon DEF CoreInv, PipesInv, ReleasePipe, ReleaseEndpoint
<1>5. p2 \in [Pipes -> PipeType]
  <2>1. Dropped(pi[p], fo[o].kind) \in PipeType
    BY <1>4, DroppedType, Zenon
  <2>. QED
    BY <1>4, <2>1, ZenonT(60)
<1>. HIDE DEF f2, p2
<1>6. RefsInv(to, f2, lk)
  <2>1. \A x \in Objs : Cardinality(Refs(to, x)) =
          IF x = o THEN Cardinality(Refs(from, x)) - 1 ELSE Cardinality(Refs(from, x))
    BY RefsClose
  <2>2. \A x \in Objs : Cardinality(Refs(to, x)) \in Nat /\ Cardinality(Refs(from, x)) \in Nat
    BY RefsFinite, Zenon
  <2>3. \A x \in Objs : f2[x].used => f2[x].refcnt = Cardinality(Refs(to, x)) + lk[x]
    BY <1>1, <1>3, <2>1, <2>2 DEF CoreInv, RefsInv, ObjType, FreeObj
  <2>4. \A x \in Objs : f2[x].used => f2[x].refcnt > 0
    BY <1>1, <1>3, SMTT(60) DEF CoreInv, RefsInv, ObjType, FreeObj
  <2>5. \A x \in Objs : ~ f2[x].used => f2[x] = FreeObj /\ lk[x] = 0
    <3>1. fo[o].refcnt = 1 => lk[o] = 0
      BY <1>1, <2>1, <2>2 DEF CoreInv, RefsInv
    <3>. QED
      BY <1>1, <1>3, <3>1 DEF CoreInv, RefsInv, ObjType
  <2>6. ASSUME NEW u \in Tasks, NEW f \in Fds, to[u][f] # Closed
        PROVE  f2[to[u][f]].used
    <3>1. <<u, f>> # <<t, fd>> /\ to[u][f] = from[u][f] /\ to[u][f] \in Objs
      BY <2>6 DEF SameBut, TableType
    <3>2. CASE to[u][f] # o
      BY <1>3, <2>6, <3>1, <3>2 DEF CoreInv, RefsInv
    <3>3. CASE to[u][f] = o
      <4>1. <<u, f>> \in Refs(to, o)
        BY <3>3, Zenon DEF Refs
      <4>2. Cardinality(Refs(to, o)) # 0
        BY <4>1, RefsFinite, FS_EmptySet, Zenon
      <4>3. fo[o].refcnt > 1
        BY <1>1, <2>1, <2>2, <4>2 DEF CoreInv, RefsInv
      <4>. QED
        BY <1>1, <1>3, <3>3, <4>3, ZenonT(60) DEF ObjType
    <3>. QED
      BY <3>2, <3>3, Zenon
  <2>. QED
    BY <2>3, <2>4, <2>5, <2>6, Zenon DEF RefsInv
<1>7. PipesInv(f2, p2)
  <2>1. /\ \A q \in Pipes : q # p => p2[q] = pi[q]
        /\ p2[p] = Dropped(pi[p], fo[o].kind)
        /\ pi[p] \in PipeType
    BY <1>4, Zenon
  <2>. DEFINE d == Dropped(pi[p], fo[o].kind)
  <2>2. /\ d.readers = IF fo[o].kind = "PIPE_R" THEN fo[o].refcnt - 1 ELSE pi[p].readers
        /\ d.writers = IF fo[o].kind = "PIPE_W" THEN fo[o].refcnt - 1 ELSE pi[p].writers
        /\ d.used => d.readers > 0 \/ d.writers > 0
        /\ d.readers > 0 \/ d.writers > 0 => d.used
        /\ ~ d.used => d = FreePipe
    <3>1. /\ d.readers = IF fo[o].kind = "PIPE_R" THEN Dec(pi[p].readers) ELSE pi[p].readers
          /\ d.writers = IF fo[o].kind = "PIPE_W" THEN Dec(pi[p].writers) ELSE pi[p].writers
          /\ d.used => d.readers > 0 \/ d.writers > 0
          /\ d.readers > 0 \/ d.writers > 0 => d.used
          /\ ~ d.used => d = FreePipe
      <4>1. pi[p] \in PipeType /\ pi[p].used /\ fo[o].kind \in {"PIPE_R", "PIPE_W"}
        BY <1>4, <2>1, Zenon
      <4>. QED
        BY ONLY <4>1, DroppedType, ZenonT(60)
    <3>. HIDE DEF d
    <3>. QED
      BY <1>1, <1>4, <3>1, Zenon DEF Dec, ObjType
  <2>. HIDE DEF d, p
  <2>3. ASSUME NEW x \in Objs, f2[x].used
        PROVE  /\ f2[x].kind = fo[x].kind /\ f2[x].pipe_id = fo[x].pipe_id /\ fo[x].used
               /\ f2[x].refcnt = IF x = o THEN fo[o].refcnt - 1 ELSE fo[x].refcnt
               /\ f2[x].refcnt > 0
    BY <1>1, <1>3, <1>6, <2>3, SMTT(60) DEF FreeObj, ObjType, RefsInv
  <2>4. ASSUME NEW x \in Objs, f2[x].used
        PROVE  /\ f2[x].kind \in {"PIPE_R", "PIPE_W"}
               /\ f2[x].pipe_id \in Pipes
               /\ p2[f2[x].pipe_id].used
               /\ f2[x].kind = "PIPE_R" => p2[f2[x].pipe_id].readers = f2[x].refcnt
               /\ f2[x].kind = "PIPE_W" => p2[f2[x].pipe_id].writers = f2[x].refcnt
    <3>1. /\ fo[x].kind \in {"PIPE_R", "PIPE_W"} /\ fo[x].pipe_id \in Pipes
          /\ pi[fo[x].pipe_id].used
          /\ fo[x].kind = "PIPE_R" => pi[fo[x].pipe_id].readers = fo[x].refcnt
          /\ fo[x].kind = "PIPE_W" => pi[fo[x].pipe_id].writers = fo[x].refcnt
          /\ fo[x].kind = fo[o].kind /\ fo[x].pipe_id = p => x = o
      BY <1>1, <2>3, <2>4, Zenon DEF CoreInv, PipesInv, IsEnd, p
    <3>2. CASE fo[x].pipe_id # p
      <4>1. /\ f2[x].kind = fo[x].kind /\ f2[x].pipe_id = fo[x].pipe_id
            /\ f2[x].refcnt = fo[x].refcnt
        BY <2>3, <2>4, <3>2, Zenon DEF p
      <4>2. p2[fo[x].pipe_id] = pi[fo[x].pipe_id]
        BY <2>1, <3>1, <3>2, Zenon
      <4>. QED
        BY <3>1, <4>1, <4>2, Zenon
    <3>3. CASE fo[x].pipe_id = p
      <4>1. p2[f2[x].pipe_id] = d /\ f2[x].kind = fo[x].kind /\ f2[x].pipe_id = p
        BY <2>1, <2>3, <2>4, <3>3, Zenon DEF d
      <4>2. CASE x = o
        <5>1. f2[x].refcnt = fo[o].refcnt - 1 /\ f2[x].refcnt > 0
          BY <2>3, <2>4, <4>2, Zenon
        <5>. QED
          BY <1>4, <2>2, <3>1, <3>3, <4>1, <4>2, <5>1, ZenonT(60)
      <4>3. CASE x # o
        <5>1. fo[x].kind # fo[o].kind
          BY <3>1, <3>3, <4>3, Zenon
        <5>2. f2[x].refcnt = fo[x].refcnt /\ f2[x].refcnt > 0
          BY <2>3, <2>4, <4>3, Zenon
        <5>3. CASE fo[x].kind = "PIPE_R"
          <6>1. d.readers = pi[p].readers
            BY <2>2, <5>1, <5>3, Zenon
          <6>2. d.readers = f2[x].refcnt
            BY <3>1, <3>3, <5>2, <5>3, <6>1, Zenon
          <6>3. d.used
            BY <2>2, <5>2, <6>2, Zenon
          <6>. QED
            BY <3>1, <3>3, <4>1, <5>3, <6>2, <6>3, ZenonT(60)
        <5>4. CASE fo[x].kind = "PIPE_W"
          <6>1. d.writers = pi[p].writers
            BY <2>2, <5>1, <5>4, Zenon
          <6>2. d.writers = f2[x].refcnt
            BY <3>1, <3>3, <5>2, <5>4, <6>1, Zenon
          <6>3. d.used
            BY <2>2, <5>2, <6>2, Zenon
          <6>. QED
            BY <3>1, <3>3, <4>1, <5>4, <6>2, <6>3, ZenonT(60)
        <5>. QED
          BY <3>1, <5>3, <5>4, Zenon
      <4>. QED
        BY <4>2, <4>3, Zenon
    <3>. QED
      BY <3>2, <3>3, Zenon
  <2>5. ASSUME NEW x \in Objs, NEW y \in Objs, f2[x].used,
               IsEnd(f2, y, f2[x].kind, f2[x].pipe_id)
        PROVE  x = y
    BY <2>3, <2>5, SMTT(60) DEF CoreInv, PipesInv, IsEnd
  <2>6. ASSUME NEW q \in Pipes
        PROVE  /\ p2[q].readers > 0 => \E x \in Objs : IsEnd(f2, x, "PIPE_R", q)
               /\ p2[q].writers > 0 => \E x \in Objs : IsEnd(f2, x, "PIPE_W", q)
               /\ p2[q].used => p2[q].readers > 0 \/ p2[q].writers > 0
               /\ ~ p2[q].used => p2[q] = FreePipe
    <3>1. /\ pi[q].readers > 0 => \E x \in Objs : IsEnd(fo, x, "PIPE_R", q)
          /\ pi[q].writers > 0 => \E x \in Objs : IsEnd(fo, x, "PIPE_W", q)
          /\ pi[q].used => pi[q].readers > 0 \/ pi[q].writers > 0
          /\ ~ pi[q].used => pi[q] = FreePipe
      BY ZenonT(60) DEF CoreInv, PipesInv
    <3>2. ASSUME NEW x \in Objs, NEW kind, IsEnd(fo, x, kind, q),
                 x # o \/ fo[o].refcnt > 1
          PROVE  IsEnd(f2, x, kind, q)
      BY <1>1, <1>3, <3>2, SMTT(60) DEF IsEnd, ObjType
    <3>3. CASE q # p
      <4>1. \A x \in Objs, kind \in {"PIPE_R", "PIPE_W"} :
              IsEnd(fo, x, kind, q) => IsEnd(f2, x, kind, q)
        BY <3>2, <3>3, Zenon DEF IsEnd, p
      <4>. QED
        BY <2>1, <3>1, <3>3, <4>1, Zenon
    <3>4. CASE q = p
      <4>1. IsEnd(fo, o, fo[o].kind, q)
        BY <1>1, <3>4, Zenon DEF IsEnd, p
      <4>2. p2[q] = d
        BY <2>1, <3>4, Zenon DEF d
      <4>3. p2[q].readers > 0 => \E x \in Objs : IsEnd(f2, x, "PIPE_R", q)
        <5>1. CASE fo[o].kind = "PIPE_R"
          BY <1>1, <2>2, <3>2, <4>1, <4>2, <5>1, SMTT(60) DEF ObjType
        <5>2. CASE fo[o].kind = "PIPE_W"
          <6>1. \A x \in Objs : IsEnd(fo, x, "PIPE_R", q) => x # o
            BY <5>2, Zenon DEF IsEnd
          <6>. QED
            BY <2>2, <3>1, <3>2, <3>4, <4>2, <5>2, <6>1, Zenon
        <5>. QED
          BY <1>4, <5>1, <5>2, Zenon
      <4>4. p2[q].writers > 0 => \E x \in Objs : IsEnd(f2, x, "PIPE_W", q)
        <5>1. CASE fo[o].kind = "PIPE_W"
          BY <1>1, <2>2, <3>2, <4>1, <4>2, <5>1, SMTT(60) DEF ObjType
        <5>2. CASE fo[o].kind = "PIPE_R"
          <6>1. \A x \in Objs : IsEnd(fo, x, "PIPE_W", q) => x # o
            BY <5>2, Zenon DEF IsEnd
          <6>. QED
            BY <2>2, <3>1, <3>2, <3>4, <4>2, <5>2, <6>1, Zenon
        <5>. QED
          BY <1>4, <5>1, <5>2, Zenon
      <4>. QED
        BY <2>2, <4>2, <4>3, <4>4, Zenon
    <3>. QED
      BY <3>3, <3>4, Zenon
  <2>. QED
    BY <2>4, <2>5, <2>6, Zenon DEF PipesInv
<1>. QED
  BY <1>2, <1>3, <1>5, <1>6, <1>7, Zenon DEF CoreInv, f2, p2

\* Opening a closed descriptor on an object in use (fdobj_retain and
\* task_install_fdobj) keeps the core invariant.
LEMMA RetainCore ==
  ASSUME NEW from \in TableType, NEW to \in TableType,
         NEW fo \in [Objs -> ObjType], NEW pi \in [Pipes -> PipeType],
         NEW lk \in [Objs -> Nat], NEW t \in Tasks, NEW fd \in Fds,
         CoreInv(from, fo, pi, lk), from[t][fd] = Closed,
         SameBut(from, to, t, fd), to[t][fd] \in Objs, fo[to[t][fd]].used
  PROVE  LET o == to[t][fd] IN
         /\ RetainObj(fo, o) \in [Objs -> ObjType]
         /\ RetainPipe(fo, pi, o) \in [Pipes -> PipeType]
         /\ CoreInv(to, RetainObj(fo, o), RetainPipe(fo, pi, o), lk)
<1>. DEFINE o  == to[t][fd]
            f2 == RetainObj(fo, o)
            p  == fo[o].pipe_id
            p2 == RetainPipe(fo, pi, o)
<1>1. /\ f2 \in [Objs -> ObjType]
      /\ \A x \in Objs : x # o => f2[x] = fo[x]
      /\ f2[o].refcnt = fo[o].refcnt + 1
      /\ f2[o].kind = fo[o].kind /\ f2[o].pipe_id = fo[o].pipe_id /\ f2[o].used
  BY SMTT(60) DEF RetainObj, ObjType
<1>2. /\ p \in Pipes /\ pi[p].used
      /\ fo[o].kind = "PIPE_R" \/ fo[o].kind = "PIPE_W"
      /\ fo[o].kind = "PIPE_R" => pi[p].readers = fo[o].refcnt
      /\ fo[o].kind = "PIPE_W" => pi[p].writers = fo[o].refcnt
  BY Zenon DEF CoreInv, PipesInv
<1>3. /\ p2 \in [Pipes -> PipeType]
      /\ \A q \in Pipes : q # p => p2[q] = pi[q]
      /\ p2[p].used
      /\ p2[p].readers = IF fo[o].kind = "PIPE_R" THEN fo[o].refcnt + 1 ELSE pi[p].readers
      /\ p2[p].writers = IF fo[o].kind = "PIPE_W" THEN fo[o].refcnt + 1 ELSE pi[p].writers
  <2>1. CASE fo[o].kind = "PIPE_R"
    <3>1. p2 = [pi EXCEPT ![p].readers = @ + 1]
      BY <1>2, <2>1, Zenon DEF RetainPipe, AcquireEndpoint
    <3>. HIDE DEF p2, p
    <3>. QED
      BY <1>2, <2>1, <3>1 DEF PipeType
  <2>2. CASE fo[o].kind = "PIPE_W"
    <3>1. p2 = [pi EXCEPT ![p].writers = @ + 1]
      BY <1>2, <2>2, Zenon DEF RetainPipe, AcquireEndpoint
    <3>. HIDE DEF p2, p
    <3>. QED
      BY <1>2, <2>2, <3>1 DEF PipeType
  <2>. QED
    BY <1>2, <2>1, <2>2, Zenon
<1>4. o # Closed /\ o \in Objs /\ fo[o].used /\ fo[o].refcnt \in Nat /\ fo[o].refcnt > 0
  BY ConstantsAssumption, SMTT(60) DEF Objs, Closed, ObjType, CoreInv, RefsInv
<1>. HIDE DEF f2, p2
<1>5. RefsInv(to, f2, lk)
  <2>1. \A x \in Objs : Cardinality(Refs(to, x)) =
          IF x = o THEN Cardinality(Refs(from, x)) + 1 ELSE Cardinality(Refs(from, x))
    BY RefsOpen
  <2>2. \A x \in Objs : Cardinality(Refs(to, x)) \in Nat /\ Cardinality(Refs(from, x)) \in Nat
    BY RefsFinite, Zenon
  <2>3. \A x \in Objs : f2[x].used => f2[x].refcnt = Cardinality(Refs(to, x)) + lk[x]
    BY <1>1, <1>4, <2>1, <2>2, SMTT(60) DEF CoreInv, RefsInv, ObjType
  <2>4. \A x \in Objs : f2[x].used => f2[x].refcnt > 0
    BY <1>1, <1>4, SMTT(60) DEF CoreInv, RefsInv
  <2>5. \A x \in Objs : ~ f2[x].used => f2[x] = FreeObj /\ lk[x] = 0
    BY <1>1, Zenon DEF CoreInv, RefsInv
  <2>6. ASSUME NEW u \in Tasks, NEW f \in Fds, to[u][f] # Closed
        PROVE  f2[to[u][f]].used
    <3>1. to[u][f] \in Objs
      BY <2>6 DEF TableType
    <3>2. CASE to[u][f] = o
      BY <1>1, <3>2, Zenon
    <3>3. CASE to[u][f] # o
      <4>1. to[u][f] = from[u][f]
        BY <3>3, Zenon DEF SameBut
      <4>. QED
        BY <1>1, <2>6, <3>1, <3>3, <4>1, SMTT(60) DEF CoreInv, RefsInv
    <3>. QED
      BY <3>2, <3>3, Zenon
  <2>. QED
    BY <2>3, <2>4, <2>5, <2>6, Zenon DEF RefsInv
<1>6. PipesInv(f2, p2)
  <2>1. ASSUME NEW x \in Objs
        PROVE  /\ f2[x].used <=> fo[x].used
               /\ fo[x].used => f2[x].kind = fo[x].kind /\ f2[x].pipe_id = fo[x].pipe_id
               /\ f2[x].refcnt = IF x = o THEN fo[o].refcnt + 1 ELSE fo[x].refcnt
    BY <1>1, <1>4, Zenon
  <2>2. \A x \in Objs : \A kind, q : IsEnd(f2, x, kind, q) <=> IsEnd(fo, x, kind, q)
    BY <2>1, Zenon DEF IsEnd
  <2>3. ASSUME NEW x \in Objs, f2[x].used
        PROVE  /\ f2[x].kind \in {"PIPE_R", "PIPE_W"}
               /\ f2[x].pipe_id \in Pipes
               /\ p2[f2[x].pipe_id].used
               /\ f2[x].kind = "PIPE_R" => p2[f2[x].pipe_id].readers = f2[x].refcnt
               /\ f2[x].kind = "PIPE_W" => p2[f2[x].pipe_id].writers = f2[x].refcnt
    <3>1. /\ fo[x].used
          /\ fo[x].kind \in {"PIPE_R", "PIPE_W"} /\ fo[x].pipe_id \in Pipes
          /\ pi[fo[x].pipe_id].used
          /\ fo[x].kind = "PIPE_R" => pi[fo[x].pipe_id].readers = fo[x].refcnt
          /\ fo[x].kind = "PIPE_W" => pi[fo[x].pipe_id].writers = fo[x].refcnt
          /\ fo[x].kind = fo[o].kind /\ fo[x].pipe_id = p => x = o
      BY <1>4, <2>1, <2>3, Zenon DEF CoreInv, PipesInv, IsEnd
    <3>2. CASE fo[x].pipe_id # p
      <4>1. p2[fo[x].pipe_id] = pi[fo[x].pipe_id] /\ x # o
        BY <1>3, <3>1, <3>2, Zenon
      <4>. QED
        BY <2>1, <3>1, <4>1, ZenonT(60)
    <3>3. CASE fo[x].pipe_id = p
      <4>1. CASE x = o
        BY <1>1, <1>2, <1>3, <4>1, Zenon
      <4>2. CASE x # o
        <5>1. p2[fo[x].pipe_id] = p2[p] /\ pi[fo[x].pipe_id] = pi[p]
          BY <3>3, Zenon
        <5>2. fo[x].kind # fo[o].kind /\ f2[x] = fo[x]
          BY <1>1, <3>1, <3>3, <4>2, Zenon
        <5>. HIDE DEF p
        <5>. QED
          BY <1>2, <1>3, <3>1, <5>1, <5>2, SMTT(60)
      <4>. QED
        BY <4>1, <4>2, Zenon
    <3>. QED
      BY <3>2, <3>3, Zenon
  <2>4. ASSUME NEW x \in Objs, NEW y \in Objs, f2[x].used,
               IsEnd(f2, y, f2[x].kind, f2[x].pipe_id)
        PROVE  x = y
    BY <2>1, <2>2, <2>4, SMTT(60) DEF CoreInv, PipesInv
  <2>5. ASSUME NEW q \in Pipes
        PROVE  /\ p2[q].readers > 0 => \E x \in Objs : IsEnd(f2, x, "PIPE_R", q)
               /\ p2[q].writers > 0 => \E x \in Objs : IsEnd(f2, x, "PIPE_W", q)
               /\ p2[q].used => p2[q].readers > 0 \/ p2[q].writers > 0
               /\ ~ p2[q].used => p2[q] = FreePipe
    <3>1. /\ pi[q].readers > 0 => \E x \in Objs : IsEnd(fo, x, "PIPE_R", q)
          /\ pi[q].writers > 0 => \E x \in Objs : IsEnd(fo, x, "PIPE_W", q)
          /\ pi[q].used => pi[q].readers > 0 \/ pi[q].writers > 0
          /\ ~ pi[q].used => pi[q] = FreePipe
      BY Zenon DEF CoreInv, PipesInv
    <3>2. CASE q # p
      BY <1>3, <2>2, <3>1, <3>2, Zenon
    <3>3. CASE q = p
      <4>1. IsEnd(fo, o, fo[o].kind, p)
        BY <1>4, Zenon DEF IsEnd
      <4>2. IsEnd(f2, o, fo[o].kind, q)
        BY <2>2, <3>3, <4>1, Zenon
      <4>. HIDE DEF p
      <4>3. p2[q].readers > 0 => \E x \in Objs : IsEnd(f2, x, "PIPE_R", q)
        BY <1>2, <1>3, <1>4, <2>2, <3>1, <3>3, <4>2, Zenon
      <4>4. p2[q].writers > 0 => \E x \in Objs : IsEnd(f2, x, "PIPE_W", q)
        BY <1>2, <1>3, <1>4, <2>2, <3>1, <3>3, <4>2, Zenon
      <4>5. p2[q].used /\ (p2[q].readers > 0 \/ p2[q].writers > 0)
        BY <1>2, <1>3, <1>4, <3>3, SMTT(60)
      <4>. QED
        BY <4>3, <4>4, <4>5, Zenon
    <3>. QED
      BY <3>2, <3>3, Zenon
  <2>. QED
    BY <2>3, <2>4, <2>5, Zenon DEF PipesInv
<1>. QED
  BY <1>1, <1>3, <1>5, <1>6, Zenon DEF CoreInv, f2, p2

-----------------------------------------------------------------------------
(* nm_fd_pipe and proc_waitpid *)

\* Table `to', objects f2 and pipes p2 are `from', fo and pi with a new pipe p:
\* fresh objects ro and wo for its ends, at the closed descriptors rd and wr of t.
OpensPipe(from, to, fo, f2, pi, p2, t, rd, wr, ro, wo, p) ==
  /\ t \in Tasks /\ rd \in Fds /\ wr \in Fds /\ rd # wr
  /\ ro \in Objs /\ wo \in Objs /\ ro # wo /\ p \in Pipes
  /\ from[t][rd] = Closed /\ from[t][wr] = Closed
  /\ ~ fo[ro].used /\ ~ fo[wo].used /\ ~ pi[p].used
  /\ to[t][rd] = ro /\ to[t][wr] = wo
  /\ \A u \in Tasks, f \in Fds :
       <<u, f>> # <<t, rd>> /\ <<u, f>> # <<t, wr>> => to[u][f] = from[u][f]
  /\ f2 = [fo EXCEPT ![ro] = Endpoint("PIPE_R", p), ![wo] = Endpoint("PIPE_W", p)]
  /\ p2 = [pi EXCEPT ![p] = NewPipe]

\* nm_fd_pipe keeps the core invariant.
LEMMA NewPipeCore ==
  ASSUME NEW from \in TableType, NEW to \in TableType,
         NEW fo \in [Objs -> ObjType], NEW pi \in [Pipes -> PipeType],
         NEW lk \in [Objs -> Nat], CoreInv(from, fo, pi, lk),
         NEW f2, NEW p2, NEW t, NEW rd, NEW wr, NEW ro, NEW wo, NEW p,
         OpensPipe(from, to, fo, f2, pi, p2, t, rd, wr, ro, wo, p)
  PROVE  f2 \in [Objs -> ObjType] /\ p2 \in [Pipes -> PipeType] /\ CoreInv(to, f2, p2, lk)
<1>. USE DEF OpensPipe
<1>1. /\ f2 \in [Objs -> ObjType]
      /\ f2[ro] = Endpoint("PIPE_R", p) /\ f2[wo] = Endpoint("PIPE_W", p)
      /\ \A x \in Objs \ {ro, wo} : f2[x] = fo[x]
  BY Zenon DEF ObjType, Endpoint
<1>2. /\ p2 \in [Pipes -> PipeType] /\ p2[p] = NewPipe
      /\ \A q \in Pipes \ {p} : p2[q] = pi[q]
  BY ConstantsAssumption DEF PipeType, NewPipe
<1>3. RefsInv(to, f2, lk)
  <2>. DEFINE mid == [from EXCEPT ![t][rd] = ro]
  <2>1. /\ mid \in TableType /\ SameBut(from, mid, t, rd) /\ SameBut(mid, to, t, wr)
        /\ mid[t][rd] = ro /\ mid[t][wr] = Closed
    BY SMTT(60) DEF TableType, SameBut
  <2>. HIDE DEF mid
  <2>2. \A x \in Objs : Cardinality(Refs(mid, x)) =
          IF x = ro THEN Cardinality(Refs(from, x)) + 1 ELSE Cardinality(Refs(from, x))
    BY <2>1, RefsOpen
  <2>3. \A x \in Objs : Cardinality(Refs(to, x)) =
          IF x = wo THEN Cardinality(Refs(mid, x)) + 1 ELSE Cardinality(Refs(mid, x))
    BY <2>1, RefsOpen
  <2>4. ASSUME NEW x \in Objs, ~ fo[x].used
        PROVE  Cardinality(Refs(from, x)) = 0
    <3>1. Refs(from, x) = {}
      <4>1. x # Closed
        BY ConstantsAssumption DEF Objs, Closed
      <4>2. ASSUME NEW y \in Refs(from, x) PROVE FALSE
        <5>1. y[1] \in Tasks /\ y[2] \in Fds /\ from[y[1]][y[2]] = x
          BY Zenon DEF Refs
        <5>. QED
          BY <2>4, <4>1, <5>1, Zenon DEF CoreInv, RefsInv
      <4>. QED
        BY <4>2, Zenon
    <3>. QED
      BY <3>1, FS_EmptySet, Zenon
  <2>5. Cardinality(Refs(to, ro)) = 1 /\ Cardinality(Refs(to, wo)) = 1
    BY <2>2, <2>3, <2>4
  <2>6. \A x \in Objs \ {ro, wo} : Cardinality(Refs(to, x)) = Cardinality(Refs(from, x))
    BY <2>2, <2>3, Zenon
  <2>7. lk[ro] = 0 /\ lk[wo] = 0
    BY Zenon DEF CoreInv, RefsInv
  <2>8. \A x \in Objs : f2[x].used =>
          f2[x].refcnt = Cardinality(Refs(to, x)) + lk[x] /\ f2[x].refcnt > 0
    BY <1>1, <2>5, <2>6, <2>7, SMTT(60) DEF CoreInv, RefsInv, Endpoint
  <2>9. \A x \in Objs : ~ f2[x].used => f2[x] = FreeObj /\ lk[x] = 0
    BY <1>1, ZenonT(60) DEF CoreInv, RefsInv, Endpoint
  <2>10. ASSUME NEW u \in Tasks, NEW f \in Fds, to[u][f] # Closed
         PROVE  f2[to[u][f]].used
    <3>1. CASE to[u][f] \in {ro, wo}
      BY <1>1, <3>1, Zenon DEF Endpoint
    <3>2. CASE to[u][f] \notin {ro, wo}
      <4>1. to[u][f] = from[u][f] /\ to[u][f] \in Objs
        BY <2>10, <3>2, SMTT(60) DEF TableType
      <4>. QED
        BY <1>1, <2>10, <3>2, <4>1, Zenon DEF CoreInv, RefsInv
    <3>. QED
      BY <3>1, <3>2, Zenon
  <2>. QED
    BY <2>8, <2>9, <2>10, Zenon DEF RefsInv
<1>4. PipesInv(f2, p2)
  <2>1. /\ f2[ro].used /\ f2[ro].kind = "PIPE_R" /\ f2[ro].pipe_id = p /\ f2[ro].refcnt = 1
        /\ f2[wo].used /\ f2[wo].kind = "PIPE_W" /\ f2[wo].pipe_id = p /\ f2[wo].refcnt = 1
        /\ p2[p].used /\ p2[p].readers = 1 /\ p2[p].writers = 1
    BY <1>1, <1>2, Zenon DEF Endpoint, NewPipe
  <2>2. ASSUME NEW x \in Objs \ {ro, wo}, f2[x].used
        PROVE  /\ f2[x] = fo[x] /\ fo[x].used
               /\ fo[x].kind \in {"PIPE_R", "PIPE_W"} /\ fo[x].pipe_id \in Pipes \ {p}
               /\ p2[fo[x].pipe_id] = pi[fo[x].pipe_id]
               /\ pi[fo[x].pipe_id].used
               /\ fo[x].kind = "PIPE_R" => pi[fo[x].pipe_id].readers = fo[x].refcnt
               /\ fo[x].kind = "PIPE_W" => pi[fo[x].pipe_id].writers = fo[x].refcnt
    <3>1. /\ f2[x] = fo[x] /\ fo[x].used
      BY <1>1, <2>2, Zenon
    <3>2. /\ fo[x].kind \in {"PIPE_R", "PIPE_W"} /\ fo[x].pipe_id \in Pipes
          /\ pi[fo[x].pipe_id].used
          /\ fo[x].kind = "PIPE_R" => pi[fo[x].pipe_id].readers = fo[x].refcnt
          /\ fo[x].kind = "PIPE_W" => pi[fo[x].pipe_id].writers = fo[x].refcnt
      BY <3>1, Zenon DEF CoreInv, PipesInv
    <3>. QED
      BY <1>2, <3>1, <3>2, Zenon
  <2>3. ASSUME NEW x \in Objs, f2[x].used
        PROVE  /\ f2[x].kind \in {"PIPE_R", "PIPE_W"}
               /\ f2[x].pipe_id \in Pipes
               /\ p2[f2[x].pipe_id].used
               /\ f2[x].kind = "PIPE_R" => p2[f2[x].pipe_id].readers = f2[x].refcnt
               /\ f2[x].kind = "PIPE_W" => p2[f2[x].pipe_id].writers = f2[x].refcnt
    <3>1. CASE x \in {ro, wo}
      BY <2>1, <3>1, ZenonT(60)
    <3>2. CASE x \notin {ro, wo}
      BY <2>2, <2>3, <3>2, SMTT(60)
    <3>. QED
      BY <3>1, <3>2, Zenon
  <2>4. ASSUME NEW x \in Objs, NEW y \in Objs, f2[x].used,
               IsEnd(f2, y, f2[x].kind, f2[x].pipe_id)
        PROVE  x = y
    <3>1. f2[y].used /\ f2[y].kind = f2[x].kind /\ f2[y].pipe_id = f2[x].pipe_id
      BY <2>4, Zenon DEF IsEnd
    <3>2. CASE x \in {ro, wo} \/ y \in {ro, wo}
      BY <2>1, <2>2, <2>4, <3>1, <3>2, SMTT(60)
    <3>3. CASE x \notin {ro, wo} /\ y \notin {ro, wo}
      BY <2>2, <2>4, <3>1, <3>3, SMTT(60) DEF CoreInv, PipesInv, IsEnd
    <3>. QED
      BY <3>2, <3>3, Zenon
  <2>5. ASSUME NEW q \in Pipes
        PROVE  /\ p2[q].readers > 0 => \E x \in Objs : IsEnd(f2, x, "PIPE_R", q)
               /\ p2[q].writers > 0 => \E x \in Objs : IsEnd(f2, x, "PIPE_W", q)
               /\ p2[q].used => p2[q].readers > 0 \/ p2[q].writers > 0
               /\ ~ p2[q].used => p2[q] = FreePipe
    <3>1. CASE q = p
      BY <2>1, <3>1, SMTT(60) DEF IsEnd
    <3>2. CASE q # p
      <4>1. p2[q] = pi[q]
        BY <1>2, <3>2, Zenon
      <4>2. \A x \in Objs : \A kind : IsEnd(fo, x, kind, q) => IsEnd(f2, x, kind, q)
        BY <1>1, Zenon DEF IsEnd
      <4>. QED
        BY <4>1, <4>2, Zenon DEF CoreInv, PipesInv
    <3>. QED
      BY <3>1, <3>2, Zenon
  <2>. QED
    BY <2>3, <2>4, <2>5, Zenon DEF PipesInv
<1>. QED
  BY <1>1, <1>2, <1>3, <1>4, Zenon DEF CoreInv

\* A slot given back with open descriptors: what they held moves from the
\* table to the leaked references.
LEMMA ReapCore ==
  ASSUME NEW from \in TableType, NEW to \in TableType,
         NEW fo \in [Objs -> ObjType], NEW pi \in [Pipes -> PipeType],
         NEW lk \in [Objs -> Nat], NEW c \in Tasks,
         CoreInv(from, fo, pi, lk),
         \A fd \in Fds : to[c][fd] = Closed /\ from[c][fd] = Entry(c, fd),
         \A u \in Tasks, fd \in Fds : u # c => to[u][fd] = from[u][fd],
         NEW l2, l2 = [o \in Objs |-> lk[o] + Cardinality(HeldBy(c, o))]
  PROVE  l2 \in [Objs -> Nat] /\ CoreInv(to, fo, pi, l2)
<1>1. ASSUME NEW o \in Objs
      PROVE  /\ Cardinality(HeldBy(c, o)) \in Nat
             /\ Cardinality(Refs(from, o)) = Cardinality(Refs(to, o)) + Cardinality(HeldBy(c, o))
  <2>1. o # Closed
    BY ConstantsAssumption, SMTT(60) DEF Objs, Closed
  <2>2. \A x \in Tasks \X Fds : x \in Refs(from, o) <=> x \in Refs(to, o) \cup HeldBy(c, o)
    <3>1. SUFFICES ASSUME NEW u \in Tasks, NEW f \in Fds
                   PROVE  from[u][f] = o <=> to[u][f] = o \/ (u = c /\ Entry(c, f) = o)
      BY SMTT(60) DEF Refs, HeldBy
    <3>. QED
      BY <2>1
  <2>3. Refs(from, o) = Refs(to, o) \cup HeldBy(c, o)
    BY <2>2, ZenonT(60) DEF Refs, HeldBy
  <2>4. Refs(to, o) \cap HeldBy(c, o) = {}
    BY <2>1, Zenon DEF Refs, HeldBy
  <2>5. IsFiniteSet(Refs(from, o)) /\ IsFiniteSet(Refs(to, o))
    BY RefsFinite, Zenon
  <2>6. IsFiniteSet(HeldBy(c, o))
    BY <2>3, <2>5, FS_Subset, Zenon
  <2>7. Cardinality(Refs(to, o) \cup HeldBy(c, o)) =
          Cardinality(Refs(to, o)) + Cardinality(HeldBy(c, o))
            - Cardinality(Refs(to, o) \cap HeldBy(c, o))
    BY ONLY <2>5, <2>6, FS_Union, Zenon
  <2>8. Cardinality(Refs(to, o)) \in Nat /\ Cardinality(HeldBy(c, o)) \in Nat
    BY ONLY <2>5, <2>6, FS_CardinalityType, Zenon
  <2>9. Cardinality(Refs(to, o) \cap HeldBy(c, o)) = 0
    BY ONLY <2>4, FS_EmptySet, Zenon
  <2>. QED
    BY ONLY <2>3, <2>7, <2>8, <2>9
<1>2. l2 \in [Objs -> Nat] /\ \A o \in Objs : l2[o] = lk[o] + Cardinality(HeldBy(c, o))
  BY <1>1
<1>3. \A o \in Objs : fo[o].used => fo[o].refcnt = Cardinality(Refs(to, o)) + l2[o]
  BY <1>1, <1>2, RefsFinite, SMTT(60) DEF CoreInv, RefsInv
<1>4. ASSUME NEW o \in Objs, ~ fo[o].used
      PROVE  fo[o] = FreeObj /\ l2[o] = 0
  <2>1. HeldBy(c, o) = {}
    <3>1. o # Closed
      BY ConstantsAssumption DEF Objs, Closed
    <3>2. ASSUME NEW x \in HeldBy(c, o) PROVE FALSE
      <4>1. x[2] \in Fds /\ from[c][x[2]] = o
        BY Zenon DEF HeldBy
      <4>. QED
        BY <1>4, <3>1, <4>1, Zenon DEF CoreInv, RefsInv
    <3>. QED
      BY <3>2, Zenon
  <2>2. Cardinality(HeldBy(c, o)) = 0
    BY ONLY <2>1, FS_EmptySet, Zenon
  <2>. QED
    BY <1>2, <1>4, <2>2, SMTT(60) DEF CoreInv, RefsInv
<1>5. \A u \in Tasks, f \in Fds : to[u][f] # Closed => fo[to[u][f]].used
  BY ZenonT(60) DEF CoreInv, RefsInv
<1>6. RefsInv(to, fo, l2)
  BY <1>3, <1>4, <1>5, Zenon DEF CoreInv, RefsInv
<1>. QED
  BY <1>2, <1>6, Zenon DEF CoreInv

-----------------------------------------------------------------------------
(* IInv is an inductive invariant, and the invariants that the runs check follow from it: one lemma
   per group of actions, then the induction, then the theorems. *)

\* The table of counted entries, entry by entry.
LEMMA CountedAt ==
  ASSUME TypeOK
  PROVE  /\ Counted \in TableType
         /\ \A t \in Tasks, fd \in Fds :
              Counted[t][fd] = IF state[t] = "UNUSED" \/ Pending(t, fd) THEN Closed
                               ELSE fd_table[t][fd]
BY Zenon DEF TypeOK, Counted, TableType

\* The counted table has the type of the table it is read from.
LEMMA CountedType == fd_table \in TableType => Counted \in TableType
BY SMT DEF Counted, TableType

\* Every open descriptor of a task in the table denotes an object in use, the
\* ones a fork has not retained yet included: they are their parent's too.
LEMMA EntryLive ==
  ASSUME IInv, NEW t \in Tasks, NEW fd \in Fds, state[t] # "UNUSED",
         fd_table[t][fd] # Closed
  PROVE  fd_table[t][fd] \in Objs /\ fdobj[fd_table[t][fd]].used
         /\ Releasable(fdobj, fd_table[t][fd]) /\ ~ IsLegacy(t, fd)
<1>1. fd_table[t][fd] \in Objs
  BY DEF IInv, TypeOK
<1>2. fdobj[fd_table[t][fd]].used
  <2>1. CASE ~ Pending(t, fd)
    <3>1. Counted[t][fd] = fd_table[t][fd]
      BY <2>1, CountedAt, Zenon DEF IInv
    <3>. QED
      BY <3>1, Zenon DEF IInv, CoreInv, RefsInv
  <2>2. CASE Pending(t, fd)
    <3>. DEFINE q == parent[t]
    <3>1. /\ q \in Tasks /\ q # t /\ state[q] # "UNUSED" /\ ~ Pending(q, fd)
          /\ fd_table[q][fd] = fd_table[t][fd]
      BY <2>2, SMTT(60) DEF IInv, OpInv, Pending
    <3>2. Counted[q][fd] = fd_table[t][fd]
      BY <3>1, CountedAt, Zenon DEF IInv
    <3>. QED
      BY <3>1, <3>2, SMTT(60) DEF IInv, CoreInv, RefsInv
  <2>. QED
    BY <2>1, <2>2, Zenon
<1>. QED
  BY <1>1, <1>2, Zenon DEF IInv, CoreInv, RefsInv, Releasable, LiveObj, IsLegacy, Entry

\* task_close_fd, outside of a fork.
LEMMA CloseFdStep ==
  ASSUME IInv, TypeOK, NEW t \in Tasks, NEW fd \in Fds, state[t] # "UNUSED",
         op.kind # "fork", op'.kind # "fork", CloseFd(t, fd), UNCHANGED <<state, leaked>>
  PROVE  /\ fdobj' \in [Objs -> ObjType] /\ pipe' \in [Pipes -> PipeType]
         /\ fd_table' \in TableType /\ cloexec' \in [Tasks -> SUBSET Fds]
         /\ vfs_open' \subseteq LegacyFds
         /\ CloexecOnlyOnOpen'
         /\ CoreInv(Counted', fdobj', pipe', leaked')
<1>1. /\ fd_table' = [fd_table EXCEPT ![t][fd] = Closed] /\ fd_table' \in TableType
      /\ cloexec' = [cloexec EXCEPT ![t] = @ \ {fd}] /\ cloexec' \in [Tasks -> SUBSET Fds]
  BY Zenon DEF CloseFd, TypeOK, TableType
<1>2. vfs_open' \subseteq LegacyFds
  BY Zenon DEF CloseFd, ReleaseVfs, TypeOK
<1>3. CloexecOnlyOnOpen'
  BY <1>1, ZenonT(60) DEF IInv, CloexecOnlyOnOpen, TypeOK, Entry, TableType
<1>4. fd_table[t][fd] \in Objs /\ fd_table[t][fd] # Closed
  BY ConstantsAssumption DEF CloseFd, Releasable, LiveObj, Entry, Objs, Closed
<1>5. /\ Counted \in TableType /\ Counted' \in TableType
      /\ SameBut(Counted, Counted', t, fd)
      /\ Counted[t][fd] = fd_table[t][fd] /\ Counted'[t][fd] = Closed
  BY <1>1, SMTT(60) DEF Counted, Pending, SameBut, TableType, TypeOK
<1>6. /\ ReleaseObj(fdobj, fd_table[t][fd]) \in [Objs -> ObjType]
      /\ ReleasePipe(fdobj, pipe, fd_table[t][fd]) \in [Pipes -> PipeType]
      /\ CoreInv(Counted', ReleaseObj(fdobj, fd_table[t][fd]),
                 ReleasePipe(fdobj, pipe, fd_table[t][fd]), leaked)
  <2>1. /\ fdobj \in [Objs -> ObjType] /\ pipe \in [Pipes -> PipeType]
        /\ leaked \in [Objs -> Nat] /\ CoreInv(Counted, fdobj, pipe, leaked)
    BY Zenon DEF TypeOK, IInv
  <2>. QED
    BY <1>4, <1>5, <2>1, ReleaseCore, Zenon
<1>. QED
  BY <1>1, <1>2, <1>3, <1>6, Zenon DEF CloseFd, Entry

\* nm_fd_close.
LEMMA CloseStep ==
  ASSUME IInv, NEW t \in Tasks, NEW fd \in Fds, Close(t, fd)
  PROVE  IInv'
<1>. USE DEF IInv
<1>1. /\ op = Idle /\ op.kind # "fork" /\ state[t] # "UNUSED"
      /\ state' = state /\ parent' = parent /\ op' = op /\ leaked' = leaked
  BY Zenon DEF Close, Unlocked, Idle
<1>2. CloseFd(t, fd)
  BY <1>1, EntryLive, Zenon DEF Close, CloseAdopted, IsLegacy, Entry
<1>3. /\ fdobj' \in [Objs -> ObjType] /\ pipe' \in [Pipes -> PipeType]
      /\ fd_table' \in TableType /\ cloexec' \in [Tasks -> SUBSET Fds]
      /\ vfs_open' \subseteq LegacyFds
      /\ CloexecOnlyOnOpen'
      /\ CoreInv(Counted', fdobj', pipe', leaked')
  BY <1>1, <1>2, CloseFdStep, Zenon
<1>4. TypeOK'
  BY <1>1, <1>3, ZenonT(60) DEF TypeOK, TableType
<1>5. OpInv'
  BY <1>1, SMTT(60) DEF OpInv, Idle
<1>. QED
  BY <1>3, <1>4, <1>5, Zenon

\* The tables of fd.c have their types.
TablesTyped == fd_table \in TableType /\ fdobj \in [Objs -> ObjType] /\ pipe \in [Pipes -> PipeType]

LEMMA TypedTables == TypeOK => TablesTyped
BY Zenon DEF TypeOK, TablesTyped, TableType

\* A transfer changes what is queued in one pipe, within the buffer, and nothing else.
LEMMA TransferFacts ==
  ASSUME TablesTyped, NEW t \in Tasks, NEW fd \in Fds, NEW len \in 0 .. MaxIO,
         ReadPipe(t, fd, len) \/ WritePipe(t, fd, len)
  PROVE  /\ UNCHANGED <<state, parent, fd_table, cloexec, fdobj, vfs_open, op, leaked>>
         /\ pipe' \in [Pipes -> PipeType]
         /\ \A q \in Pipes : pipe'[q].readers = pipe[q].readers /\ pipe'[q].writers = pipe[q].writers
         /\ \A q \in Pipes : pipe'[q].used = pipe[q].used
         /\ \A q \in Pipes : ~ pipe[q].used => pipe'[q] = pipe[q]
<1>1. UNCHANGED <<state, parent, fd_table, cloexec, fdobj, vfs_open, op, leaked>>
  BY Zenon DEF ReadPipe, WritePipe
<1>2. PICK p \in Pipes, n \in 0 .. PipeBuf : pipe[p].used /\ pipe' = [pipe EXCEPT ![p].queued = n]
  <2>1. \A p \in Pipes : pipe[p].queued \in 0 .. PipeBuf
    BY Zenon DEF TablesTyped, PipeType
  <2>. DEFINE p == fdobj[Entry(t, fd)].pipe_id
  <2>2. p \in Pipes /\ pipe[p].used
    BY Zenon DEF ReadPipe, WritePipe
  <2>. HIDE DEF p
  <2>3. CASE ReadPipe(t, fd, len)
    <3>1. pipe' = [pipe EXCEPT ![p].queued = pipe[p].queued - Min2(len, pipe[p].queued)]
      BY <2>2, <2>3, Zenon DEF ReadPipe, p, TablesTyped
    <3>2. pipe[p].queued - Min2(len, pipe[p].queued) \in 0 .. PipeBuf
      BY <2>1, <2>2, ConstantsAssumption DEF Min2
    <3>. QED
      BY <2>2, <3>1, <3>2, Zenon
  <2>4. CASE WritePipe(t, fd, len)
    <3>1. pipe' = [pipe EXCEPT ![p].queued =
                     pipe[p].queued + Min2(len, PipeBuf - pipe[p].queued)]
      BY <2>2, <2>4, SMTT(60) DEF WritePipe, p, TablesTyped
    <3>2. pipe[p].queued + Min2(len, PipeBuf - pipe[p].queued) \in 0 .. PipeBuf
      BY <2>1, <2>2, ConstantsAssumption DEF Min2
    <3>. QED
      BY <2>2, <3>1, <3>2, Zenon
  <2>. QED
    BY <2>3, <2>4, Zenon
<1>3. /\ pipe' \in [Pipes -> PipeType]
      /\ \A q \in Pipes : pipe'[q].readers = pipe[q].readers /\ pipe'[q].writers = pipe[q].writers
      /\ \A q \in Pipes : pipe'[q].used = pipe[q].used
      /\ \A q \in Pipes : ~ pipe[q].used => pipe'[q] = pipe[q]
  BY <1>2, ZenonT(60) DEF TablesTyped, PipeType
<1>. QED
  BY <1>1, <1>3, Zenon

\* nm_fd_read and nm_fd_write of a pipe end change nothing but the fill.
LEMMA TransferStep ==
  ASSUME IInv, NEW t \in Tasks, NEW fd \in Fds, NEW len \in 0 .. MaxIO,
         ReadPipe(t, fd, len) \/ WritePipe(t, fd, len)
  PROVE  IInv'
<1>. USE DEF IInv
<1>1. TablesTyped
  BY TypedTables, Zenon
<1>2. /\ UNCHANGED <<state, parent, fd_table, cloexec, fdobj, vfs_open, op, leaked>>
      /\ pipe' \in [Pipes -> PipeType]
      /\ \A q \in Pipes : pipe'[q].readers = pipe[q].readers /\ pipe'[q].writers = pipe[q].writers
      /\ \A q \in Pipes : pipe'[q].used = pipe[q].used
      /\ \A q \in Pipes : ~ pipe[q].used => pipe'[q] = pipe[q]
  BY <1>1, TransferFacts, Zenon
<1>4. TypeOK' /\ OpInv' /\ CloexecOnlyOnOpen'
  BY <1>2, SMTT(60) DEF TypeOK, OpInv, CloexecOnlyOnOpen
<1>5. Counted' = Counted
  BY <1>2, Zenon DEF Counted, Pending
<1>6. PipesInv(fdobj', pipe')
  <2>1. fdobj' = fdobj /\ PipesInv(fdobj, pipe)
    BY <1>2, Zenon DEF CoreInv
  <2>2. PipesInv(fdobj, pipe')
    BY <1>2, <2>1, ZenonT(60) DEF PipesInv
  <2>. QED
    BY <2>1, <2>2, Zenon
<1>. QED
  BY <1>2, <1>4, <1>5, <1>6, Zenon DEF CoreInv

\* adopt_legacy_fs_fd is never reached: no descriptor is a raw VFS one.
LEMMA AdoptStep ==
  ASSUME IInv, NEW t \in Tasks, NEW fd \in Fds, AdoptLegacy(t, fd)
  PROVE  FALSE
<1>1. state[t] # "UNUSED" /\ IsLegacy(t, fd) /\ fd_table[t][fd] # Closed
  BY Zenon DEF AdoptLegacy, Unlocked, IsLegacy, Entry
<1>. QED
  BY <1>1, EntryLive, Zenon

\* nm_fd_set_cloexec.
LEMMA SetCloexecStep ==
  ASSUME IInv, NEW t \in Tasks, NEW fd \in Fds, NEW enabled \in BOOLEAN,
         SetCloexec(t, fd, enabled)
  PROVE  IInv'
<1>. USE DEF IInv, SetCloexec
<1>1. TypeOK'
  BY Zenon DEF TypeOK
<1>2. OpInv' /\ Counted' = Counted
  BY SMTT(60) DEF OpInv, Counted, Pending, Unlocked, Idle
<1>3. CloexecOnlyOnOpen'
  BY Zenon DEF CloexecOnlyOnOpen, TypeOK, Entry
<1>. QED
  BY <1>1, <1>2, <1>3, Zenon

\* The pipe, the descriptors and the objects that nm_fd_pipe takes were free.
LEMMA PipeFacts ==
  ASSUME NEW t \in Tasks, Pipe(t)
  PROVE  \E p \in Pipes, rd \in Fds, ro \in Objs, wr \in Fds, wo \in Objs :
              /\ ~ pipe[p].used /\ fd_table[t][rd] = Closed /\ fd_table[t][wr] = Closed /\ rd # wr
              /\ ~ fdobj[ro].used /\ ~ fdobj[wo].used /\ ro # wo
              /\ pipe' = [pipe EXCEPT ![p] = NewPipe]
              /\ fdobj' = [fdobj EXCEPT ![ro] = Endpoint("PIPE_R", p), ![wo] = Endpoint("PIPE_W", p)]
              /\ fd_table' = [fd_table EXCEPT ![t][rd] = ro, ![t][wr] = wo]
<1>1. PICK p \in First(FreePipes), rd \in First(FreeFds(t)), ro \in First(FreeObjs) :
      \E wr \in First(FreeFds(t) \ {rd}), wo \in First(FreeObjs \ {ro}) :
      /\ pipe' = [pipe EXCEPT ![p] = NewPipe]
      /\ fdobj' = [fdobj EXCEPT ![ro] = Endpoint("PIPE_R", p), ![wo] = Endpoint("PIPE_W", p)]
      /\ fd_table' = [fd_table EXCEPT ![t][rd] = ro, ![t][wr] = wo]
  BY Zenon DEF Pipe
<1>2. PICK wr \in First(FreeFds(t) \ {rd}), wo \in First(FreeObjs \ {ro}) :
      /\ pipe' = [pipe EXCEPT ![p] = NewPipe]
      /\ fdobj' = [fdobj EXCEPT ![ro] = Endpoint("PIPE_R", p), ![wo] = Endpoint("PIPE_W", p)]
      /\ fd_table' = [fd_table EXCEPT ![t][rd] = ro, ![t][wr] = wo]
  BY <1>1, Zenon
<1>3. /\ p \in Pipes /\ rd \in Fds /\ ro \in Objs /\ wr \in Fds /\ wo \in Objs
      /\ ~ pipe[p].used /\ fd_table[t][rd] = Closed /\ fd_table[t][wr] = Closed /\ rd # wr
      /\ ~ fdobj[ro].used /\ ~ fdobj[wo].used /\ ro # wo
  BY SMTT(60) DEF First, FreePipes, FreeFds, FreeObjs
<1>. QED
  BY ONLY <1>2, <1>3, Zenon

\* nm_fd_pipe that succeeds.
LEMMA PipeStep ==
  ASSUME IInv, NEW t \in Tasks, Pipe(t)
  PROVE  IInv'
<1>. USE DEF IInv
<1>1. /\ op = Idle /\ state[t] # "UNUSED"
      /\ UNCHANGED <<state, parent, cloexec, vfs_open, op, leaked>>
  BY Zenon DEF Pipe, Unlocked
<1>2. PICK p \in Pipes, rd \in Fds, ro \in Objs, wr \in Fds, wo \in Objs :
        /\ ~ pipe[p].used /\ fd_table[t][rd] = Closed /\ fd_table[t][wr] = Closed /\ rd # wr
        /\ ~ fdobj[ro].used /\ ~ fdobj[wo].used /\ ro # wo
        /\ pipe' = [pipe EXCEPT ![p] = NewPipe]
        /\ fdobj' = [fdobj EXCEPT ![ro] = Endpoint("PIPE_R", p), ![wo] = Endpoint("PIPE_W", p)]
        /\ fd_table' = [fd_table EXCEPT ![t][rd] = ro, ![t][wr] = wo]
  BY PipeFacts, Zenon
<1>3. /\ fd_table' \in TableType /\ fd_table'[t][rd] = ro /\ fd_table'[t][wr] = wo
      /\ \A u \in Tasks, f \in Fds :
           <<u, f>> # <<t, rd>> /\ <<u, f>> # <<t, wr>> => fd_table'[u][f] = fd_table[u][f]
  BY <1>2, Zenon DEF TypeOK, TableType
<1>4. \A u \in Tasks, f \in Fds : /\ ~ Pending(u, f) /\ ~ Pending(u, f)'
  BY <1>1, Zenon DEF Pending, Idle
<1>5. /\ Counted \in TableType /\ Counted' \in TableType
      /\ Counted[t][rd] = Closed /\ Counted[t][wr] = Closed
      /\ Counted'[t][rd] = ro /\ Counted'[t][wr] = wo
      /\ \A u \in Tasks, f \in Fds :
           <<u, f>> # <<t, rd>> /\ <<u, f>> # <<t, wr>> => Counted'[u][f] = Counted[u][f]
  <2>1. fd_table \in TableType
    BY Zenon DEF TypeOK, TableType
  <2>2. Counted \in TableType /\ Counted' \in TableType
    <3>1. (fd_table \in TableType)' => (Counted \in TableType)'
      BY CountedType, PTL
    <3>. QED
      BY <1>3, <2>1, <3>1, CountedType, Zenon
  <2>3. \A u \in Tasks, f \in Fds :
          /\ Counted[u][f] = IF state[u] = "UNUSED" THEN Closed ELSE fd_table[u][f]
          /\ Counted'[u][f] = IF state[u] = "UNUSED" THEN Closed ELSE fd_table'[u][f]
    BY <1>1, <1>4, Zenon DEF Counted
  <2>4. Counted[t][rd] = Closed /\ Counted[t][wr] = Closed
    BY <1>2, <2>3, Zenon
  <2>5. Counted'[t][rd] = ro /\ Counted'[t][wr] = wo
    BY <1>1, <1>3, <2>3, Zenon
  <2>6. ASSUME NEW u \in Tasks, NEW f \in Fds, <<u, f>> # <<t, rd>>, <<u, f>> # <<t, wr>>
        PROVE  Counted'[u][f] = Counted[u][f]
    <3>1. fd_table'[u][f] = fd_table[u][f]
      BY ONLY <1>3, <2>6, Zenon
    <3>. QED
      BY ONLY <2>3, <3>1, ZenonT(60)
  <2>. QED
    BY <2>2, <2>4, <2>5, <2>6, Zenon
<1>6. /\ fdobj' \in [Objs -> ObjType] /\ pipe' \in [Pipes -> PipeType]
      /\ CoreInv(Counted', fdobj', pipe', leaked)
  <2>1. /\ fdobj \in [Objs -> ObjType] /\ pipe \in [Pipes -> PipeType]
        /\ leaked \in [Objs -> Nat] /\ CoreInv(Counted, fdobj, pipe, leaked)
    BY Zenon DEF TypeOK
  <2>2. OpensPipe(Counted, Counted', fdobj, fdobj', pipe, pipe', t, rd, wr, ro, wo, p)
    BY <1>2, <1>5, SMTT(60) DEF OpensPipe
  <2>. QED
    BY ONLY <1>5, <2>1, <2>2, NewPipeCore, Zenon
<1>7. TypeOK'
  BY <1>1, <1>3, <1>6, SMTT(60) DEF TypeOK, TableType
<1>8. OpInv'
  BY <1>1, Zenon DEF OpInv, Idle
<1>9. CloexecOnlyOnOpen'
  <2>1. ro # Closed /\ wo # Closed
    BY ConstantsAssumption DEF Objs, Closed
  <2>. QED
    BY <1>1, <1>3, <2>1, SMTT(60) DEF CloexecOnlyOnOpen
<1>. QED
  BY <1>1, <1>6, <1>7, <1>8, <1>9, Zenon

\* nm_fd_pipe that fails for want of objects leaves the tables alone.
LEMMA RollbackUnchanged ==
  ASSUME TablesTyped, NEW t \in Tasks, PipeRollback(t),
         \A o \in Objs : ~ fdobj[o].used => fdobj[o] = FreeObj,
         \A p \in Pipes : ~ pipe[p].used => pipe[p] = FreePipe
  PROVE  UNCHANGED vars
<1>1. UNCHANGED <<state, parent, cloexec, vfs_open, op, leaked>>
  BY Zenon DEF PipeRollback
<1>2. PICK p \in Pipes, rd \in Fds :
        LET opened == [pipe EXCEPT ![p] = NewPipe]
            closed(pi) == [pi EXCEPT ![p] = [FreePipe EXCEPT !.queued = pi[p].queued]]
        IN
        /\ ~ pipe[p].used /\ fd_table[t][rd] = Closed
        /\ fd_table' = [fd_table EXCEPT ![t][rd] = Closed]
        /\ \/ fdobj' = fdobj /\ pipe' = closed(opened)
           \/ \E ro \in Objs :
                LET made == [fdobj EXCEPT ![ro] = Endpoint("PIPE_R", p)] IN
                /\ ~ fdobj[ro].used
                /\ fdobj' = ReleaseObj(made, ro)
                /\ pipe' = closed(ReleasePipe(made, opened, ro))
  BY Zenon DEF PipeRollback, First, FreePipes, FreeFds, FreeObjs
<1>3. fd_table' = fd_table
  BY <1>2, Zenon DEF TablesTyped, TableType
<1>4. pipe[p] = FreePipe
  BY <1>2, Zenon
<1>. DEFINE opened == [pipe EXCEPT ![p] = NewPipe]
            closed(pi) == [pi EXCEPT ![p] = [FreePipe EXCEPT !.queued = pi[p].queued]]
<1>5. CASE fdobj' = fdobj /\ pipe' = closed(opened)
  BY <1>1, <1>3, <1>4, <1>5, ZenonT(60) DEF TablesTyped, TableType, NewPipe, FreePipe, PipeType, vars
<1>6. ASSUME NEW ro \in Objs, ~ fdobj[ro].used,
             fdobj' = ReleaseObj([fdobj EXCEPT ![ro] = Endpoint("PIPE_R", p)], ro),
             pipe' = closed(ReleasePipe([fdobj EXCEPT ![ro] = Endpoint("PIPE_R", p)], opened, ro))
      PROVE  UNCHANGED vars
  <2>. DEFINE made == [fdobj EXCEPT ![ro] = Endpoint("PIPE_R", p)]
  <2>1. /\ made[ro].refcnt = 1 /\ made[ro].kind = "PIPE_R" /\ made[ro].pipe_id = p
        /\ [made EXCEPT ![ro] = FreeObj] = fdobj
    BY <1>6, Zenon DEF TablesTyped, TableType, Endpoint
  <2>2. fdobj' = fdobj
    BY <1>6, <2>1 DEF ReleaseObj
  <2>3. ReleasePipe(made, opened, ro) = [opened EXCEPT ![p] = Dropped(NewPipe, "PIPE_R")]
    BY <2>1, ZenonT(60) DEF ReleasePipe, ReleaseEndpoint, NewPipe, TablesTyped
  <2>4. Dropped(NewPipe, "PIPE_R") = [used |-> TRUE, readers |-> 0, writers |-> 1, queued |-> 0]
    <3>1. NewPipe.readers = 1 /\ NewPipe.writers = 1 /\ "PIPE_R" # "PIPE_W"
      BY Zenon DEF NewPipe
    <3>2. Dropped(NewPipe, "PIPE_R") = [NewPipe EXCEPT !.readers = 0, !.writers = 1]
      BY ONLY <3>1 DEF Dropped, Dec
    <3>. QED
      BY ONLY <3>2, Zenon DEF NewPipe
  <2>5. closed(ReleasePipe(made, opened, ro)) = pipe
    <3>. DEFINE half == [opened EXCEPT ![p] = Dropped(NewPipe, "PIPE_R")]
    <3>1. /\ half = [q \in Pipes |-> half[q]]
          /\ half[p] = [used |-> TRUE, readers |-> 0, writers |-> 1, queued |-> 0]
          /\ \A q \in Pipes : q # p => half[q] = pipe[q]
      BY <2>4, Zenon DEF TablesTyped, TableType
    <3>. HIDE DEF half
    <3>2. \A q \in Pipes : closed(half)[q] = pipe[q]
      BY <1>4, <3>1 DEF FreePipe
    <3>3. closed(half) = pipe
      BY <3>1, <3>2, Zenon DEF TablesTyped, TableType
    <3>. QED
      BY <2>3, <3>3, Zenon DEF half
  <2>. QED
    BY <1>1, <1>3, <1>6, <2>2, <2>5, Zenon DEF vars
<1>. QED
  BY <1>2, <1>5, <1>6, Zenon

\* nm_fd_dup2 closes newfd and opens it on the object of oldfd.
LEMMA Dup2Step ==
  ASSUME IInv, NEW t \in Tasks, NEW oldfd \in Fds, NEW newfd \in Fds, Dup2(t, oldfd, newfd)
  PROVE  IInv'
<1>. USE DEF IInv
<1>. DEFINE old == fd_table[t][oldfd]
            new == fd_table[t][newfd]
            mid == [Counted EXCEPT ![t][newfd] = Closed]
            fo1 == IF new = Closed THEN fdobj ELSE ReleaseObj(fdobj, new)
            pi1 == IF new = Closed THEN pipe ELSE ReleasePipe(fdobj, pipe, new)
<1>1. /\ op = Idle /\ state[t] # "UNUSED" /\ oldfd # newfd /\ old # Closed /\ old \in Objs
      /\ UNCHANGED <<state, parent, op, leaked>>
  BY SMTT(60) DEF Dup2, Unlocked, Entry, TypeOK
<1>2. vfs_open' \subseteq LegacyFds
  BY Zenon DEF Dup2, ReleaseVfs, TypeOK
<1>3. \A u \in Tasks, f \in Fds : ~ Pending(u, f) /\ ~ Pending(u, f)'
  BY <1>1, Zenon DEF Pending, Idle
<1>4. /\ Counted \in TableType /\ mid \in TableType
      /\ Counted[t][newfd] = new /\ Counted[t][oldfd] = old
      /\ mid[t][newfd] = Closed /\ mid[t][oldfd] = old
      /\ SameBut(Counted, mid, t, newfd)
  BY <1>1, <1>3, CountedAt, Zenon DEF SameBut, TableType
<1>. HIDE DEF mid
<1>5. /\ fo1 \in [Objs -> ObjType] /\ pi1 \in [Pipes -> PipeType]
      /\ CoreInv(mid, fo1, pi1, leaked)
  <2>1. /\ fdobj \in [Objs -> ObjType] /\ pipe \in [Pipes -> PipeType]
        /\ leaked \in [Objs -> Nat] /\ CoreInv(Counted, fdobj, pipe, leaked)
    BY Zenon DEF TypeOK
  <2>2. CASE new = Closed
    <3>1. mid = Counted
      BY <1>4, <2>2, ZenonT(60) DEF mid, TableType
    <3>. QED
      BY <2>1, <2>2, <3>1, Zenon
  <2>3. CASE new # Closed
    <3>1. /\ ReleaseObj(fdobj, new) \in [Objs -> ObjType]
          /\ ReleasePipe(fdobj, pipe, new) \in [Pipes -> PipeType]
          /\ CoreInv(mid, ReleaseObj(fdobj, new), ReleasePipe(fdobj, pipe, new), leaked)
      BY <1>4, <2>1, <2>3, ReleaseCore, Zenon
    <3>. QED
      BY <2>3, <3>1, SMTT(60)
  <2>. QED
    BY <2>2, <2>3, Zenon
<1>6. fo1[old].used
  BY <1>1, <1>4, <1>5, Zenon DEF CoreInv, RefsInv
<1>7. /\ fdobj' = RetainObj(fo1, old) /\ pipe' = RetainPipe(fo1, pi1, old)
      /\ fd_table' = [fd_table EXCEPT ![t][newfd] = old]
      /\ cloexec' = [cloexec EXCEPT ![t] = @ \ {newfd}]
  BY <1>1, <1>6, Zenon DEF Dup2, LiveObj, Entry
<1>. HIDE DEF fo1, pi1
<1>8. /\ fd_table' \in TableType /\ fd_table'[t][newfd] = old
      /\ SameBut(fd_table, fd_table', t, newfd)
      /\ cloexec' \in [Tasks -> SUBSET Fds]
  BY <1>1, <1>7, Zenon DEF TypeOK, TableType, SameBut
<1>9. /\ Counted' \in TableType /\ Counted'[t][newfd] = old
      /\ SameBut(mid, Counted', t, newfd)
  <2>1. /\ Counted' \in TableType /\ Counted'[t][newfd] = old
        /\ SameBut(Counted, Counted', t, newfd)
    BY <1>1, <1>3, <1>8, Zenon DEF Counted, SameBut, TableType
  <2>. QED
    BY <1>4, <2>1, SMTT(60) DEF SameBut
<1>10. /\ fdobj' \in [Objs -> ObjType] /\ pipe' \in [Pipes -> PipeType]
       /\ CoreInv(Counted', fdobj', pipe', leaked)
  <2>1. leaked \in [Objs -> Nat]
    BY Zenon DEF TypeOK
  <2>. HIDE DEF old
  <2>. QED
    BY <1>1, <1>4, <1>5, <1>6, <1>7, <1>9, <2>1, RetainCore, SMTT(60)
<1>11. TypeOK'
  BY <1>1, <1>2, <1>8, <1>10, SMTT(60) DEF TypeOK, TableType
<1>12. OpInv'
  BY <1>1, Zenon DEF OpInv, Idle
<1>13. CloexecOnlyOnOpen'
  BY <1>1, <1>7, <1>8, SMTT(60) DEF CloexecOnlyOnOpen, SameBut, TypeOK
<1>. QED
  BY <1>1, <1>10, <1>11, <1>12, <1>13, Zenon

\* proc_fork_current copies the table; none of the copies is counted yet.
LEMMA ForkStep ==
  ASSUME IInv, NEW t \in Tasks, NEW c \in Tasks, Fork(t, c)
  PROVE  IInv'
<1>. USE DEF IInv
<1>1. /\ op = Idle /\ state[t] # "UNUSED" /\ state[c] = "UNUSED" /\ c # t
      /\ op' = [kind |-> "fork", task |-> c, next |-> 0]
      /\ state' = [state EXCEPT ![c] = "LIVE"] /\ parent' = [parent EXCEPT ![c] = t]
      /\ fd_table' = [fd_table EXCEPT ![c] = fd_table[t]]
      /\ cloexec' = [cloexec EXCEPT ![c] = cloexec[t]]
      /\ UNCHANGED <<fdobj, pipe, vfs_open, leaked>>
  BY Zenon DEF Fork, Unlocked, First, FreeTasks
<1>2. TypeOK'
  BY <1>1, ConstantsAssumption, SMTT(60) DEF TypeOK, OpType
<1>3. OpInv'
  BY <1>1, Zenon DEF OpInv, TypeOK
<1>4. CloexecOnlyOnOpen'
  BY <1>1, SMTT(60) DEF CloexecOnlyOnOpen, TypeOK
<1>5. \A u \in Tasks, f \in Fds : /\ ~ Pending(u, f)
                                  /\ Pending(u, f)' <=> u = c
  BY <1>1, ConstantsAssumption DEF Pending, Idle, Fds
<1>6. \A u \in Tasks, f \in Fds : Counted'[u][f] = Counted[u][f]
  BY <1>1, <1>5, SMTT(60) DEF Counted, TypeOK
<1>7. Counted' = Counted
  BY <1>6, Zenon DEF Counted
<1>. QED
  BY <1>1, <1>2, <1>3, <1>4, <1>7, ZenonT(60)

\* A turn of nm_fd_on_fork_child: one more entry of the child is counted.
LEMMA ForkRetainStep ==
  ASSUME IInv, ForkRetain
  PROVE  IInv'
<1>. USE DEF IInv
<1>1. PICK c \in Tasks, fd \in Fds :
        /\ op = [kind |-> "fork", task |-> c, next |-> fd] /\ state[c] # "UNUSED"
        /\ op' = [kind |-> "fork", task |-> c, next |-> fd + 1]
        /\ UNCHANGED <<state, parent, cloexec, vfs_open, leaked>>
  <2>1. /\ op.kind = "fork" /\ op.next \in Fds /\ op.task \in Tasks /\ state[op.task] # "UNUSED"
        /\ UNCHANGED <<state, parent, cloexec, vfs_open, leaked>>
        /\ op' = [op EXCEPT !.next = @ + 1]
    BY Zenon DEF ForkRetain, OpInv
  <2>2. op = [kind |-> op.kind, task |-> op.task, next |-> op.next]
    BY Zenon DEF TypeOK, OpType
  <2>. QED
    BY <2>1, <2>2, Zenon
<1>2. op' \in OpType
  BY <1>1, ConstantsAssumption DEF OpType, Fds
<1>. DEFINE o == fd_table[c][fd]
<1>3. fd_table' = fd_table
  <2>1. o # Closed => ~ IsLegacy(c, fd)
    BY <1>1, EntryLive, Zenon
  <2>. QED
    BY <1>1, <2>1, Zenon DEF ForkRetain, Entry, IsLegacy
<1>4. CloexecOnlyOnOpen'
  BY <1>1, <1>3, SMTT(60) DEF CloexecOnlyOnOpen
<1>5. OpInv'
  BY <1>1, <1>2, <1>3, Zenon DEF OpInv
<1>6. /\ Counted \in TableType /\ Counted' \in TableType
      /\ SameBut(Counted, Counted', c, fd)
      /\ Counted[c][fd] = Closed /\ Counted'[c][fd] = o
  <2>1. \A u \in Tasks, f \in Fds : <<u, f>> # <<c, fd>> => (Pending(u, f)' <=> Pending(u, f))
    <3>1. \A f \in Fds : f \in Int
      BY DEF Fds
    <3>. QED
      BY <1>1, <1>2, <3>1, SMTT(60) DEF Pending
  <2>2. Pending(c, fd) /\ ~ Pending(c, fd)'
    BY <1>1, <1>2 DEF Pending, Fds
  <2>. QED
    BY <1>1, <1>3, <2>1, <2>2, Zenon DEF Counted, TableType, TypeOK, SameBut, o
<1>7. CASE o = Closed
  <2>1. fdobj' = fdobj /\ pipe' = pipe
    BY <1>1, <1>7, ConstantsAssumption, SMTT(60) DEF ForkRetain, Entry, LiveObj, Objs, Closed, IsLegacy
  <2>2. \A u \in Tasks, f \in Fds : Counted'[u][f] = Counted[u][f]
    BY <1>6, <1>7, Zenon DEF SameBut
  <2>3. Counted' = Counted
    BY <2>2, Zenon DEF Counted
  <2>4. TypeOK'
    BY <1>1, <1>2, <1>3, <2>1, SMTT(60) DEF TypeOK
  <2>. QED
    BY <1>1, <1>4, <1>5, <2>1, <2>3, <2>4, SMTT(60)
<1>8. CASE o # Closed
  <2>1. o \in Objs /\ fdobj[o].used
    BY <1>1, <1>8, EntryLive, Zenon
  <2>2. fdobj' = RetainObj(fdobj, o) /\ pipe' = RetainPipe(fdobj, pipe, o)
    <3>1. ~ IsLegacy(c, fd)
      BY <1>1, <1>8, EntryLive, Zenon
    <3>. QED
      BY <1>1, <1>8, <3>1, ZenonT(60) DEF ForkRetain, Entry
  <2>3. /\ fdobj' \in [Objs -> ObjType] /\ pipe' \in [Pipes -> PipeType]
        /\ CoreInv(Counted', fdobj', pipe', leaked)
    <3>1. /\ fdobj \in [Objs -> ObjType] /\ pipe \in [Pipes -> PipeType]
          /\ leaked \in [Objs -> Nat] /\ CoreInv(Counted, fdobj, pipe, leaked)
      BY Zenon DEF TypeOK
    <3>. HIDE DEF o
    <3>. QED
      BY <1>1, <1>6, <2>1, <2>2, <3>1, RetainCore, Zenon
  <2>4. TypeOK'
    BY <1>1, <1>2, <1>3, <2>3, ZenonT(60) DEF TypeOK
  <2>. QED
    BY <1>1, <1>4, <1>5, <2>3, <2>4, ZenonT(60)
<1>. QED
  BY <1>7, <1>8, Zenon

\* Entering and leaving a loop changes only op; a finished fork left nothing
\* pending.
LEMMA LoopBoundaryStep ==
  ASSUME IInv, LoopEnd \/ \E t \in Tasks : Exec(t)
  PROVE  IInv'
<1>. USE DEF IInv
<1>1. UNCHANGED <<state, parent, fd_table, cloexec, fdobj, pipe, vfs_open, leaked>>
  BY Zenon DEF LoopEnd, Exec
<1>2. op' \in OpType /\ OpInv'
  <2>1. CASE LoopEnd
    BY <2>1, <1>1, ConstantsAssumption, SMTT(60) DEF LoopEnd, OpType, OpInv, Idle
  <2>2. CASE \E t \in Tasks : Exec(t)
    <3>1. PICK t \in Tasks : Exec(t)
      BY <2>2, Zenon
    <3>2. /\ op' = [kind |-> "exec", task |-> t, next |-> 0] /\ state'[t] # "UNUSED"
          /\ cloexec' = cloexec
      BY <3>1, Zenon DEF Exec, Unlocked
    <3>3. \A fd \in cloexec'[t] : fd >= 0
      BY <3>2 DEF TypeOK, Fds
    <3>4. 0 \in 0 .. NFds
      BY ConstantsAssumption
    <3>5. op'.kind = "exec" /\ op'.task = t /\ op'.next = 0
      BY <3>2, Zenon
    <3>6. op' \in OpType
      BY <3>2, <3>4, Zenon DEF OpType
    <3>. QED
      BY <3>2, <3>3, <3>5, <3>6, Zenon DEF OpInv
  <2>. QED
    BY <2>1, <2>2, ZenonT(60)
<1>3. \A u \in Tasks, f \in Fds : ~ Pending(u, f) /\ ~ Pending(u, f)'
  BY ConstantsAssumption DEF LoopEnd, Exec, Unlocked, Pending, Idle, Fds
<1>4. \A u \in Tasks, f \in Fds : Counted'[u][f] = Counted[u][f]
  BY <1>1, <1>3, Zenon DEF Counted
<1>5. Counted' = Counted
  BY <1>4, Zenon DEF Counted
<1>6. TypeOK' /\ CloexecOnlyOnOpen'
  BY <1>1, <1>2, Zenon DEF TypeOK, CloexecOnlyOnOpen
<1>. QED
  BY <1>1, <1>2, <1>5, <1>6, ZenonT(60)

\* A turn of nm_fd_close_on_exec.
LEMMA ExecCloseStep ==
  ASSUME IInv, ExecClose
  PROVE  IInv'
<1>. USE DEF IInv
<1>1. PICK t \in Tasks, fd \in Fds :
        /\ op = [kind |-> "exec", task |-> t, next |-> fd] /\ state[t] # "UNUSED"
        /\ op' = [kind |-> "exec", task |-> t, next |-> fd + 1]
        /\ UNCHANGED <<state, parent, leaked>>
  <2>1. /\ op.kind = "exec" /\ op.next \in Fds /\ op.task \in Tasks /\ state[op.task] # "UNUSED"
        /\ UNCHANGED <<state, parent, leaked>>
        /\ op' = [op EXCEPT !.next = @ + 1]
    BY Zenon DEF ExecClose, OpInv
  <2>2. op = [kind |-> op.kind, task |-> op.task, next |-> op.next]
    BY Zenon DEF TypeOK, OpType
  <2>. QED
    BY <2>1, <2>2, Zenon
<1>2. op' \in OpType
  BY <1>1, ConstantsAssumption DEF OpType, Fds
<1>3. fd \in cloexec[t] => fd_table[t][fd] # Closed /\ ~ IsLegacy(t, fd)
  BY <1>1, EntryLive, Zenon DEF CloexecOnlyOnOpen
<1>4. \A f \in Fds : f \in Int
  BY DEF Fds
<1>5. CASE fd \notin cloexec[t]
  <2>1. UNCHANGED <<fd_table, cloexec, fdobj, pipe, vfs_open>>
    BY <1>1, <1>5, Zenon DEF ExecClose
  <2>2. Counted' = Counted
    BY <1>1, <1>2, <2>1, Zenon DEF Counted, Pending
  <2>3. \A f \in cloexec[t] : f \in Int /\ fd \in Int /\ f >= fd /\ f # fd
    BY <1>1, <1>4, <1>5, Zenon DEF OpInv, TypeOK
  <2>4. OpInv'
    <3>1. op'.kind = "exec" /\ op'.task = t /\ op'.next = fd + 1
      BY <1>1, Zenon
    <3>2. \A f \in cloexec[t] : f >= fd + 1
      BY <2>3
    <3>. QED
      BY <1>1, <2>1, <3>1, <3>2, Zenon DEF OpInv
  <2>. QED
    BY <1>1, <1>2, <2>1, <2>2, <2>4, SMTT(60) DEF TypeOK, CloexecOnlyOnOpen
<1>6. CASE fd \in cloexec[t]
  <2>1. CloseFd(t, fd)
    BY <1>1, <1>3, <1>6, Zenon DEF ExecClose, Entry, CloseAdopted
  <2>2. /\ fdobj' \in [Objs -> ObjType] /\ pipe' \in [Pipes -> PipeType]
        /\ fd_table' \in TableType /\ cloexec' \in [Tasks -> SUBSET Fds]
        /\ vfs_open' \subseteq LegacyFds
        /\ CloexecOnlyOnOpen'
        /\ CoreInv(Counted', fdobj', pipe', leaked')
    BY <1>1, <1>2, <2>1, CloseFdStep, Zenon
  <2>3. \A f \in cloexec'[t] : f \in Int /\ fd \in Int /\ f >= fd /\ f # fd
    BY <1>1, <1>4, <2>1, Zenon DEF CloseFd, OpInv, TypeOK
  <2>4. OpInv'
    BY <1>1, <1>2, <2>3, SMTT(60) DEF OpInv
  <2>5. TypeOK'
    BY <1>1, <1>2, <2>2, Zenon DEF TypeOK, TableType
  <2>. QED
    BY <2>2, <2>4, <2>5, Zenon
<1>. QED
  BY <1>5, <1>6, Zenon

\* task_create_kernel_thread, proc_exit_current and proc_waitpid.
LEMMA SlotStep ==
  ASSUME IInv, NEW t \in Tasks, NEW c \in Tasks,
         CreateThread(t, c) \/ Exit(t) \/ Waitpid(t, c)
  PROVE  IInv'
<1>. USE DEF IInv
<1>1. op = Idle /\ state[t] # "UNUSED" /\ op' = op /\ UNCHANGED <<fdobj, pipe, vfs_open>>
  BY Zenon DEF CreateThread, Exit, Waitpid, Unlocked
<1>2. \A u \in Tasks, f \in Fds : ~ Pending(u, f) /\ ~ Pending(u, f)'
  BY <1>1, Zenon DEF Pending, Idle
<1>3. OpInv'
  BY <1>1, Zenon DEF OpInv, Idle
<1>4. CASE CreateThread(t, c)
  <2>1. TypeOK' /\ CloexecOnlyOnOpen'
    BY <1>1, <1>4, Zenon DEF CreateThread, TypeOK, CloexecOnlyOnOpen
  <2>2. \A u \in Tasks, f \in Fds : Counted'[u][f] = Counted[u][f]
    BY <1>2, <1>4, Zenon DEF CreateThread, Counted, TypeOK, First, FreeTasks
  <2>3. Counted' = Counted
    BY <2>2, Zenon DEF Counted
  <2>. QED
    BY <1>1, <1>3, <1>4, <2>1, <2>3, ZenonT(60) DEF CreateThread
<1>5. CASE Exit(t)
  <2>1. TypeOK' /\ CloexecOnlyOnOpen'
    BY <1>1, <1>5, Zenon DEF Exit, TypeOK, CloexecOnlyOnOpen
  <2>2. \A u \in Tasks, f \in Fds : Counted'[u][f] = Counted[u][f]
    BY <1>1, <1>2, <1>5, Zenon DEF Exit, Counted, TypeOK
  <2>3. Counted' = Counted
    BY <2>2, SMTT(60) DEF Counted
  <2>. QED
    BY <1>1, <1>3, <1>5, <2>1, <2>3, ZenonT(60) DEF Exit
<1>6. CASE Waitpid(t, c)
  <2>1. /\ state[c] # "UNUSED" /\ state' = [state EXCEPT ![c] = "UNUSED"]
        /\ fd_table' = fd_table
        /\ leaked' = [o \in Objs |-> leaked[o] + Cardinality(HeldBy(c, o))]
    BY <1>6, Zenon DEF Waitpid
  <2>2. Counted \in TableType /\ Counted' \in TableType
    BY <2>1, SMTT(60) DEF TypeOK, Counted, TableType
  <2>3. \A f \in Fds : Counted'[c][f] = Closed /\ Counted[c][f] = Entry(c, f)
    BY <1>2, <2>1, SMTT(60) DEF Counted, TypeOK, Entry
  <2>4. \A u \in Tasks, f \in Fds : u # c => Counted'[u][f] = Counted[u][f]
    BY <1>2, <2>1, Zenon DEF Counted, TypeOK
  <2>5. /\ fdobj \in [Objs -> ObjType] /\ pipe \in [Pipes -> PipeType]
        /\ leaked \in [Objs -> Nat] /\ CoreInv(Counted, fdobj, pipe, leaked)
    BY SMTT(60) DEF TypeOK
  <2>6. leaked' \in [Objs -> Nat] /\ CoreInv(Counted', fdobj, pipe, leaked')
    BY <2>1, <2>2, <2>3, <2>4, <2>5, ReapCore, SMTT(60)
  <2>7. TypeOK' /\ CloexecOnlyOnOpen'
    BY <1>1, <1>6, <2>6, ZenonT(60) DEF Waitpid, TypeOK, CloexecOnlyOnOpen
  <2>. QED
    BY <1>1, <1>3, <2>6, <2>7, ZenonT(60)
<1>. QED
  BY <1>4, <1>5, <1>6, Zenon

-----------------------------------------------------------------------------
(* The induction *)

LEMMA InitInv == Init => IInv
<1>. SUFFICES ASSUME Init PROVE IInv
  BY Zenon
<1>1. TypeOK
  <2>1. 0 \in Nat /\ 0 \in 0 .. PipeBuf /\ 0 \in 0 .. NFds
    BY ConstantsAssumption
  <2>2. FreeObj \in ObjType /\ FreePipe \in PipeType /\ Idle \in OpType
    BY <2>1, Zenon DEF ObjType, FreeObj, PipeType, FreePipe, OpType, Idle
  <2>. QED
    BY <2>1, <2>2, Zenon DEF Init, TypeOK
<1>2. OpInv /\ CloexecOnlyOnOpen
  BY SMTT(60) DEF Init, OpInv, Idle, CloexecOnlyOnOpen
<1>3. \A t \in Tasks, fd \in Fds : Counted[t][fd] = Closed
  BY Zenon DEF Init, Counted
<1>4. RefsInv(Counted, fdobj, leaked) /\ PipesInv(fdobj, pipe)
  <2>1. \A o \in Objs : fdobj[o] = FreeObj /\ leaked[o] = 0
    BY Zenon DEF Init
  <2>2. \A p \in Pipes : pipe[p] = FreePipe
    BY Zenon DEF Init
  <2>3. /\ FreeObj.used = FALSE
        /\ FreePipe.used = FALSE /\ FreePipe.readers = 0 /\ FreePipe.writers = 0
    BY Zenon DEF FreeObj, FreePipe
  <2>4. ~ (0 > 0)
    OBVIOUS
  <2>5. RefsInv(Counted, fdobj, leaked)
    BY <1>3, <2>1, <2>3, Zenon DEF RefsInv
  <2>. QED
    BY <2>1, <2>2, <2>3, <2>4, <2>5, Zenon DEF PipesInv, IsEnd
<1>. QED
  BY <1>1, <1>2, <1>4, Zenon DEF IInv, CoreInv

LEMMA NextInv == IInv /\ [Next]_vars => IInv'
<1>. SUFFICES ASSUME IInv, [Next]_vars PROVE IInv'
  BY Zenon
<1>1. CASE UNCHANGED vars
  <2>1. Counted' = Counted
    BY <1>1, Zenon DEF vars, Counted, Pending
  <2>. QED
    BY <1>1, <2>1, Zenon DEF vars, IInv, TypeOK, OpInv, CloexecOnlyOnOpen
<1>2. CASE LoopStep
  BY <1>2, ForkRetainStep, ExecCloseStep, LoopBoundaryStep, ZenonT(60) DEF LoopStep
<1>3. ASSUME NEW t \in Tasks, Syscall(t) PROVE IInv'
  <2>1. ASSUME NEW fd \in Fds, NEW len \in 0 .. MaxIO,
               ReadPipe(t, fd, len) \/ WritePipe(t, fd, len)
        PROVE  IInv'
    BY <2>1, TransferStep, ZenonT(60)
  <2>2. ASSUME NEW fd \in Fds, AdoptLegacy(t, fd) PROVE IInv'
    BY <2>2, AdoptStep, Zenon
  <2>3. ASSUME NEW fd \in Fds, Close(t, fd) PROVE IInv'
    BY <2>3, CloseStep, Zenon
  <2>4. ASSUME NEW fd \in Fds, NEW enabled \in BOOLEAN, SetCloexec(t, fd, enabled)
        PROVE  IInv'
    BY <2>4, SetCloexecStep, Zenon
  <2>5. ASSUME NEW fd \in Fds, NEW newfd \in Fds, Dup2(t, fd, newfd) PROVE IInv'
    BY <2>5, Dup2Step, Zenon
  <2>6. CASE Pipe(t)
    BY <2>6, PipeStep, Zenon
  <2>7. CASE PipeRollback(t)
    <3>1. UNCHANGED vars
      BY <2>7, RollbackUnchanged, TypedTables, Zenon DEF IInv, CoreInv, RefsInv, PipesInv
    <3>. QED
      BY <1>1, <3>1, Zenon
  <2>8. CASE Exec(t)
    BY <2>8, LoopBoundaryStep, Zenon
  <2>9. CASE Exit(t)
    BY <2>9, SlotStep, Zenon
  <2>10. ASSUME NEW c \in Tasks, Fork(t, c) PROVE IInv'
    BY <2>10, ForkStep, Zenon
  <2>11. ASSUME NEW c \in Tasks, CreateThread(t, c) \/ Waitpid(t, c) PROVE IInv'
    BY <2>11, SlotStep, Zenon
  <2>. QED
    BY <1>3, <2>1, <2>2, <2>3, <2>4, <2>5, <2>6, <2>7, <2>8, <2>9, <2>10, <2>11, SMTT(60) DEF Syscall
<1>. QED
  BY <1>1, <1>2, <1>3, Zenon DEF Next

\* IInv holds in every reachable state.
THEOREM InductiveInvariant == Spec => []IInv
<1>. QED
  BY InitInv, NextInv, PTL DEF Spec

-----------------------------------------------------------------------------
(* The theorems *)

\* Every variable of the descriptor layer stays in its range: no count is
\* negative, no entry is anything but an object id or -1.
THEOREM TypeCorrect == Spec => []TypeOK
<1>1. IInv => TypeOK
  BY Zenon DEF IInv
<1>. QED
  BY <1>1, InductiveInvariant, PTL

\* The reference count of an fd object is the number of descriptors that
\* denote it plus those lost by reaping, whatever the table sizes.
THEOREM RefcountsExact == Spec => []RefcountExact
<1>1. IInv => RefcountExact
  BY Zenon DEF IInv, CoreInv, RefsInv, RefcountExact
<1>. QED
  BY <1>1, InductiveInvariant, PTL

\* No descriptor outlives its object.
THEOREM NoDangling == Spec => []NoDanglingDescriptor
<1>1. IInv => NoDanglingDescriptor
  BY EntryLive, Zenon DEF NoDanglingDescriptor
<1>. QED
  BY <1>1, InductiveInvariant, PTL

\* The reader and writer counts of a pipe are the references of its ends, and
\* the pipe is in use exactly as long as it has one.
THEOREM PipeCounts == Spec => []PipeCountsMatchEndpoints
<1>1. ASSUME IInv PROVE PipeCountsMatchEndpoints
  <2>1. SUFFICES ASSUME NEW p \in Pipes
        PROVE  LET ends(kind) == {o \in Objs : fdobj[o].used /\ fdobj[o].kind = kind
                                               /\ fdobj[o].pipe_id = p}
               IN  /\ \A o \in ends("PIPE_R") :
                        ends("PIPE_R") = {o} /\ pipe[p].readers = fdobj[o].refcnt
                   /\ \A o \in ends("PIPE_W") :
                        ends("PIPE_W") = {o} /\ pipe[p].writers = fdobj[o].refcnt
                   /\ ends("PIPE_R") = {} => pipe[p].readers = 0
                   /\ ends("PIPE_W") = {} => pipe[p].writers = 0
                   /\ pipe[p].used <=> ends("PIPE_R") \cup ends("PIPE_W") # {}
    BY Zenon DEF PipeCountsMatchEndpoints
  <2>. DEFINE ends(kind) == {o \in Objs : fdobj[o].used /\ fdobj[o].kind = kind
                                          /\ fdobj[o].pipe_id = p}
  <2>2. PipesInv(fdobj, pipe) /\ pipe[p].readers \in Nat /\ pipe[p].writers \in Nat
    BY <1>1, Zenon DEF IInv, CoreInv, TypeOK, PipeType
  <2>3. \A kind : \A o \in Objs : o \in ends(kind) <=> IsEnd(fdobj, o, kind, p)
    BY Zenon DEF IsEnd
  <2>4. \A kind : \A o \in ends(kind) : ends(kind) = {o}
    BY <2>2, SMTT(60) DEF PipesInv, IsEnd
  <2>5. /\ \A o \in ends("PIPE_R") : pipe[p].readers = fdobj[o].refcnt
        /\ \A o \in ends("PIPE_W") : pipe[p].writers = fdobj[o].refcnt
    BY <2>2, Zenon DEF PipesInv
  <2>6. /\ ends("PIPE_R") = {} => pipe[p].readers = 0
        /\ ends("PIPE_W") = {} => pipe[p].writers = 0
    <3>1. /\ pipe[p].readers > 0 => \E o \in Objs : IsEnd(fdobj, o, "PIPE_R", p)
          /\ pipe[p].writers > 0 => \E o \in Objs : IsEnd(fdobj, o, "PIPE_W", p)
      BY <2>2, Zenon DEF PipesInv
    <3>2. /\ ends("PIPE_R") = {} => ~ (pipe[p].readers > 0)
          /\ ends("PIPE_W") = {} => ~ (pipe[p].writers > 0)
      BY <2>3, <3>1, Zenon
    <3>. QED
      BY ONLY <2>2, <3>2, SMT
  <2>7. pipe[p].used => ends("PIPE_R") \cup ends("PIPE_W") # {}
    BY <2>2, <2>3, Zenon DEF PipesInv
  <2>8. ends("PIPE_R") \cup ends("PIPE_W") # {} => pipe[p].used
    BY <2>2, Zenon DEF PipesInv
  <2>. QED
    BY <2>4, <2>5, <2>6, <2>7, <2>8, ZenonT(60)
<1>. QED
  BY <1>1, InductiveInvariant, PTL

\* A close-on-exec bit is set only on an open descriptor.
THEOREM CloexecBitsOnOpen == Spec => []CloexecOnlyOnOpen
<1>1. IInv => CloexecOnlyOnOpen
  BY Zenon DEF IInv
<1>. QED
  BY <1>1, InductiveInvariant, PTL

\* Fork gives the child its parent's descriptors.
THEOREM ForkShares == Spec => []ForkSharesDescriptors
<1>1. IInv => ForkSharesDescriptors
  BY Zenon DEF IInv, OpInv, ForkSharesDescriptors
<1>. QED
  BY <1>1, InductiveInvariant, PTL

\* A pipe() that fails for want of objects leaves the tables as they were.
THEOREM RollbackLeavesNoTrace == Spec => FailedPipeLeavesNoTrace
<1>1. IInv /\ [Next]_vars =>
        [(\E t \in Tasks : PipeRollback(t)) => UNCHANGED <<fd_table, fdobj, pipe>>]_vars
  BY RollbackUnchanged, TypedTables, Zenon DEF IInv, CoreInv, RefsInv, PipesInv, vars
<1>. QED
  BY <1>1, InductiveInvariant, PTL DEF Spec, FailedPipeLeavesNoTrace

\* An object in use that is still in use after a step has kept its kind and
\* its pipe: fdobj entries are written only when they are free.
LEMMA KindsKept ==
  ASSUME IInv, Next, NEW x \in Objs, fdobj[x].used, fdobj'[x].used
  PROVE  fdobj'[x].kind = fdobj[x].kind /\ fdobj'[x].pipe_id = fdobj[x].pipe_id
<1>1. fdobj \in [Objs -> ObjType]
  BY Zenon DEF IInv, TypeOK
<1>2. \A fo \in [Objs -> ObjType], o \in Objs :
        LET f2 == ReleaseObj(fo, o) IN
        f2[x].used => f2[x].kind = fo[x].kind /\ f2[x].pipe_id = fo[x].pipe_id /\ fo[x].used
  BY DEF ReleaseObj, FreeObj, ObjType
<1>3. \A fo \in [Objs -> ObjType], o \in Objs :
        LET f2 == RetainObj(fo, o) IN
        /\ f2[x].kind = fo[x].kind /\ f2[x].pipe_id = fo[x].pipe_id
        /\ f2[x].used = fo[x].used
  BY ZenonT(60) DEF RetainObj, ObjType
<1>4. CASE fdobj' = fdobj
  BY <1>4, Zenon
<1>5. ASSUME NEW o \in Objs, fdobj' = ReleaseObj(fdobj, o)
      PROVE  fdobj'[x].kind = fdobj[x].kind /\ fdobj'[x].pipe_id = fdobj[x].pipe_id
  BY <1>1, <1>2, <1>5, Zenon
<1>6. ASSUME NEW o \in Objs, fdobj' = RetainObj(fdobj, o)
      PROVE  fdobj'[x].kind = fdobj[x].kind /\ fdobj'[x].pipe_id = fdobj[x].pipe_id
  BY <1>1, <1>3, <1>6, Zenon
<1>7. CASE LoopStep
  BY <1>4, <1>5, <1>6, <1>7, Zenon
     DEF LoopStep, LoopEnd, ForkRetain, ExecClose, CloseFd, CloseAdopted, Releasable, LiveObj
<1>8. ASSUME NEW t \in Tasks, Syscall(t)
      PROVE  fdobj'[x].kind = fdobj[x].kind /\ fdobj'[x].pipe_id = fdobj[x].pipe_id
  <2>1. ASSUME NEW fd \in Fds, NEW newfd \in Fds, Dup2(t, fd, newfd)
        PROVE  fdobj'[x].kind = fdobj[x].kind /\ fdobj'[x].pipe_id = fdobj[x].pipe_id
    <3>. DEFINE old == fd_table[t][fd]
                new == fd_table[t][newfd]
                fo1 == IF new = Closed THEN fdobj ELSE ReleaseObj(fdobj, new)
    <3>1. new = Closed \/ new \in Objs
      BY SMTT(60) DEF IInv, TypeOK
    <3>2. fo1 \in [Objs -> ObjType]
      BY <1>1, <3>1, SMTT(60) DEF ReleaseObj, FreeObj, ObjType
    <3>3. fdobj' = fo1 \/ (old \in Objs /\ fdobj' = RetainObj(fo1, old))
      BY <2>1, Zenon DEF Dup2, Entry, LiveObj
    <3>4. fo1[x].used
      BY <1>3, <3>2, <3>3, SMTT(60)
    <3>5. fo1[x].kind = fdobj[x].kind /\ fo1[x].pipe_id = fdobj[x].pipe_id
      BY <1>1, <1>2, <3>1, <3>4, Zenon
    <3>. HIDE DEF fo1
    <3>. QED
      BY <1>3, <3>2, <3>3, <3>5, ZenonT(60)
  <2>2. ASSUME NEW fd \in Fds, Close(t, fd)
        PROVE  fdobj'[x].kind = fdobj[x].kind /\ fdobj'[x].pipe_id = fdobj[x].pipe_id
    BY <1>4, <1>5, <2>2, Zenon DEF Close, CloseFd, CloseAdopted, Releasable, LiveObj
  <2>3. ASSUME NEW fd \in Fds, AdoptLegacy(t, fd)
        PROVE  fdobj'[x].kind = fdobj[x].kind /\ fdobj'[x].pipe_id = fdobj[x].pipe_id
    BY <2>3, AdoptStep, Zenon
  <2>4. CASE Pipe(t)
    <3>1. PICK p \in First(FreePipes), rd \in First(FreeFds(t)), ro \in First(FreeObjs) :
            \E wr \in First(FreeFds(t) \ {rd}), wo \in First(FreeObjs \ {ro}) :
            fdobj' = [fdobj EXCEPT ![ro] = Endpoint("PIPE_R", p), ![wo] = Endpoint("PIPE_W", p)]
      BY <2>4, ZenonT(60) DEF Pipe
    <3>2. PICK wo \in First(FreeObjs \ {ro}) :
            fdobj' = [fdobj EXCEPT ![ro] = Endpoint("PIPE_R", p), ![wo] = Endpoint("PIPE_W", p)]
      BY <3>1, Zenon
    <3>3. ro # x /\ wo # x
      BY Zenon DEF First, FreeObjs
    <3>4. fdobj'[x] = fdobj[x]
      BY <1>1, <3>2, <3>3, ZenonT(60)
    <3>. QED
      BY <3>4, Zenon
  <2>5. CASE PipeRollback(t)
    BY <1>4, <2>5, RollbackUnchanged, TypedTables, Zenon DEF IInv, CoreInv, RefsInv, PipesInv, vars
  <2>6. CASE fdobj' = fdobj
    BY <2>6, SMTT(60)
  <2>. QED
    BY <1>8, <2>1, <2>2, <2>3, <2>4, <2>5, <2>6, Zenon
       DEF Syscall, ReadPipe, WritePipe, SetCloexec, Exec, Exit, Fork, CreateThread, Waitpid
<1>. QED
  BY <1>7, <1>8, Zenon DEF Next

\* A descriptor that keeps its object id keeps its pipe and direction.
THEOREM MeaningKept == Spec => DescriptorKeepsMeaning
<1>1. ASSUME IInv, IInv', Next, NEW t \in Tasks, NEW fd \in Fds,
             Counted[t][fd] # Closed, Counted'[t][fd] = Counted[t][fd]
      PROVE  /\ fdobj'[Counted[t][fd]].kind = fdobj[Counted[t][fd]].kind
             /\ fdobj'[Counted[t][fd]].pipe_id = fdobj[Counted[t][fd]].pipe_id
  <2>. DEFINE o == Counted[t][fd]
  <2>1. o \in Objs /\ fdobj[o].used
    BY <1>1, CountedAt, SMTT(60) DEF IInv, TableType, CoreInv, RefsInv
  <2>2. fdobj'[o].used
    BY <1>1, Zenon DEF IInv, CoreInv, RefsInv
  <2>. QED
    BY <1>1, <2>1, <2>2, KindsKept, Zenon
<1>2. IInv /\ IInv' /\ [Next]_vars =>
        [\A t \in Tasks, fd \in Fds :
           LET o == Counted[t][fd] IN
           o # Closed /\ Counted'[t][fd] = o =>
             /\ fdobj'[o].kind = fdobj[o].kind
             /\ fdobj'[o].pipe_id = fdobj[o].pipe_id]_vars
  BY <1>1, Zenon
<1>. QED
  BY <1>2, InductiveInvariant, PTL DEF Spec, DescriptorKeepsMeaning

\* No system call of fd.c starts while a loop holds fd_lock.
LEMMA SyscallUnlocked ==
  ASSUME NEW t \in Tasks, Syscall(t)
  PROVE  op = Idle
<1>1. ASSUME NEW fd \in Fds, NEW len \in 0 .. MaxIO, ReadPipe(t, fd, len) \/ WritePipe(t, fd, len)
      PROVE  op = Idle
  BY <1>1, Zenon DEF ReadPipe, WritePipe, Unlocked
<1>2. ASSUME NEW fd \in Fds, AdoptLegacy(t, fd) \/ Close(t, fd) PROVE op = Idle
  BY <1>2, Zenon DEF AdoptLegacy, Close, Unlocked
<1>3. ASSUME NEW fd \in Fds, NEW enabled \in BOOLEAN, SetCloexec(t, fd, enabled)
      PROVE  op = Idle
  BY <1>3, Zenon DEF SetCloexec, Unlocked
<1>4. ASSUME NEW fd \in Fds, NEW newfd \in Fds, Dup2(t, fd, newfd) PROVE op = Idle
  BY <1>4, Zenon DEF Dup2, Unlocked
<1>5. CASE Pipe(t) \/ PipeRollback(t) \/ Exec(t) \/ Exit(t)
  BY <1>5, Zenon DEF Pipe, PipeRollback, Exec, Exit, Unlocked
<1>6. ASSUME NEW c \in Tasks, Fork(t, c) \/ CreateThread(t, c) \/ Waitpid(t, c)
      PROVE  op = Idle
  BY <1>6, Zenon DEF Fork, CreateThread, Waitpid, Unlocked
<1>. QED
  BY <1>1, <1>2, <1>3, <1>4, <1>5, <1>6, Zenon DEF Syscall

\* Exec closes the close-on-exec descriptors of its caller and no others.
THEOREM ExecCloses == Spec => ExecClosesExactlyCloexec
<1>1. IInv /\ [Next]_vars =>
        [op.kind = "exec" /\ op' = Idle => cloexec[op.task] = {}]_vars
  <2>. SUFFICES ASSUME IInv, Next, op.kind = "exec", op' = Idle PROVE cloexec[op.task] = {}
    BY Zenon
  <2>1. op # Idle
    BY DEF Idle
  <2>2. ~ ForkRetain /\ ~ ExecClose
    <3>1. op'.kind = "idle" /\ op.kind \in {"idle", "fork", "exec"}
      BY Zenon DEF Idle, IInv, TypeOK, OpType
    <3>2. ExecClose => op'.kind = op.kind
      BY Zenon DEF ExecClose, IInv, TypeOK, OpType
    <3>. QED
      BY <3>1, <3>2, Zenon DEF ForkRetain
  <2>3. LoopEnd
    BY <2>1, <2>2, SyscallUnlocked, ZenonT(60) DEF Next, LoopStep
  <2>4. op.task \in Tasks /\ cloexec[op.task] \subseteq Fds /\ op.next = NFds
    BY <2>3, Zenon DEF LoopEnd, IInv, OpInv, TypeOK
  <2>5. \A fd \in cloexec[op.task] : fd \in Fds /\ fd >= NFds
    BY <2>4, Zenon DEF IInv, OpInv
  <2>. QED
    BY <2>5, ConstantsAssumption DEF Fds
<1>2. IInv /\ [Next]_vars =>
        [op.kind = "exec" => \A t \in Tasks, fd \in Fds :
           fd_table'[t][fd] # fd_table[t][fd] => t = op.task /\ fd \in cloexec[t]]_vars
  <2>. SUFFICES ASSUME IInv, Next, op.kind = "exec", NEW t \in Tasks, NEW fd \in Fds,
                       fd_table'[t][fd] # fd_table[t][fd]
                PROVE  t = op.task /\ fd \in cloexec[t]
    BY ZenonT(60)
  <2>1. op # Idle
    BY SMTT(60) DEF Idle
  <2>2. ExecClose
    <3>1. ~ LoopEnd /\ ~ ForkRetain
      BY Zenon DEF LoopEnd, ForkRetain
    <3>. QED
      BY <2>1, <3>1, SyscallUnlocked, ZenonT(60) DEF Next, LoopStep
  <2>3. /\ op.next \in cloexec[op.task]
        /\ fd_table' = [fd_table EXCEPT ![op.task][op.next] = Closed]
    BY <2>2, Zenon DEF ExecClose, CloseFd, CloseAdopted
  <2>. QED
    BY <2>3, SMTT(60) DEF IInv, TypeOK
<1>. QED
  BY <1>1, <1>2, InductiveInvariant, PTL DEF Spec, ExecClosesExactlyCloexec

-----------------------------------------------------------------------------
(* Raw VFS descriptors *)

\* Of the ends of one kind that pipe p has: none, if n is 0; else one, which has n references.
EndCount(fo, kind, p, n) ==
  \/ n = 0 /\ \A o \in Objs : ~ IsEnd(fo, o, kind, p)
  \/ \E o \in Objs :
       /\ IsEnd(fo, o, kind, p) /\ n = fo[o].refcnt /\ n > 0
       /\ \A x \in Objs : IsEnd(fo, x, kind, p) => x = o

ObjSound(ob) ==
  /\ ob.used =>
       /\ ob.refcnt > 0
       /\ \/ ob.kind = "FS" /\ ob.pipe_id = Closed
          \/ ob.kind \in {"PIPE_R", "PIPE_W"} /\ ob.pipe_id \in Pipes
  /\ ~ ob.used => ob = FreeObj

PipeSound(pp) == (pp.used <=> pp.readers > 0 \/ pp.writers > 0) /\ (~ pp.used => pp = FreePipe)

\* Objects and pipes agree, whatever the descriptors are: a raw VFS descriptor is a number that may
\* also be the id of an object, so that descriptors and counts need not agree.
RawInv(fo, pi) ==
  /\ fo \in [Objs -> ObjType] /\ pi \in [Pipes -> PipeType]
  /\ \A o \in Objs : ObjSound(fo[o])
  /\ \A p \in Pipes :
       /\ EndCount(fo, "PIPE_R", p, pi[p].readers) /\ EndCount(fo, "PIPE_W", p, pi[p].writers)
       /\ PipeSound(pi[p])

LegacyInv == fd_table \in TableType /\ RawInv(fdobj, pipe)

\* The object o of fo was released or retained: it has n references in f2, or is free if n is 0.
Recounted(fo, f2, o, n) ==
  /\ f2 \in [Objs -> ObjType] /\ \A x \in Objs : x # o => f2[x] = fo[x]
  /\ n = 0 => f2[o] = FreeObj
  /\ n > 0 => f2[o] = [fo[o] EXCEPT !.refcnt = n]

\* Releasing or retaining one end changes the count of that end, and of no other.
LEMMA EndRecounted ==
  ASSUME NEW fo, NEW f2, NEW o \in Objs, NEW n \in Nat, NEW m \in Nat, NEW p \in Pipes,
         NEW kind \in {"PIPE_R", "PIPE_W"}, fo \in [Objs -> ObjType], fo[o].used,
         Recounted(fo, f2, o, n), EndCount(fo, kind, p, m)
  PROVE  EndCount(f2, kind, p, IF IsEnd(fo, o, kind, p) THEN n ELSE m)
<1>1. \A x \in Objs : x # o => (IsEnd(f2, x, kind, p) <=> IsEnd(fo, x, kind, p)) /\ f2[x].refcnt = fo[x].refcnt
  BY Zenon DEF Recounted, IsEnd
<1>2. CASE n = 0
  <2>1. ~ IsEnd(f2, o, kind, p)
    <3>1. f2[o] = FreeObj /\ ~ FreeObj.used
      BY <1>2 DEF Recounted, FreeObj
    <3>. QED
      BY <3>1, Zenon DEF IsEnd
  <2>2. CASE IsEnd(fo, o, kind, p)
    <3>1. \A x \in Objs : ~ IsEnd(f2, x, kind, p)
      BY <1>1, <2>1, <2>2, Zenon DEF EndCount
    <3>. QED
      BY <1>2, <2>2, <3>1, Zenon DEF EndCount
  <2>3. CASE ~ IsEnd(fo, o, kind, p)
    <3>1. EndCount(f2, kind, p, m)
      BY <1>1, <2>1, <2>3, ZenonT(60) DEF EndCount
    <3>. QED
      BY <2>3, <3>1, Zenon
  <2>. QED
    BY <2>2, <2>3, Zenon
<1>3. CASE n > 0
  <2>0. f2[o].used /\ f2[o].kind = fo[o].kind /\ f2[o].pipe_id = fo[o].pipe_id /\ f2[o].refcnt = n
    <3>1. fo[o] \in ObjType /\ f2[o] = [fo[o] EXCEPT !.refcnt = n]
      BY <1>3, Zenon DEF Recounted
    <3>. QED
      BY <3>1, Zenon DEF ObjType
  <2>1. IsEnd(f2, o, kind, p) <=> IsEnd(fo, o, kind, p)
    BY <2>0, Zenon DEF IsEnd
  <2>2. CASE IsEnd(fo, o, kind, p)
    <3>1. \A x \in Objs : IsEnd(f2, x, kind, p) => x = o
      BY <1>1, <2>2, Zenon DEF EndCount
    <3>2. EndCount(f2, kind, p, n)
      BY <1>3, <2>0, <2>1, <2>2, <3>1, Zenon DEF EndCount
    <3>. QED
      BY <2>2, <3>2, Zenon
  <2>3. CASE ~ IsEnd(fo, o, kind, p)
    <3>1. EndCount(f2, kind, p, m)
      BY <1>1, <2>1, <2>3, ZenonT(60) DEF EndCount
    <3>. QED
      BY <2>3, <3>1, Zenon
  <2>. QED
    BY <2>2, <2>3, Zenon
<1>. QED
  <2>1. n = 0 \/ n > 0
    OBVIOUS
  <2>. QED
    BY <1>2, <1>3, <2>1, Zenon

\* The pipe of the object follows: the side of the object counts n, the other side what it did.
PipeFollows(fo, o, n, pi, p2) ==
  /\ p2 \in [Pipes -> PipeType]
  /\ \A p \in Pipes :
       /\ p2[p].readers = IF IsEnd(fo, o, "PIPE_R", p) THEN n ELSE pi[p].readers
       /\ p2[p].writers = IF IsEnd(fo, o, "PIPE_W", p) THEN n ELSE pi[p].writers
       /\ PipeSound(p2[p])

\* Objects and pipes still agree when one object and its pipe are recounted together.
LEMMA RawRecount ==
  ASSUME NEW fo, NEW pi, NEW f2, NEW p2, NEW o \in Objs, NEW n \in Nat, RawInv(fo, pi), fo[o].used,
         Recounted(fo, f2, o, n), PipeFollows(fo, o, n, pi, p2)
  PROVE  RawInv(f2, p2)
<1>1. fo \in [Objs -> ObjType] /\ f2 \in [Objs -> ObjType] /\ pi \in [Pipes -> PipeType] /\ p2 \in [Pipes -> PipeType]
  BY Zenon DEF RawInv, Recounted, PipeFollows
<1>2. ASSUME NEW p \in Pipes
      PROVE  EndCount(f2, "PIPE_R", p, p2[p].readers) /\ EndCount(f2, "PIPE_W", p, p2[p].writers)
  <2>1. pi[p].readers \in Nat /\ pi[p].writers \in Nat
    BY <1>1, Zenon DEF PipeType
  <2>2. EndCount(fo, "PIPE_R", p, pi[p].readers) /\ EndCount(fo, "PIPE_W", p, pi[p].writers)
    BY Zenon DEF RawInv
  <2>3. EndCount(f2, "PIPE_R", p, IF IsEnd(fo, o, "PIPE_R", p) THEN n ELSE pi[p].readers)
    BY <1>1, <2>1, <2>2, EndRecounted, Zenon
  <2>4. EndCount(f2, "PIPE_W", p, IF IsEnd(fo, o, "PIPE_W", p) THEN n ELSE pi[p].writers)
    BY <1>1, <2>1, <2>2, EndRecounted, Zenon
  <2>. QED
    BY <2>3, <2>4, Zenon DEF PipeFollows
<1>3. ObjSound(f2[o])
  <2>1. CASE n = 0
    <3>1. f2[o] = FreeObj /\ ~ FreeObj.used
      BY <2>1 DEF Recounted, FreeObj
    <3>. QED
      BY <3>1, Zenon DEF ObjSound
  <2>2. CASE n > 0
    <3>1. f2[o] = [fo[o] EXCEPT !.refcnt = n] /\ fo[o] \in ObjType /\ ObjSound(fo[o])
      BY <1>1, <2>2, Zenon DEF Recounted, RawInv
    <3>2. f2[o].used /\ f2[o].kind = fo[o].kind /\ f2[o].pipe_id = fo[o].pipe_id /\ f2[o].refcnt = n
      BY <3>1, Zenon DEF ObjType
    <3>. QED
      BY <2>2, <3>1, <3>2, Zenon DEF ObjSound
  <2>3. n = 0 \/ n > 0
    OBVIOUS
  <2>. QED
    BY <2>1, <2>2, <2>3, Zenon
<1>4. \A x \in Objs : ObjSound(f2[x])
  BY <1>3, Zenon DEF Recounted, RawInv
<1>. QED
  BY <1>1, <1>2, <1>4, Zenon DEF RawInv, PipeFollows

\* An end of a pipe carries the count of its side, and the pipe is in use; other objects have no pipe.
LEMMA RawEnd ==
  ASSUME NEW fo, NEW pi, NEW o \in Objs, RawInv(fo, pi), fo[o].used
  PROVE  /\ fo[o] \in ObjType /\ fo[o].refcnt \in Nat /\ fo[o].refcnt > 0
         /\ \/ fo[o].kind = "FS" /\ fo[o].pipe_id \notin Pipes
            \/ fo[o].kind = "PIPE_R" /\ fo[o].pipe_id \in Pipes
            \/ fo[o].kind = "PIPE_W" /\ fo[o].pipe_id \in Pipes
         /\ \A p \in Pipes : IsEnd(fo, o, "PIPE_R", p) => pi[p].readers = fo[o].refcnt /\ pi[p].used
         /\ \A p \in Pipes : IsEnd(fo, o, "PIPE_W", p) => pi[p].writers = fo[o].refcnt /\ pi[p].used
<1>1. fo[o] \in ObjType /\ ObjSound(fo[o])
  BY Zenon DEF RawInv
<1>2. fo[o].refcnt \in Nat /\ fo[o].refcnt > 0
  BY <1>1, Zenon DEF ObjType, ObjSound
<1>3. Closed \notin Pipes
  BY ONLY ConstantsAssumption DEF Closed, Pipes
<1>4. \/ fo[o].kind = "FS" /\ fo[o].pipe_id \notin Pipes
      \/ fo[o].kind = "PIPE_R" /\ fo[o].pipe_id \in Pipes
      \/ fo[o].kind = "PIPE_W" /\ fo[o].pipe_id \in Pipes
  BY <1>1, <1>3, Zenon DEF ObjSound
<1>5. ASSUME NEW p \in Pipes, IsEnd(fo, o, "PIPE_R", p)
      PROVE  pi[p].readers = fo[o].refcnt /\ pi[p].used
  <2>1. EndCount(fo, "PIPE_R", p, pi[p].readers) /\ PipeSound(pi[p])
    BY Zenon DEF RawInv
  <2>2. pi[p].readers = fo[o].refcnt
    BY <1>5, <2>1, Zenon DEF EndCount
  <2>. QED
    BY <1>2, <2>1, <2>2, Zenon DEF PipeSound
<1>6. ASSUME NEW p \in Pipes, IsEnd(fo, o, "PIPE_W", p)
      PROVE  pi[p].writers = fo[o].refcnt /\ pi[p].used
  <2>1. EndCount(fo, "PIPE_W", p, pi[p].writers) /\ PipeSound(pi[p])
    BY Zenon DEF RawInv
  <2>2. pi[p].writers = fo[o].refcnt
    BY <1>6, <2>1, Zenon DEF EndCount
  <2>. QED
    BY <1>2, <2>1, <2>2, Zenon DEF PipeSound
<1>. QED
  BY <1>1, <1>2, <1>4, <1>5, <1>6, Zenon

\* fdobj_release keeps objects and pipes in agreement.
LEMMA RawRelease ==
  ASSUME NEW fo, NEW pi, NEW o \in Objs, RawInv(fo, pi), fo[o].used
  PROVE  RawInv(ReleaseObj(fo, o), ReleasePipe(fo, pi, o))
<1>. DEFINE c  == fo[o].refcnt
            f2 == ReleaseObj(fo, o)
            q  == fo[o].pipe_id
            p2 == ReleasePipe(fo, pi, o)
            d  == Dropped(pi[q], fo[o].kind)
<1>1. fo \in [Objs -> ObjType] /\ pi \in [Pipes -> PipeType] /\ \A p \in Pipes : PipeSound(pi[p])
  BY Zenon DEF RawInv
<1>2. /\ fo[o] \in ObjType /\ c \in Nat /\ c > 0
      /\ \/ fo[o].kind = "FS" /\ q \notin Pipes
         \/ fo[o].kind = "PIPE_R" /\ q \in Pipes
         \/ fo[o].kind = "PIPE_W" /\ q \in Pipes
      /\ \A p \in Pipes : IsEnd(fo, o, "PIPE_R", p) => pi[p].readers = c /\ pi[p].used
      /\ \A p \in Pipes : IsEnd(fo, o, "PIPE_W", p) => pi[p].writers = c /\ pi[p].used
  BY RawEnd, Zenon
<1>3. c - 1 \in Nat /\ Dec(c) = c - 1 /\ (c - 1 = 0 <=> ~ c > 1)
  BY ONLY <1>2 DEF Dec
<1>4. Recounted(fo, f2, o, c - 1)
  <2>1. CASE c > 1
    <3>1. f2 = [fo EXCEPT ![o] = [fo[o] EXCEPT !.refcnt = c - 1]] /\ c - 1 # 0
      BY <1>3, <2>1, Zenon DEF ReleaseObj
    <3>2. [fo[o] EXCEPT !.refcnt = c - 1] \in ObjType
      BY <1>2, <1>3, Zenon DEF ObjType
    <3>. QED
      BY <1>1, <3>1, <3>2, Zenon DEF Recounted
  <2>2. CASE ~ c > 1
    <3>1. f2 = [fo EXCEPT ![o] = FreeObj] /\ ~ c - 1 > 0
      <4>1. c - 1 = 0 => ~ c - 1 > 0
        BY ONLY TRUE
      <4>. QED
        BY <1>3, <2>2, <4>1, Zenon DEF ReleaseObj
    <3>2. FreeObj \in ObjType
      BY ONLY TRUE DEF FreeObj, ObjType, Closed
    <3>. QED
      BY <1>1, <3>1, <3>2, Zenon DEF Recounted
  <2>. QED
    BY <2>1, <2>2, Zenon
<1>5. PipeFollows(fo, o, c - 1, pi, p2)
  <2>1. CASE q \notin Pipes
    <3>1. p2 = pi /\ \A p \in Pipes : ~ IsEnd(fo, o, "PIPE_R", p) /\ ~ IsEnd(fo, o, "PIPE_W", p)
      BY <2>1, Zenon DEF ReleasePipe, ReleaseEndpoint, IsEnd
    <3>. QED
      BY <1>1, <3>1, Zenon DEF PipeFollows
  <2>2. CASE q \in Pipes
    <3>1. /\ pi[q].used /\ pi[q] \in PipeType /\ fo[o].kind \in {"PIPE_R", "PIPE_W"}
          /\ fo[o].kind = "PIPE_R" => pi[q].readers = c
          /\ fo[o].kind = "PIPE_W" => pi[q].writers = c
      BY <1>1, <1>2, <2>2, Zenon DEF IsEnd
    <3>2. /\ d \in PipeType
          /\ d.readers = IF fo[o].kind = "PIPE_R" THEN Dec(pi[q].readers) ELSE pi[q].readers
          /\ d.writers = IF fo[o].kind = "PIPE_W" THEN Dec(pi[q].writers) ELSE pi[q].writers
          /\ d.used => d.readers > 0 \/ d.writers > 0
          /\ d.readers > 0 \/ d.writers > 0 => d.used
          /\ ~ d.used => d = FreePipe
      BY <3>1, DroppedType, Zenon
    <3>3. p2 = [pi EXCEPT ![q] = d]
      BY <2>2, <3>1, Zenon DEF ReleasePipe, ReleaseEndpoint
    <3>4. p2 \in [Pipes -> PipeType] /\ p2[q] = d /\ \A p \in Pipes : p # q => p2[p] = pi[p]
      BY <1>1, <2>2, <3>2, <3>3, Zenon
    <3>5. ASSUME NEW p \in Pipes
          PROVE  /\ p2[p].readers = IF IsEnd(fo, o, "PIPE_R", p) THEN c - 1 ELSE pi[p].readers
                 /\ p2[p].writers = IF IsEnd(fo, o, "PIPE_W", p) THEN c - 1 ELSE pi[p].writers
                 /\ PipeSound(p2[p])
      <4>1. CASE p = q
        <5>1. /\ d.readers = IF IsEnd(fo, o, "PIPE_R", q) THEN c - 1 ELSE pi[q].readers
              /\ d.writers = IF IsEnd(fo, o, "PIPE_W", q) THEN c - 1 ELSE pi[q].writers
          BY <1>3, <3>1, <3>2, Zenon DEF IsEnd
        <5>2. PipeSound(d)
          BY <3>2, Zenon DEF PipeSound
        <5>. QED
          BY <3>4, <4>1, <5>1, <5>2, Zenon
      <4>2. CASE p # q
        BY <1>1, <3>4, <4>2, Zenon DEF IsEnd
      <4>. QED
        BY <4>1, <4>2, Zenon
    <3>. QED
      BY <3>4, <3>5, Zenon DEF PipeFollows
  <2>. QED
    BY <2>1, <2>2, Zenon
<1>. QED
  BY <1>3, <1>4, <1>5, RawRecount, Zenon

\* fdobj_retain keeps objects and pipes in agreement.
LEMMA RawRetain ==
  ASSUME NEW fo, NEW pi, NEW o \in Objs, RawInv(fo, pi), fo[o].used
  PROVE  RawInv(RetainObj(fo, o), RetainPipe(fo, pi, o))
<1>. DEFINE c  == fo[o].refcnt
            f2 == RetainObj(fo, o)
            q  == fo[o].pipe_id
            p2 == RetainPipe(fo, pi, o)
<1>1. fo \in [Objs -> ObjType] /\ pi \in [Pipes -> PipeType] /\ \A p \in Pipes : PipeSound(pi[p])
  BY Zenon DEF RawInv
<1>2. /\ fo[o] \in ObjType /\ c \in Nat /\ c > 0
      /\ \/ fo[o].kind = "FS" /\ q \notin Pipes
         \/ fo[o].kind = "PIPE_R" /\ q \in Pipes
         \/ fo[o].kind = "PIPE_W" /\ q \in Pipes
      /\ \A p \in Pipes : IsEnd(fo, o, "PIPE_R", p) => pi[p].readers = c /\ pi[p].used
      /\ \A p \in Pipes : IsEnd(fo, o, "PIPE_W", p) => pi[p].writers = c /\ pi[p].used
  BY RawEnd, Zenon
<1>3. c + 1 \in Nat /\ c + 1 # 0 /\ c + 1 > 0
  BY ONLY <1>2
<1>4. Recounted(fo, f2, o, c + 1)
  <2>1. f2 = [fo EXCEPT ![o] = [fo[o] EXCEPT !.refcnt = c + 1]]
    BY Zenon DEF RetainObj
  <2>2. [fo[o] EXCEPT !.refcnt = c + 1] \in ObjType
    BY <1>2, <1>3, Zenon DEF ObjType
  <2>. QED
    BY <1>1, <1>3, <2>1, <2>2, Zenon DEF Recounted
<1>5. PipeFollows(fo, o, c + 1, pi, p2)
  <2>1. CASE q \notin Pipes
    <3>1. p2 = pi /\ \A p \in Pipes : ~ IsEnd(fo, o, "PIPE_R", p) /\ ~ IsEnd(fo, o, "PIPE_W", p)
      BY <2>1, Zenon DEF RetainPipe, AcquireEndpoint, IsEnd
    <3>. QED
      BY <1>1, <3>1, Zenon DEF PipeFollows
  <2>2. CASE q \in Pipes /\ fo[o].kind = "PIPE_R"
    <3>1. pi[q].used /\ pi[q] \in PipeType /\ pi[q].readers = c
      BY <1>1, <1>2, <2>2, Zenon DEF IsEnd
    <3>2. p2 = [pi EXCEPT ![q] = [pi[q] EXCEPT !.readers = c + 1]]
      BY <2>2, <3>1, Zenon DEF RetainPipe, AcquireEndpoint
    <3>. DEFINE d == [pi[q] EXCEPT !.readers = c + 1]
    <3>3. d \in PipeType /\ d.readers = c + 1 /\ d.writers = pi[q].writers /\ d.used
      BY <1>3, <3>1, Zenon DEF PipeType
    <3>4. p2 \in [Pipes -> PipeType] /\ p2[q] = d /\ \A p \in Pipes : p # q => p2[p] = pi[p]
      BY <1>1, <2>2, <3>2, <3>3, Zenon
    <3>. HIDE DEF d
    <3>5. PipeSound(d)
      BY <1>3, <3>3, Zenon DEF PipeSound
    <3>6. \A p \in Pipes : ~ IsEnd(fo, o, "PIPE_W", p) /\ (IsEnd(fo, o, "PIPE_R", p) <=> p = q)
      BY <2>2, Zenon DEF IsEnd
    <3>. QED
      BY <1>1, <3>3, <3>4, <3>5, <3>6, Zenon DEF PipeFollows
  <2>3. CASE q \in Pipes /\ fo[o].kind = "PIPE_W"
    <3>1. pi[q].used /\ pi[q] \in PipeType /\ pi[q].writers = c
      BY <1>1, <1>2, <2>3, Zenon DEF IsEnd
    <3>2. p2 = [pi EXCEPT ![q] = [pi[q] EXCEPT !.writers = c + 1]]
      BY <2>3, <3>1, Zenon DEF RetainPipe, AcquireEndpoint
    <3>. DEFINE d == [pi[q] EXCEPT !.writers = c + 1]
    <3>3. d \in PipeType /\ d.writers = c + 1 /\ d.readers = pi[q].readers /\ d.used
      BY <1>3, <3>1, Zenon DEF PipeType
    <3>4. p2 \in [Pipes -> PipeType] /\ p2[q] = d /\ \A p \in Pipes : p # q => p2[p] = pi[p]
      BY <1>1, <2>3, <3>2, <3>3, Zenon
    <3>. HIDE DEF d
    <3>5. PipeSound(d)
      BY <1>3, <3>3, Zenon DEF PipeSound
    <3>6. \A p \in Pipes : ~ IsEnd(fo, o, "PIPE_R", p) /\ (IsEnd(fo, o, "PIPE_W", p) <=> p = q)
      BY <2>3, Zenon DEF IsEnd
    <3>. QED
      BY <1>1, <3>3, <3>4, <3>5, <3>6, Zenon DEF PipeFollows
  <2>. QED
    BY <1>2, <2>1, <2>2, <2>3, Zenon
<1>. QED
  BY <1>3, <1>4, <1>5, RawRecount, Zenon

\* Ends that stay as they are keep their count.
LEMMA EndsKept ==
  ASSUME NEW fo, NEW f2, NEW kind, NEW p, NEW n, EndCount(fo, kind, p, n),
         \A x \in Objs : IsEnd(f2, x, kind, p) <=> IsEnd(fo, x, kind, p),
         \A x \in Objs : IsEnd(fo, x, kind, p) => f2[x].refcnt = fo[x].refcnt
  PROVE  EndCount(f2, kind, p, n)
BY ZenonT(60) DEF EndCount

\* adopt_legacy_fs_fd gives a raw VFS descriptor an object of its own, which is no end of a pipe.
LEMMA RawAdopt ==
  ASSUME NEW fo, NEW pi, NEW o \in Objs, NEW fs \in Objs, RawInv(fo, pi), ~ fo[o].used
  PROVE  RawInv([fo EXCEPT ![o] = FsObj(fs)], pi)
<1>. DEFINE f2 == [fo EXCEPT ![o] = FsObj(fs)]
<1>1. fo \in [Objs -> ObjType] /\ pi \in [Pipes -> PipeType]
  BY Zenon DEF RawInv
<1>2. FsObj(fs) \in ObjType /\ ObjSound(FsObj(fs)) /\ FsObj(fs).kind = "FS"
  BY ONLY fs \in Objs DEF FsObj, ObjType, ObjSound, Closed
<1>3. f2 \in [Objs -> ObjType] /\ f2[o] = FsObj(fs) /\ \A x \in Objs : x # o => f2[x] = fo[x]
  BY <1>1, <1>2, Zenon
<1>. HIDE DEF f2
<1>4. \A x \in Objs : ObjSound(f2[x])
  BY <1>2, <1>3, Zenon DEF RawInv
<1>5. ASSUME NEW kind \in {"PIPE_R", "PIPE_W"}, NEW p \in Pipes, NEW n, EndCount(fo, kind, p, n)
      PROVE  EndCount(f2, kind, p, n)
  <2>1. kind # "FS"
    BY <1>5, Zenon
  <2>2. \A x \in Objs : IsEnd(f2, x, kind, p) <=> IsEnd(fo, x, kind, p)
    BY <1>2, <1>3, <2>1, Zenon DEF IsEnd
  <2>3. \A x \in Objs : IsEnd(fo, x, kind, p) => f2[x].refcnt = fo[x].refcnt
    BY <1>3, Zenon DEF IsEnd
  <2>. QED
    BY <1>5, <2>2, <2>3, EndsKept, Zenon
<1>6. \A p \in Pipes :
        /\ EndCount(f2, "PIPE_R", p, pi[p].readers) /\ EndCount(f2, "PIPE_W", p, pi[p].writers)
        /\ PipeSound(pi[p])
  BY <1>5, Zenon DEF RawInv
<1>7. RawInv(f2, pi)
  BY <1>1, <1>3, <1>4, <1>6, Zenon DEF RawInv
<1>. QED
  BY <1>7, Zenon DEF f2

\* nm_fd_pipe makes two ends of a pipe that had none.
LEMMA RawNewPipe ==
  ASSUME NEW fo, NEW pi, NEW ro \in Objs, NEW wo \in Objs, NEW q \in Pipes, RawInv(fo, pi),
         ~ fo[ro].used, ~ fo[wo].used, ro # wo, ~ pi[q].used
  PROVE  RawInv([fo EXCEPT ![ro] = Endpoint("PIPE_R", q), ![wo] = Endpoint("PIPE_W", q)],
                [pi EXCEPT ![q] = NewPipe])
<1>. DEFINE f2 == [fo EXCEPT ![ro] = Endpoint("PIPE_R", q), ![wo] = Endpoint("PIPE_W", q)]
            p2 == [pi EXCEPT ![q] = NewPipe]
<1>1. fo \in [Objs -> ObjType] /\ pi \in [Pipes -> PipeType] /\ PipeSound(pi[q])
  BY Zenon DEF RawInv
<1>2. ASSUME NEW kind \in {"PIPE_R", "PIPE_W"}
      PROVE  LET e == Endpoint(kind, q) IN
             e \in ObjType /\ ObjSound(e) /\ e.used /\ e.kind = kind /\ e.pipe_id = q /\ e.refcnt = 1
  BY ONLY <1>2, q \in Pipes DEF Endpoint, ObjType, ObjSound, Closed
<1>3. NewPipe \in PipeType /\ PipeSound(NewPipe) /\ NewPipe.readers = 1 /\ NewPipe.writers = 1
  BY ONLY ConstantsAssumption DEF NewPipe, PipeType, PipeSound
<1>4. /\ Endpoint("PIPE_R", q) \in ObjType /\ ObjSound(Endpoint("PIPE_R", q))
      /\ Endpoint("PIPE_W", q) \in ObjType /\ ObjSound(Endpoint("PIPE_W", q))
  BY <1>2, Zenon
<1>5. /\ f2 \in [Objs -> ObjType] /\ f2[ro] = Endpoint("PIPE_R", q) /\ f2[wo] = Endpoint("PIPE_W", q)
      /\ \A x \in Objs : x # ro /\ x # wo => f2[x] = fo[x]
  BY <1>1, <1>4, Zenon
<1>6. p2 \in [Pipes -> PipeType] /\ p2[q] = NewPipe /\ \A p \in Pipes : p # q => p2[p] = pi[p]
  BY <1>1, <1>3, Zenon
<1>. HIDE DEF f2, p2
<1>7. \A x \in Objs : ObjSound(f2[x])
  BY <1>4, <1>5, Zenon DEF RawInv
<1>8. \A x \in Objs : ~ IsEnd(fo, x, "PIPE_R", q) /\ ~ IsEnd(fo, x, "PIPE_W", q)
  <2>1. ~ pi[q].readers > 0 /\ ~ pi[q].writers > 0
    BY <1>1, Zenon DEF PipeSound
  <2>2. EndCount(fo, "PIPE_R", q, pi[q].readers) /\ EndCount(fo, "PIPE_W", q, pi[q].writers)
    BY Zenon DEF RawInv
  <2>. QED
    BY <2>1, <2>2, Zenon DEF EndCount
<1>9. EndCount(f2, "PIPE_R", q, 1)
  <2>1. IsEnd(f2, ro, "PIPE_R", q) /\ f2[ro].refcnt = 1
    BY <1>2, <1>5, Zenon DEF IsEnd
  <2>2. \A x \in Objs : IsEnd(f2, x, "PIPE_R", q) => x = ro
    BY <1>2, <1>5, <1>8, Zenon DEF IsEnd
  <2>3. 1 > 0
    OBVIOUS
  <2>. QED
    BY <2>1, <2>2, <2>3, Zenon DEF EndCount
<1>10. EndCount(f2, "PIPE_W", q, 1)
  <2>1. IsEnd(f2, wo, "PIPE_W", q) /\ f2[wo].refcnt = 1
    BY <1>2, <1>5, Zenon DEF IsEnd
  <2>2. \A x \in Objs : IsEnd(f2, x, "PIPE_W", q) => x = wo
    BY <1>2, <1>5, <1>8, Zenon DEF IsEnd
  <2>3. 1 > 0
    OBVIOUS
  <2>. QED
    BY <2>1, <2>2, <2>3, Zenon DEF EndCount
<1>11. ASSUME NEW p \in Pipes, p # q, NEW kind, NEW n, EndCount(fo, kind, p, n)
       PROVE  EndCount(f2, kind, p, n)
  <2>1. f2[ro].pipe_id = q /\ f2[wo].pipe_id = q
    BY <1>2, <1>5, Zenon
  <2>2. \A x \in Objs : IsEnd(f2, x, kind, p) <=> IsEnd(fo, x, kind, p)
    BY <1>5, <1>11, <2>1, Zenon DEF IsEnd
  <2>3. \A x \in Objs : IsEnd(fo, x, kind, p) => f2[x].refcnt = fo[x].refcnt
    BY <1>5, Zenon DEF IsEnd
  <2>. QED
    BY <1>11, <2>2, <2>3, EndsKept, Zenon
<1>12. \A p \in Pipes :
        /\ EndCount(f2, "PIPE_R", p, p2[p].readers) /\ EndCount(f2, "PIPE_W", p, p2[p].writers)
        /\ PipeSound(p2[p])
  BY <1>3, <1>6, <1>9, <1>10, <1>11, Zenon DEF RawInv
<1>13. RawInv(f2, p2)
  BY <1>5, <1>6, <1>7, <1>12, Zenon DEF RawInv
<1>. QED
  BY <1>13, Zenon DEF f2, p2

\* Storing an object id, a raw VFS descriptor or -1 in a table keeps its type.
LEMMA EntryType ==
  ASSUME NEW tb \in TableType, NEW t, NEW fd, NEW v \in Objs \cup {Closed}
  PROVE  [tb EXCEPT ![t][fd] = v] \in TableType
BY Zenon DEF TableType

LEMMA ClosedType ==
  ASSUME NEW tb \in TableType, NEW t, NEW fd
  PROVE  [tb EXCEPT ![t][fd] = Closed] \in TableType
BY Zenon DEF TableType

\* task_close_fd keeps the agreement, of an adopted descriptor too.
LEMMA LegacyClose ==
  ASSUME LegacyInv, NEW t, NEW fd, CloseFd(t, fd) \/ CloseAdopted(t, fd)
  PROVE  LegacyInv'
<1>1. fd_table' \in TableType
  <2>1. fd_table' = [fd_table EXCEPT ![t][fd] = Closed] /\ fd_table \in TableType
    BY Zenon DEF LegacyInv, CloseFd, CloseAdopted
  <2>. QED
    BY <2>1, ClosedType, Zenon
<1>2. CASE CloseFd(t, fd)
  <2>. DEFINE o == fd_table[t][fd]
  <2>1. /\ o \in Objs /\ fdobj[o].used
        /\ fdobj' = ReleaseObj(fdobj, o) /\ pipe' = ReleasePipe(fdobj, pipe, o)
    BY <1>2, Zenon DEF CloseFd, Entry, Releasable, LiveObj
  <2>2. RawInv(fdobj', pipe')
    BY <2>1, RawRelease, Zenon DEF LegacyInv
  <2>. QED
    BY <1>1, <2>2, Zenon DEF LegacyInv
<1>3. CASE CloseAdopted(t, fd)
  BY <1>1, <1>3, Zenon DEF LegacyInv, CloseAdopted
<1>. QED
  BY <1>2, <1>3, Zenon

\* nm_fd_dup2 releases the object of newfd and retains that of oldfd.
LEMMA LegacyDup2 ==
  ASSUME LegacyInv, NEW t \in Tasks, NEW oldfd \in Fds, NEW newfd \in Fds, Dup2(t, oldfd, newfd)
  PROVE  LegacyInv'
<1>. DEFINE old == fd_table[t][oldfd]
            new == fd_table[t][newfd]
            fo1 == IF new = Closed THEN fdobj ELSE ReleaseObj(fdobj, new)
            pi1 == IF new = Closed THEN pipe ELSE ReleasePipe(fdobj, pipe, new)
<1>1. /\ new = Closed \/ (new \in Objs /\ fdobj[new].used)
      /\ \/ /\ old \in Objs /\ fo1[old].used
            /\ fdobj' = RetainObj(fo1, old) /\ pipe' = RetainPipe(fo1, pi1, old)
            /\ fd_table' = [fd_table EXCEPT ![t][newfd] = old]
         \/ fdobj' = fo1 /\ pipe' = pi1 /\ fd_table' = [fd_table EXCEPT ![t][newfd] = Closed]
  BY Zenon DEF Dup2, Entry, Releasable, LiveObj
<1>2. fd_table \in TableType /\ RawInv(fdobj, pipe)
  BY Zenon DEF LegacyInv
<1>3. RawInv(fo1, pi1)
  BY <1>1, <1>2, RawRelease, Zenon
<1>. HIDE DEF fo1, pi1
<1>4. CASE /\ old \in Objs /\ fo1[old].used
           /\ fdobj' = RetainObj(fo1, old) /\ pipe' = RetainPipe(fo1, pi1, old)
           /\ fd_table' = [fd_table EXCEPT ![t][newfd] = old]
  <2>1. RawInv(RetainObj(fo1, old), RetainPipe(fo1, pi1, old))
    BY <1>3, <1>4, RawRetain, Zenon
  <2>2. [fd_table EXCEPT ![t][newfd] = old] \in TableType
    BY <1>2, <1>4, EntryType, Zenon
  <2>. QED
    BY <1>4, <2>1, <2>2, Zenon DEF LegacyInv
<1>5. CASE fdobj' = fo1 /\ pipe' = pi1 /\ fd_table' = [fd_table EXCEPT ![t][newfd] = Closed]
  <2>1. [fd_table EXCEPT ![t][newfd] = Closed] \in TableType
    BY <1>2, ClosedType, Zenon
  <2>. QED
    BY <1>3, <1>5, <2>1, Zenon DEF LegacyInv
<1>. QED
  BY <1>1, <1>4, <1>5, Zenon

\* The objects of a transfer are unchanged and its pipe keeps its counts.
LEMMA LegacyTransfer ==
  ASSUME LegacyInv, NEW t \in Tasks, NEW fd \in Fds, NEW len \in 0 .. MaxIO,
         ReadPipe(t, fd, len) \/ WritePipe(t, fd, len)
  PROVE  LegacyInv'
<1>1. TablesTyped /\ RawInv(fdobj, pipe)
  BY Zenon DEF LegacyInv, RawInv, TablesTyped
<1>2. /\ fd_table' = fd_table /\ fdobj' = fdobj /\ pipe' \in [Pipes -> PipeType]
      /\ \A q \in Pipes : pipe'[q].readers = pipe[q].readers /\ pipe'[q].writers = pipe[q].writers
      /\ \A q \in Pipes : pipe'[q].used = pipe[q].used
      /\ \A q \in Pipes : ~ pipe[q].used => pipe'[q] = pipe[q]
  BY <1>1, TransferFacts, Zenon
<1>3. RawInv(fdobj, pipe')
  BY <1>1, <1>2, Zenon DEF RawInv, PipeSound
<1>. QED
  BY <1>2, <1>3, Zenon DEF LegacyInv

\* nm_fd_pipe, whether it succeeds or not.
LEMMA LegacyPipe ==
  ASSUME LegacyInv, NEW t \in Tasks, Pipe(t) \/ PipeRollback(t)
  PROVE  LegacyInv'
<1>1. TablesTyped /\ RawInv(fdobj, pipe) /\ fd_table \in TableType
  BY Zenon DEF LegacyInv, RawInv, TablesTyped
<1>2. CASE Pipe(t)
  <2>1. PICK p \in Pipes, rd \in Fds, ro \in Objs, wr \in Fds, wo \in Objs :
          /\ ~ pipe[p].used /\ fd_table[t][rd] = Closed /\ fd_table[t][wr] = Closed /\ rd # wr
          /\ ~ fdobj[ro].used /\ ~ fdobj[wo].used /\ ro # wo
          /\ pipe' = [pipe EXCEPT ![p] = NewPipe]
          /\ fdobj' = [fdobj EXCEPT ![ro] = Endpoint("PIPE_R", p), ![wo] = Endpoint("PIPE_W", p)]
          /\ fd_table' = [fd_table EXCEPT ![t][rd] = ro, ![t][wr] = wo]
    BY <1>2, PipeFacts, Zenon
  <2>2. RawInv(fdobj', pipe')
    <3>1. RawInv([fdobj EXCEPT ![ro] = Endpoint("PIPE_R", p), ![wo] = Endpoint("PIPE_W", p)],
                 [pipe EXCEPT ![p] = NewPipe])
      BY <1>1, <2>1, RawNewPipe, Zenon
    <3>. QED
      BY <2>1, <3>1, Zenon
  <2>3. fd_table' \in TableType
    BY <1>1, <2>1, Zenon DEF TableType
  <2>. QED
    BY <2>2, <2>3, Zenon DEF LegacyInv
<1>3. CASE PipeRollback(t)
  <2>1. /\ \A o \in Objs : ~ fdobj[o].used => fdobj[o] = FreeObj
        /\ \A p \in Pipes : ~ pipe[p].used => pipe[p] = FreePipe
    BY <1>1, Zenon DEF RawInv, ObjSound, PipeSound
  <2>2. UNCHANGED vars
    BY <1>1, <1>3, <2>1, RollbackUnchanged, Zenon
  <2>. QED
    BY <2>2, Zenon DEF vars, LegacyInv
<1>. QED
  BY <1>2, <1>3, Zenon

\* adopt_legacy_fs_fd, and a client that stores a raw VFS descriptor.
LEMMA LegacyInstall ==
  ASSUME LegacyInv, NEW t \in Tasks, NEW fd \in Fds,
         AdoptLegacy(t, fd) \/ \E fs \in LegacyFds : InstallLegacy(t, fd, fs)
  PROVE  LegacyInv'
<1>1. fd_table \in TableType /\ RawInv(fdobj, pipe)
  BY Zenon DEF LegacyInv
<1>2. CASE AdoptLegacy(t, fd)
  <2>1. PICK o \in Objs : /\ ~ fdobj[o].used /\ pipe' = pipe
                          /\ fdobj' = [fdobj EXCEPT ![o] = FsObj(fd_table[t][fd])]
                          /\ fd_table' = [fd_table EXCEPT ![t][fd] = o]
    BY <1>2, Zenon DEF AdoptLegacy, First, FreeObjs, Entry
  <2>2. fd_table[t][fd] \in Objs
    <3>1. fd_table[t][fd] # Closed
      BY <1>2, Zenon DEF AdoptLegacy, IsLegacy, Entry
    <3>2. fd_table[t][fd] \in Objs \cup {Closed}
      BY <1>1, Zenon DEF TableType
    <3>. QED
      BY <3>1, <3>2, Zenon
  <2>3. RawInv(fdobj', pipe')
    <3>1. RawInv([fdobj EXCEPT ![o] = FsObj(fd_table[t][fd])], pipe)
      BY <1>1, <2>1, <2>2, RawAdopt, Zenon
    <3>. QED
      BY <2>1, <3>1, Zenon
  <2>4. [fd_table EXCEPT ![t][fd] = o] \in TableType
    BY <1>1, EntryType, Zenon
  <2>. QED
    BY <2>1, <2>3, <2>4, Zenon DEF LegacyInv
<1>3. ASSUME NEW fs \in LegacyFds, InstallLegacy(t, fd, fs)
      PROVE  LegacyInv'
  <2>1. fs \in Objs
    BY ConstantsAssumption, Zenon DEF Objs
  <2>2. [fd_table EXCEPT ![t][fd] = fs] \in TableType
    BY <1>1, <2>1, EntryType, Zenon
  <2>. QED
    BY <1>1, <1>3, <2>2, Zenon DEF InstallLegacy, LegacyInv
<1>. QED
  BY <1>2, <1>3, Zenon

\* The loops of fork and exec.
LEMMA LegacyLoop ==
  ASSUME LegacyInv, LoopStep
  PROVE  LegacyInv'
<1>1. fd_table \in TableType /\ RawInv(fdobj, pipe)
  BY Zenon DEF LegacyInv
<1>2. CASE ForkRetain
  <2>. DEFINE o == fd_table[op.task][op.next]
  <2>1. \/ fd_table' = fd_table /\ fdobj' = fdobj /\ pipe' = pipe
        \/ /\ o \in Objs /\ fdobj[o].used /\ fd_table' = fd_table
           /\ fdobj' = RetainObj(fdobj, o) /\ pipe' = RetainPipe(fdobj, pipe, o)
        \/ fd_table' = [fd_table EXCEPT ![op.task][op.next] = Closed] /\ fdobj' = fdobj /\ pipe' = pipe
    BY <1>2, Zenon DEF ForkRetain, Entry, LiveObj
  <2>2. fd_table' \in TableType
    <3>1. [fd_table EXCEPT ![op.task][op.next] = Closed] \in TableType
      BY <1>1, ClosedType, Zenon
    <3>. QED
      BY <1>1, <2>1, <3>1, Zenon
  <2>3. RawInv(fdobj', pipe')
    <3>1. o \in Objs /\ fdobj[o].used => RawInv(RetainObj(fdobj, o), RetainPipe(fdobj, pipe, o))
      BY <1>1, RawRetain, Zenon
    <3>. QED
      BY <1>1, <2>1, <3>1, Zenon
  <2>. QED
    BY <2>2, <2>3, Zenon DEF LegacyInv
<1>3. CASE ExecClose
  <2>1. \/ fd_table' = fd_table /\ fdobj' = fdobj /\ pipe' = pipe
        \/ CloseFd(op.task, op.next) \/ CloseAdopted(op.task, op.next)
    BY <1>3, Zenon DEF ExecClose
  <2>. QED
    BY <1>1, <2>1, LegacyClose, Zenon DEF LegacyInv
<1>4. CASE LoopEnd
  BY <1>4, Zenon DEF LoopEnd, LegacyInv
<1>. QED
  BY <1>2, <1>3, <1>4, Zenon DEF LoopStep

\* The actions that leave objects and pipes alone.
LEMMA LegacySlot ==
  ASSUME LegacyInv, NEW t \in Tasks,
         \/ Exec(t) \/ Exit(t) \/ \E fd \in Fds, enabled \in BOOLEAN : SetCloexec(t, fd, enabled)
         \/ \E c \in Tasks : Fork(t, c) \/ CreateThread(t, c) \/ Waitpid(t, c)
  PROVE  LegacyInv'
<1>1. fdobj' = fdobj /\ pipe' = pipe
  BY Zenon DEF Exec, Exit, SetCloexec, Fork, CreateThread, Waitpid
<1>2. \/ fd_table' = fd_table
      \/ \E c \in Tasks : fd_table' = [fd_table EXCEPT ![c] = fd_table[t]]
      \/ \E c \in Tasks : fd_table' = [fd_table EXCEPT ![c] = [fd \in Fds |-> Closed]]
  BY Zenon DEF Exec, Exit, SetCloexec, Fork, CreateThread, Waitpid
<1>3. fd_table' \in TableType
  <2>1. [fd \in Fds |-> Closed] \in [Fds -> Objs \cup {Closed}] /\ fd_table[t] \in [Fds -> Objs \cup {Closed}]
    BY Zenon DEF LegacyInv, TableType
  <2>. QED
    BY <1>2, <2>1, Zenon DEF LegacyInv, TableType
<1>. QED
  BY <1>1, <1>3, Zenon DEF LegacyInv

\* Every step, of a client that stores raw VFS descriptors too, keeps objects and pipes in agreement.
LEMMA LegacyNext == LegacyInv /\ [NextLegacy]_vars => LegacyInv'
<1>. SUFFICES ASSUME LegacyInv, [NextLegacy]_vars PROVE LegacyInv'
  OBVIOUS
<1>1. CASE UNCHANGED vars
  BY <1>1, Zenon DEF vars, LegacyInv
<1>2. CASE LoopStep
  BY <1>2, LegacyLoop, Zenon
<1>3. ASSUME NEW t \in Tasks, Syscall(t)
      PROVE  LegacyInv'
  <2>1. ASSUME NEW fd \in Fds, Close(t, fd) PROVE LegacyInv'
    BY <2>1, LegacyClose, Zenon DEF Close
  <2>. QED
    BY <1>3, <2>1, LegacyTransfer, LegacyInstall, LegacyDup2, LegacyPipe, LegacySlot, ZenonT(60) DEF Syscall
<1>4. ASSUME NEW t \in Tasks, NEW fd \in Fds, NEW fs \in LegacyFds, InstallLegacy(t, fd, fs)
      PROVE  LegacyInv'
  BY <1>4, LegacyInstall, Zenon
<1>. QED
  BY <1>1, <1>2, <1>3, <1>4, Zenon DEF NextLegacy, Next

LEMMA LegacyInit == Init => LegacyInv
<1>. SUFFICES ASSUME Init PROVE LegacyInv
  OBVIOUS
<1>1. FreeObj \in ObjType /\ ~ FreeObj.used /\ ObjSound(FreeObj)
  BY ONLY TRUE DEF FreeObj, ObjType, ObjSound, Closed
<1>2. FreePipe \in PipeType /\ FreePipe.readers = 0 /\ FreePipe.writers = 0 /\ PipeSound(FreePipe)
  BY ONLY ConstantsAssumption DEF FreePipe, PipeType, PipeSound
<1>3. fd_table \in TableType /\ fdobj \in [Objs -> ObjType] /\ pipe \in [Pipes -> PipeType]
  BY <1>1, <1>2, Zenon DEF Init, TableType
<1>4. (\A o \in Objs : fdobj[o] = FreeObj) /\ (\A p \in Pipes : pipe[p] = FreePipe)
  BY Zenon DEF Init
<1>5. \A kind, p : EndCount(fdobj, kind, p, 0)
  BY <1>1, <1>4, Zenon DEF EndCount, IsEnd
<1>. QED
  BY <1>1, <1>2, <1>3, <1>4, <1>5, Zenon DEF LegacyInv, RawInv

\* A client that stores raw VFS descriptors in an fd_table, even one whose number is the id of an
\* object, does not break the pipes: a pipe still counts the references of its ends, and is in use
\* exactly as long as it has one (adopt_legacy_fs_fd, fdobj_retain, fdobj_release).
THEOREM LegacyPipeCounts == SpecLegacy => []PipeCountsMatchEndpoints
<1>1. ASSUME LegacyInv PROVE PipeCountsMatchEndpoints
  <2>1. SUFFICES ASSUME NEW p \in Pipes
        PROVE  LET ends(kind) == {o \in Objs : fdobj[o].used /\ fdobj[o].kind = kind
                                               /\ fdobj[o].pipe_id = p}
               IN  /\ \A o \in ends("PIPE_R") :
                        ends("PIPE_R") = {o} /\ pipe[p].readers = fdobj[o].refcnt
                   /\ \A o \in ends("PIPE_W") :
                        ends("PIPE_W") = {o} /\ pipe[p].writers = fdobj[o].refcnt
                   /\ ends("PIPE_R") = {} => pipe[p].readers = 0
                   /\ ends("PIPE_W") = {} => pipe[p].writers = 0
                   /\ pipe[p].used <=> ends("PIPE_R") \cup ends("PIPE_W") # {}
    BY Zenon DEF PipeCountsMatchEndpoints
  <2>. DEFINE ends(kind) == {o \in Objs : fdobj[o].used /\ fdobj[o].kind = kind
                                          /\ fdobj[o].pipe_id = p}
              r == pipe[p].readers
              w == pipe[p].writers
  <2>2. EndCount(fdobj, "PIPE_R", p, r) /\ EndCount(fdobj, "PIPE_W", p, w) /\ PipeSound(pipe[p])
    BY <1>1, Zenon DEF LegacyInv, RawInv
  <2>3. \A kind : \A o \in Objs : o \in ends(kind) <=> IsEnd(fdobj, o, kind, p)
    BY Zenon DEF IsEnd
  <2>4. \A kind : ends(kind) \subseteq Objs
    BY Zenon
  <2>. HIDE DEF ends
  <2>5. ASSUME NEW kind, NEW n, EndCount(fdobj, kind, p, n)
        PROVE  /\ \A o \in ends(kind) : ends(kind) = {o} /\ n = fdobj[o].refcnt
               /\ ends(kind) = {} => n = 0
               /\ ends(kind) # {} => n > 0
    BY <2>3, <2>4, <2>5, Zenon DEF EndCount
  <2>6. /\ \A o \in ends("PIPE_R") : ends("PIPE_R") = {o} /\ r = fdobj[o].refcnt
        /\ \A o \in ends("PIPE_W") : ends("PIPE_W") = {o} /\ w = fdobj[o].refcnt
        /\ ends("PIPE_R") = {} => r = 0
        /\ ends("PIPE_W") = {} => w = 0
        /\ ends("PIPE_R") # {} => r > 0
        /\ ends("PIPE_W") # {} => w > 0
    BY <2>2, <2>5, Zenon
  <2>7. ~ 0 > 0
    OBVIOUS
  <2>8. pipe[p].used <=> ends("PIPE_R") \cup ends("PIPE_W") # {}
    <3>1. ends("PIPE_R") # {} <=> r > 0
      BY <2>6, <2>7, Zenon
    <3>2. ends("PIPE_W") # {} <=> w > 0
      BY <2>6, <2>7, Zenon
    <3>. QED
      BY <2>2, <3>1, <3>2, Zenon DEF PipeSound
  <2>. QED
    BY <2>6, <2>8, Zenon DEF ends
<1>. QED
  BY <1>1, LegacyInit, LegacyNext, PTL DEF SpecLegacy

=============================================================================
