-------------------------------- MODULE Vmm --------------------------------
(***************************************************************************)
(* The page tables of one address space: kernel/mm/vmm.c.                  *)
(*                                                                         *)
(* A call that maps first takes the tables it may need from the page       *)
(* allocator (PageAlloc), one pmm_alloc_page at a time and without         *)
(* vmm_lock; walks the four levels and writes the entry under vmm_lock, in *)
(* one action; and gives back the tables it did not use, one pmm_free_page *)
(* at a time, after the unlock.  A call that unmaps walks under the lock,  *)
(* and gives back the tables it emptied after the unlock.  Callers are     *)
(* interleaved between these steps.  A call that returns false changes     *)
(* nothing but the pool it took, and is a step only if it took one.        *)
(*                                                                         *)
(* A physical page may be a frame that holds a table: the boot code maps   *)
(* all of the low memory with large pages (boot/entry.S).  The contents of *)
(* a page matter only to a call that maps a page within a large page: it   *)
(* writes its entry into that large page, whatever it is used for.  The    *)
(* tables may be anything from then on, and the properties say nothing.    *)
(***************************************************************************)
EXTENDS PageAlloc, Sequences, FiniteSets

CONSTANTS
  Callers,
  Root,        \* the pml4, which is not from the page allocator
  Virt,        \* virtual pages: <<pml4_i, pdpt_i, pd_i, pt_i>>
  Pages,       \* physical pages
  Rights       \* sets of flags (RW, US) a mapping may be asked with

ASSUME VmmAssumption ==
  /\ IsFiniteSet(Frames) /\ Frames \subseteq Int /\ Virt \subseteq [1 .. 4 -> Int]
  /\ Root \notin Frames

VARIABLES
  mem,         \* mem[t][i]: entry i of the table in frame t, or word i of a page
  call,        \* what each caller is doing
  lost,        \* history: tables cut off by a large page
  within,      \* history: virtual pages mapped within a large page
  asked        \* history: the last call that has walked the tables, and its arguments

vars == <<holders, mem, call, lost, within, asked>>

Idx == {v[level] : v \in Virt, level \in 1 .. 4}

Absent == [kind |-> "absent"]
Entry(kind, to, flags) == [kind |-> kind, to |-> to, flags |-> flags]
Present(t, i) == mem[t][i].kind # "absent"

\* A table without entries, and what is found in a frame somebody else used.
Zeroed == [i \in Idx |-> Absent]
Stale == [i \in Idx |-> Entry("large", "stale", {})]

Idle == [op |-> "idle", pool |-> << >>]

\* Mutant: the tables left over are not given back.
GivingMutant(pool) == Idle

\* A caller left with these tables to give back.
Giving(pool) == IF pool = << >> THEN Idle ELSE [op |-> "give", pool |-> pool]

\* Tables taken before the walk.
Need(op) == IF op = "map" THEN 3 ELSE 2

VmmInit ==
  /\ Init
  /\ mem = [t \in Frames \cup {Root} \cup Pages |-> IF t = Root THEN Zeroed ELSE Stale]
  /\ call = [k \in Callers |-> Idle]
  /\ lost = {} /\ within = {}
  /\ asked = << >>

-----------------------------------------------------------------------------
(* The pool *)

\* A call that maps begins.  What it is to map is chosen where it is first used, at the walk.
Begin(k, op) ==
  /\ call[k] = Idle
  /\ call' = [call EXCEPT ![k] = [op |-> op, pool |-> << >>]]
  /\ UNCHANGED <<holders, mem, lost, within, asked>>

Filling(k) == call[k].op \in {"map", "large"} /\ Len(call[k].pool) < Need(call[k].op)

\* One turn of alloc_table_pool.
AllocTable(k, f) ==
  /\ Filling(k)
  /\ Take(f, f)
  /\ mem' = [mem EXCEPT ![f] = Zeroed]
  /\ call' = [call EXCEPT ![k].pool = Append(@, f)]
  /\ UNCHANGED <<lost, within, asked>>

\* pmm_alloc_page fails: the tables taken so far go back and the call fails.
PoolFails(k) ==
  /\ Filling(k) /\ Held = Frames
  /\ call' = [call EXCEPT ![k] = Giving(call[k].pool)]
  /\ UNCHANGED <<holders, mem, lost, within, asked>>

\* One turn of free_table_pool, or of the loop at the end of vmm_unmap_page_in.
FreeTable(k) ==
  /\ call[k].op = "give"
  /\ LET f == Head(call[k].pool) IN Give(f) /\ mem' = [mem EXCEPT ![f] = Stale]
  /\ call' = [call EXCEPT ![k] = Giving(Tail(call[k].pool))]
  /\ UNCHANGED <<lost, within, asked>>

-----------------------------------------------------------------------------
(* Under vmm_lock *)

\* Mutant: the flags of an entry that is there are left alone.
GetOrCreateNextMutant(at, i, flags) ==
  IF at.mem[at.table][i].kind # "absent"
  THEN [at EXCEPT !.table = at.mem[at.table][i].to]
  ELSE [table |-> Head(at.pool), pool |-> Tail(at.pool),
        mem |-> [at.mem EXCEPT ![at.table][i] = Entry("table", Head(at.pool), flags)]]

\* get_or_create_next: one level down from `at', the table reached with the memory and the pool so
\* far.  An entry that is present is followed, whatever it is, and gets the flags it lacks.  The
\* pool holds a table for every level, so it is never empty here.
GetOrCreateNext(at, i, flags) ==
  LET e == at.mem[at.table][i] IN
  IF e.kind # "absent"
  THEN [table |-> e.to, pool |-> at.pool,
        mem |-> [at.mem EXCEPT ![at.table][i] = Entry(e.kind, e.to, e.flags \cup flags)]]
  ELSE [table |-> Head(at.pool), pool |-> Tail(at.pool),
        mem |-> [at.mem EXCEPT ![at.table][i] = Entry("table", Head(at.pool), flags)]]

\* The page directory for v, from the root down.
Directory(k, v, rights) ==
  LET pdpt == GetOrCreateNext([table |-> Root, pool |-> call[k].pool, mem |-> mem], v[1], rights)
  IN  GetOrCreateNext(pdpt, v[2], rights)

\* vmm_map_page_in from the lock on.  Within a large page the walk ends in the page itself, and
\* the entry is written there.
MapPage(k, v, page, rights) ==
  /\ call[k].op = "map" /\ ~Filling(k)
  /\ LET pd == Directory(k, v, rights)
         pt == GetOrCreateNext(pd, v[3], rights)
     IN  /\ mem' = [pt.mem EXCEPT ![pt.table][v[4]] = Entry("page", page, rights)]
         /\ call' = [call EXCEPT ![k] = Giving(pt.pool)]
         /\ within' = within \cup (IF pd.mem[pd.table][v[3]].kind = "large" THEN {v} ELSE {})
  /\ asked' = <<"map", v, page, rights>>
  /\ UNCHANGED <<holders, lost>>

\* vmm_map_2m_in from the lock on.  The entry is overwritten, a page table it leads to is not freed.
Map2m(k, v, page, rights) ==
  /\ call[k].op = "large" /\ ~Filling(k)
  /\ LET pd == Directory(k, v, rights)
         old == pd.mem[pd.table][v[3]]
     IN  /\ mem' = [pd.mem EXCEPT ![pd.table][v[3]] = Entry("large", page, rights)]
         /\ lost' = lost \cup (IF old.kind = "table" THEN {old.to} ELSE {})
         /\ call' = [call EXCEPT ![k] = Giving(pd.pool)]
  /\ asked' = <<"large", v, page, rights>>
  /\ UNCHANGED <<holders, within>>

\* Mutant: no table is taken for empty.
EmptyMutant(table) == FALSE

\* table_empty
Empty(table) == \A i \in Idx : table[i].kind = "absent"

\* vmm_unmap_page_in up to the unlock: the entry is cleared, and every table that has become empty
\* is cut off, from the page table up.
UnmapPage(k, v) ==
  /\ call[k] = Idle
  /\ Present(Root, v[1])
  /\ LET pdpt == mem[Root][v[1]].to IN
     /\ Present(pdpt, v[2])
     /\ LET pd == mem[pdpt][v[2]].to IN
        /\ mem[pd][v[3]].kind = "table"
        /\ LET pt == mem[pd][v[3]].to
               m1 == [mem EXCEPT ![pt][v[4]] = Absent]
               m2 == [m1 EXCEPT ![pd][v[3]] = Absent]
               m3 == [m2 EXCEPT ![pdpt][v[2]] = Absent]
               Return(m, tables) == mem' = m /\ call' = [call EXCEPT ![k] = Giving(tables)]
           IN  \/ ~Empty(m1[pt]) /\ Return(m1, << >>)
               \/ Empty(m1[pt]) /\ ~Empty(m2[pd]) /\ Return(m2, <<pt>>)
               \/ Empty(m1[pt]) /\ Empty(m2[pd]) /\ ~Empty(m3[pdpt]) /\ Return(m3, <<pt, pd>>)
               \/ /\ Empty(m1[pt]) /\ Empty(m2[pd]) /\ Empty(m3[pdpt])
                  /\ Return([m3 EXCEPT ![Root][v[1]] = Absent], <<pt, pd, pdpt>>)
  /\ asked' = <<"unmap", v>>
  /\ UNCHANGED <<holders, lost, within>>

VmmNext ==
  \E k \in Callers :
    \/ \E v \in Virt :
         \/ \E page \in Pages, rights \in Rights : MapPage(k, v, page, rights) \/ Map2m(k, v, page, rights)
         \/ UnmapPage(k, v)
    \/ \E op \in {"map", "large"} : Begin(k, op)
    \/ \E f \in Frames : AllocTable(k, f)
    \/ PoolFails(k)
    \/ FreeTable(k)

VmmSpec == VmmInit /\ [][VmmNext]_vars

-----------------------------------------------------------------------------
(* Properties *)

\* The tables that entries of the tables ts lead to, and all tables below the root.
Below(ts) == UNION {{mem[t][i].to : i \in {j \in Idx : mem[t][j].kind = "table"}} : t \in ts}
Tree == LET pdpts == Below({Root}) IN pdpts \cup Below(pdpts) \cup Below(Below(pdpts))

Members(seq) == {seq[i] : i \in DOMAIN seq}
Pool(k) == Members(call[k].pool)

\* Every frame vmm.c holds is in one place: a table of the tree, to which exactly one entry leads, or
\* a table in one caller's pool, or a page table cut off by vmm_map_2m_in.  So nothing leaks but
\* these, no table is given back while an entry leads to it, and no two callers use one table.  Until
\* vmm_map_page_in is called within a large page: what it then writes to may be a table.
FramesAccounted ==
  within = {} =>
    /\ Held = Tree \cup lost \cup UNION {Pool(k) : k \in Callers}
    /\ Tree \cap lost = {}
    /\ \A k \in Callers :
         /\ Pool(k) \cap (Tree \cup lost) = {}
         /\ Cardinality(Pool(k)) = Len(call[k].pool)
         /\ \A o \in Callers \ {k} : Pool(k) \cap Pool(o) = {}
    /\ Cardinality({e \in ({Root} \cup Tree) \X Idx : mem[e[1]][e[2]].kind = "table"}) = Cardinality(Tree)

\* A table stays in the tree only while something is mapped below it: vmm_unmap_page_in gives back all
\* that the mappings took, whichever of them goes last.  Until a page is mapped within a large page.
NoEmptyTable == within = {} => \A t \in Tree : \E i \in Idx : Present(t, i)

\* What the processor finds at v: the rights are those that all levels grant.
Walk(v) ==
  LET pdpte == mem[Root][v[1]]
      pde == mem[pdpte.to][v[2]]
      pte == mem[pde.to][v[3]]
      leaf == mem[pte.to][v[4]]
      Grants(e) == e.flags \cap pde.flags \cap pdpte.flags
  IN  IF pdpte.kind = "absent" \/ pde.kind = "absent" \/ pte.kind = "absent" THEN Absent
      ELSE IF pte.kind = "large" THEN [pte EXCEPT !.flags = Grants(pte)]
      ELSE IF leaf.kind = "absent" THEN Absent
      ELSE [leaf EXCEPT !.flags = Grants(leaf) \cap pte.flags]

Translation == [v \in Virt |-> Walk(v)]

Space == INSTANCE AddressSpace WITH trans <- Translation

\* The tables implement an address space: a call changes what its own page leads to and nothing else,
\* and the rights asked for are the rights granted, at every level, whatever was mapped before it, up
\* to the first call of vmm_map_page_in for a page within a large page.
ImplementsAddressSpace == Space!Spec
=============================================================================
