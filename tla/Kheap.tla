------------------------------- MODULE Kheap -------------------------------
(***************************************************************************)
(* The kernel heap (kernel/mm/kheap.c) on top of the page allocator (Pmm). *)
(*                                                                         *)
(* Neither function takes a lock or gives up the processor, and each is    *)
(* one action.  A block is named by the address of its header.  The heap   *)
(* never returns a page; the other callers of the page allocator allocate  *)
(* and free pages of their own in between.                                 *)
(*                                                                         *)
(* kfree is called with what kmalloc returned and was not freed since, as  *)
(* kernel/proc/task.c, its only caller, does: `held' records what has been *)
(* handed out, which the code does not.  kfree itself checks no more than  *)
(* the magic number, which a freed block keeps.                            *)
(***************************************************************************)
EXTENDS Pmm, Functions

CONSTANTS
  Header,      \* sizeof(struct kmalloc_header)
  MinSplit,    \* the least rest that becomes a block of its own (32)
  Sizes,       \* sizes asked for, far below 2^32
  MaxBlocks    \* bound on the number of blocks

\* Quotient in kmalloc: the pages for a block of this size and its header.
PagesFor(size) == CeilDiv(Header + size, Page)

ASSUME KheapAssumption ==
  /\ Header \in Nat \ {0} /\ MinSplit \in Nat /\ Sizes \subseteq Nat \ {0} /\ MaxBlocks \in Nat
  /\ \A size \in Sizes : PagesFor(size) <= MaxCount

VARIABLES
  sizes,       \* sizes[a]: header->size of the block with its header at a
  free_list,
  held         \* history: the blocks handed out, with the sizes asked for

heap == <<sizes, free_list, held>>
kheap_vars == <<vars, heap>>

Blocks == DOMAIN sizes
Listed == Range(free_list)

\* The bytes of a block, with its header.
Extent(a) == [base |-> a, len |-> Header + sizes[a]]
HeapFrames == UNION {SharesByte(Extent(a)) : a \in Blocks}

KheapInit == Init /\ sizes = << >> /\ free_list = << >> /\ held = << >>

-----------------------------------------------------------------------------
\* The places in the list with a block of this size, the first of which is taken.
Fits(size) == {i \in DOMAIN free_list : sizes[free_list[i]] >= size}
FirstFit(size) == {i \in Fits(size) : \A j \in Fits(size) : i <= j}

\* Mutant: the list goes on after the block taken, whatever came before it.
UnlinkMutant(list, i) == SubSeq(list, i + 1, Len(list))

\* The list without its element at i.
Unlink(list, i) == SubSeq(list, 1, i - 1) \o SubSeq(list, i + 1, Len(list))

\* The sizes when a block of this size comes to be at a.
WithBlock(old, a, size) == [b \in DOMAIN old \cup {a} |-> IF b = a THEN size ELSE old[b]]

\* Mutant: a block that is larger than asked for is cut to the size asked for.
KmallocReuseMutant(size) ==
  \E i \in FirstFit(size) :
    /\ free_list' = Unlink(free_list, i)
    /\ sizes' = [sizes EXCEPT ![free_list[i]] = size]
    /\ held' = WithBlock(held, free_list[i], size)
    /\ UNCHANGED vars

\* kmalloc finds a block in the list and takes it as it is.
KmallocReuse(size) ==
  /\ \E i \in FirstFit(size) :
       /\ free_list' = Unlink(free_list, i)
       /\ held' = WithBlock(held, free_list[i], size)
  /\ UNCHANGED <<vars, sizes>>

\* Mutant: the header of the rest is not counted.
NewBlockMutant(a, size, room) ==
  IF room - size > Header + MinSplit
  THEN /\ sizes' = WithBlock(WithBlock(sizes, a + Header + size, room - size), a, size)
       /\ free_list' = <<a + Header + size>> \o free_list
  ELSE sizes' = WithBlock(sizes, a, room) /\ UNCHANGED free_list

\* A block at a with so much room: the rest of it goes to the list if it is worth a header.
NewBlock(a, size, room) ==
  IF room - size > Header + MinSplit
  THEN /\ sizes' = WithBlock(WithBlock(sizes, a + Header + size, room - size - Header), a, size)
       /\ free_list' = <<a + Header + size>> \o free_list
  ELSE sizes' = WithBlock(sizes, a, room) /\ UNCHANGED free_list

\* kmalloc finds none and takes pages; it fails when there are none.
KmallocFresh(size) ==
  /\ FirstFit(size) = {} /\ Cardinality(Blocks) < MaxBlocks
  /\ \E f \in Found(PagesFor(size)) :
       /\ AllocPages(f, PagesFor(size))
       /\ NewBlock(f * Page, size, PagesFor(size) * Page - Header)
       /\ held' = WithBlock(held, f * Page, size)

\* kfree of a block its caller holds, so that its magic number is there.
Kfree(a) ==
  /\ free_list' = <<a>> \o free_list
  /\ held' = Restrict(held, DOMAIN held \ {a})
  /\ UNCHANGED <<vars, sizes>>

\* The other callers of the page allocator; none holds a page of the heap.
OtherPages ==
  /\ \/ BootStep
     \/ \E count \in 1 .. MaxCount : \E f \in Found(count) : AllocPages(f, count)
     \/ \E f \in Frames \ HeapFrames : FreePage(f)
  /\ UNCHANGED heap

KheapNext ==
  \/ OtherPages
  \/ \E size \in Sizes : KmallocReuse(size) \/ KmallocFresh(size)
  \/ \E a \in DOMAIN held : Kfree(a)

KheapSpec == KheapInit /\ [][KheapNext]_kheap_vars

-----------------------------------------------------------------------------
(* Properties *)

\* The byte ranges of two blocks.
Apart(a, b) == a + Header + sizes[a] <= b \/ b + Header + sizes[b] <= a

\* Blocks never overlap, and lie in pages that the page allocator has handed out: what kmalloc returns
\* is nobody else's, however the blocks were split, freed and taken again.
BlocksApart ==
  /\ \A a, b \in Blocks : a # b => Apart(a, b)
  /\ \A f \in HeapFrames : granted[f] = 1

\* No byte of the heap's pages is lost: each is in a block.
NoByteLost ==
  \A f \in HeapFrames : \A byte \in f * Page .. (f + 1) * Page - 1 :
    \E a \in Blocks : a <= byte /\ byte < a + Header + sizes[a]

\* What kmalloc hands out is its caller's until the caller frees it: the block is not in the list, from
\* which it would be handed out again, and is as large as was asked for, whatever was freed and taken
\* meanwhile.  And no block is forgotten: one that nobody holds is in the list, once.
HeldSafe ==
  /\ \A a \in DOMAIN held : a \in Blocks \ Listed /\ held[a] <= sizes[a]
  /\ Blocks \subseteq DOMAIN held \cup Listed
  /\ IsInjective(free_list)
=============================================================================
