-------------------------------- MODULE Pmm --------------------------------
(***************************************************************************)
(* The physical page allocator: kernel/mm/pmm.c.                           *)
(*                                                                         *)
(* At boot the map the loader hands over is walked once, one range after   *)
(* the other (`plan', from `step' on), and then four ranges are reserved   *)
(* for good.  After that pages are allocated and freed; each of these      *)
(* functions holds pmm_lock throughout and is one action.                  *)
(*                                                                         *)
(* Addresses are numbers of bytes, with small pages and words.  `used' is  *)
(* the set of the bits that are set in the bitmap, the bits of the last    *)
(* word that stand for no frame included.  `granted' is history: how many  *)
(* callers hold the frame.  A caller frees only what it holds, as vmm.c    *)
(* does; a second free of a frame finds its bit clear and changes nothing. *)
(***************************************************************************)
EXTENDS Integers, Sequences, FiniteSets

CONSTANTS
  Page,       \* PAGE_SIZE (4096)
  WordBits,   \* BITMAP_WORD_BITS (64)
  WordBytes,  \* sizeof(uint64_t)
  MaxFrames,  \* MAX_FRAMES
  Maps,       \* memory maps: sequences of ranges [type, base, len]
  Low, Kernel, Info,  \* [base, len] of the low 1 MiB, the image, the boot information
  MaxCount    \* bound on the pages of one allocation

Ranges == [type : {"available", "module", "keep", "other"}, base : Nat, len : Nat]

ASSUME PmmAssumption ==
  /\ Page \in Nat \ {0} /\ WordBits \in Nat \ {0} /\ WordBytes \in Nat \ {0}
  /\ MaxFrames \in Nat \ {0} /\ MaxCount \in Nat
  /\ \A map \in Maps : map \in Seq(Ranges)
  /\ {Low, Kernel, Info} \subseteq [base : Nat, len : Nat]

VARIABLES
  frame_limit, plan, step,
  used,                                        \* bits set in frame_bitmap
  free_frames, used_frames, reserved_frames,   \* mm_stats
  alloc_word_cursor,
  granted

stats == <<free_frames, used_frames, reserved_frames>>
vars == <<frame_limit, plan, step, used, stats, alloc_word_cursor, granted>>

\* Quotients rounded up, as align_up_u64 and the bitmap's size need them.
CeilDiv(n, d) == (n + d - 1) \div d

Words(limit) == CeilDiv(limit, WordBits)
Bits == 0 .. Words(frame_limit) * WordBits - 1
Frames == 0 .. frame_limit - 1
AllFrames == 0 .. MaxFrames - 1
Free == Frames \ used

\* The ends of the ranges that are available or hold a module.
Ends(map) ==
  {0} \cup {map[i].base + map[i].len :
     i \in {j \in DOMAIN map : map[j].type = "available" \/ (map[j].type = "module" /\ map[j].len > 0)}}

\* The first walk: the highest of them (a set with one member).
HighestEnd(map) == {e \in Ends(map) : \A o \in Ends(map) : o <= e}

\* init_runtime_bitmap: how many frames the bitmap covers, and where it lies.
FrameLimit(end) ==
  LET n == end \div Page
  IN  IF n = 0 THEN 1 ELSE IF n > MaxFrames THEN MaxFrames ELSE n

BitmapRange(limit) ==
  LET after(r) == r.base + r.len
      low == IF after(Info) < after(Kernel) THEN after(Kernel) ELSE after(Info)
  IN  [base |-> CeilDiv(low, Page) * Page, len |-> Words(limit) * WordBytes]

\* The ranges reserved after the walk, in this order.
Kept(limit) == <<Low, Kernel, BitmapRange(limit), Info>>

Reservations(limit) ==
  [i \in 1 .. 4 |-> [type |-> "keep", base |-> Kept(limit)[i].base, len |-> Kept(limit)[i].len]]

\* Mutant: the reservations come before the walk.
PlanMutant(map, limit) == Reservations(limit) \o map

\* What the second walk over the tags does, and the reservations after it.
Plan(map, limit) == map \o Reservations(limit)

Booted == step > Len(plan)

TypeOK ==
  /\ frame_limit \in 1 .. MaxFrames
  /\ plan \in Seq(Ranges) /\ step \in 1 .. Len(plan) + 1
  /\ used \subseteq Bits
  /\ free_frames \in Nat /\ used_frames \in Nat /\ reserved_frames \in Nat
  /\ alloc_word_cursor \in 0 .. Words(frame_limit)
  /\ granted \in [AllFrames -> Nat]

\* pmm_init up to mark_all_used.
Init ==
  /\ \E map \in Maps : \E end \in HighestEnd(map) :
       frame_limit = FrameLimit(end) /\ plan = Plan(map, FrameLimit(end))
  /\ step = 1
  /\ used = Bits
  /\ free_frames = 0 /\ used_frames = frame_limit /\ reserved_frames = 0
  /\ alloc_word_cursor = 0
  /\ granted = [f \in AllFrames |-> 0]

-----------------------------------------------------------------------------
\* The valid frames from start up to, not including, end.
Clip(start, end) == {f \in Frames : start <= f /\ f < end}

\* The frames that lie wholly within a range, and those it touches.
Inside(r) == Clip(CeilDiv(r.base, Page), (r.base + r.len) \div Page)

\* The frames with a byte in the range, as reserve_range computes them.
Touched(r) == Clip(r.base \div Page, CeilDiv(r.base + r.len, Page))

\* Mutant: a frame is counted again each time a range holds it.
ChangedMutant(fs, isUsed) == fs

\* The frames whose bit a range changes: the others are not counted.
Changed(fs, isUsed) == {f \in fs : (f \in used) = isUsed}

\* mark_range_available
MarkAvailable(r) ==
  LET fs == Changed(Inside(r), TRUE) IN
  /\ used' = used \ fs
  /\ free_frames' = free_frames + Cardinality(fs)
  /\ used_frames' = used_frames - Cardinality(fs)
  /\ UNCHANGED reserved_frames

\* reserve_range
ReserveRange(r) ==
  LET fs == Changed(Touched(r), FALSE) IN
  /\ used' = used \cup fs
  /\ free_frames' = free_frames - Cardinality(fs)
  /\ used_frames' = used_frames + Cardinality(fs)
  /\ reserved_frames' = reserved_frames + Cardinality(fs)

\* One range of the plan; a module without bytes, and other memory, are skipped.
BootStep ==
  /\ ~Booted
  /\ step' = step + 1
  /\ LET r == plan[step] IN
     \/ r.type = "available" /\ MarkAvailable(r)
     \/ (r.type = "keep" \/ (r.type = "module" /\ r.len > 0)) /\ ReserveRange(r)
     \/ (r.type = "other" \/ (r.type = "module" /\ r.len = 0)) /\ UNCHANGED <<used, stats>>
  /\ UNCHANGED <<frame_limit, plan, alloc_word_cursor, granted>>

-----------------------------------------------------------------------------
\* The member of S that a scan round 0 .. n-1 from start meets first.
FirstFrom(S, start, n) == {x \in S : \A y \in S : (x - start) % n <= (y - start) % n}

\* The lowest clear bit of each word that has one.
LowestClear == {b \in Bits \ used : \A c \in Bits \ used : c \div WordBits = b \div WordBits => b <= c}

\* The words in which alloc_single_page_unlocked finds a frame.
OpenWords == {b \div WordBits : b \in LowestClear \cap Frames}

\* The frames from which count frames are free.
Runs(count) == {f \in Frames : f + count <= frame_limit /\ f .. f + count - 1 \subseteq Free}

\* Mutant: frames before the cursor are not looked at.
SingleMutant == {f \in LowestClear \cap Frames : f \div WordBits >= alloc_word_cursor}

\* The frame alloc_single_page_unlocked takes.
Single ==
  {f \in LowestClear \cap Frames :
     f \div WordBits \in FirstFrom(OpenWords, alloc_word_cursor, Words(frame_limit))}

\* The caller gets the frames from f on.
Grant(f, count) ==
  LET fs == f .. f + count - 1 IN
  /\ used' = used \cup fs
  /\ granted' = [g \in AllFrames |-> granted[g] + (IF g \in fs THEN 1 ELSE 0)]
  /\ free_frames' = free_frames - count
  /\ used_frames' = used_frames + count
  /\ UNCHANGED <<frame_limit, plan, step, reserved_frames>>

\* Mutant: only the first frame of the run is looked at.
RunStartsMutant(count) == {f \in Free : f + count <= frame_limit}

\* Where pmm_alloc_pages of several pages may take them: the first run after the cursor.
RunStarts(count) ==
  FirstFrom(Runs(count), (alloc_word_cursor * WordBits) % frame_limit, frame_limit)

\* Where the pages are found: none, or one frame.
Found(count) == IF count = 1 THEN Single ELSE RunStarts(count)

\* pmm_alloc_pages finds the frames from f on.
AllocPages(f, count) ==
  /\ Booted /\ count <= frame_limit /\ free_frames >= count
  /\ Grant(f, count)
  /\ alloc_word_cursor' = (IF count = 1 THEN f ELSE f + count) \div WordBits

\* pmm_free_page; address 0 is refused.
FreePage(f) ==
  /\ Booted /\ f # 0 /\ granted[f] > 0 /\ f \in used
  /\ used' = used \ {f}
  /\ granted' = [granted EXCEPT ![f] = granted[f] - 1]
  /\ free_frames' = free_frames + 1
  /\ used_frames' = used_frames - 1
  /\ alloc_word_cursor' = f \div WordBits
  /\ UNCHANGED <<frame_limit, plan, step, reserved_frames>>

Next ==
  \/ BootStep
  \/ \E count \in 1 .. MaxCount : \E f \in Found(count) : AllocPages(f, count)
  \/ \E f \in Frames : FreePage(f)

Spec == Init /\ [][Next]_vars

-----------------------------------------------------------------------------
(* Properties *)

\* mm_stats counts the bitmap: free_frames is the number of clear bits, and
\* free and used frames add up, also when the ranges of the map overlap.
CountsExact ==
  free_frames = Cardinality(Free) /\ used_frames = frame_limit - free_frames

\* A frame is held by one caller at most, and its bit is set while it is: the
\* results of allocations never overlap.
HeldOnce == \A f \in Frames : granted[f] <= 1 /\ (granted[f] = 1 => f \in used)

\* A clear bit always stands for a frame: the bits that fill the last word stay
\* set, so ctz never picks one of them.
SlackStaysSet == Bits \ used \subseteq Frames

\* The frames that share a byte with a range.
SharesByte(r) ==
  {f \in Frames : r.len > 0 /\ f * Page < r.base + r.len /\ r.base < (f + 1) * Page}

\* No frame with a byte of the low memory, of the kernel's image, of the bitmap
\* itself or of the boot information is ever free or handed out after boot.
KeptReserved ==
  Booted => \A i \in 1 .. 4 : \A f \in SharesByte(Kept(frame_limit)[i]) : f \in used /\ granted[f] = 0

\* pmm_alloc_page fails only when there is no free frame: wherever the cursor
\* is, the scan comes to a word with a frame in it, and to one frame only.
PageIsFound == Booted /\ free_frames > 0 => Cardinality(Single) = 1

Promise == INSTANCE PageAlloc WITH Frames <- AllFrames, holders <- granted

\* The bitmap keeps the allocator's promise: every call of pmm_alloc_pages hands out a run of frames
\* nobody holds, and a frame comes back from its only holder.
ImplementsPageAlloc == Promise!Spec
=============================================================================
